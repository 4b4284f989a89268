----------------------- MODULE CommandProtocolProofs -----------------------
(***************************************************************************)
(* What the program at the end of a connection may believe, for every      *)
(* number of commands, of orders of the bot and of lines of history.       *)
(***************************************************************************)
EXTENDS CommandProtocol, TLAPS

USE ProtocolAssumption

-----------------------------------------------------------------------------
(* Lines and records.                                                      *)

LineKinds == {"AUTH", "OK", "ERROR", "INFO", "TRANSACTION_RESULT"}

LEMMA Lines ==
  /\ \A k \in LineKinds, n \in 0 .. MaxCommands :
        L(k, n) \in Line /\ L(k, n).kind = k /\ L(k, n).of = n
  /\ \A l \in Line : l.kind \in LineKinds /\ l.of \in 0 .. MaxCommands /\ l = L(l.kind, l.of)
<1>1. \A k \in LineKinds, n \in 0 .. MaxCommands :
        L(k, n) \in Line /\ L(k, n).kind = k /\ L(k, n).of = n
  BY DEF L, Line, LineKinds
<1>2. \A l \in Line : l.kind \in LineKinds /\ l.of \in 0 .. MaxCommands /\ l = L(l.kind, l.of)
  BY DEF L, Line, LineKinds
<1> QED
  BY <1>1, <1>2

(* A record of one line, and an answer of one such record.                 *)
LEMMA Records ==
  ASSUME NEW l \in Line
  PROVE  /\ <<l>> \in Seq(Line) /\ DOMAIN <<l>> = {1} /\ <<l>>[1] = l
         /\ << <<l>> >> \in Seq(Seq(Line)) /\ << <<l>> >> # << >>
         /\ DOMAIN << <<l>> >> = {1} /\ << <<l>> >>[1] = <<l>>
         /\ Head(<< <<l>> >>) = <<l>> /\ Tail(<< <<l>> >>) = << >>
<1>1. <<l>> \in Seq(Line) /\ Len(<<l>>) = 1 /\ DOMAIN <<l>> = {1} /\ <<l>>[1] = l
  OBVIOUS
<1> DEFINE r == <<l>>
<1> HIDE DEF r
<1>2. /\ <<r>> \in Seq(Seq(Line)) /\ <<r>> # << >> /\ DOMAIN <<r>> = {1} /\ <<r>>[1] = r
      /\ Head(<<r>>) = r /\ Tail(<<r>>) = << >>
  BY <1>1 DEF r
<1> QED
  BY <1>1, <1>2 DEF r

(* The head and the tail of what waits.                                    *)
LEMMA Taking ==
  ASSUME NEW S, NEW s \in Seq(S), s # << >>
  PROVE  /\ Head(s) \in S /\ Head(s) = s[1] /\ 1 \in DOMAIN s
         /\ Tail(s) \in Seq(S) /\ Len(Tail(s)) = Len(s) - 1 /\ Len(s) \in Nat \ {0}
         /\ \A i \in DOMAIN Tail(s) : i + 1 \in DOMAIN s /\ Tail(s)[i] = s[i + 1]
OBVIOUS

LEMMA Adding ==
  ASSUME NEW S, NEW s \in Seq(S), NEW x \in S
  PROVE  /\ Append(s, x) \in Seq(S) /\ Len(Append(s, x)) = Len(s) + 1 /\ Len(s) \in Nat
         /\ \A i \in DOMAIN Append(s, x) :
              \/ i \in DOMAIN s /\ Append(s, x)[i] = s[i]
              \/ i = Len(s) + 1 /\ Append(s, x)[i] = x
         /\ Append(s, x) # << >> /\ Append(s, x)[Len(s) + 1] = x
         /\ Len(s) + 1 \in DOMAIN Append(s, x)
OBVIOUS

LEMMA Joining ==
  ASSUME NEW S, NEW s \in Seq(S), NEW t \in Seq(S)
  PROVE  /\ s \o t \in Seq(S) /\ Len(s \o t) = Len(s) + Len(t) /\ Len(s) \in Nat /\ Len(t) \in Nat
         /\ \A i \in DOMAIN (s \o t) :
              \/ i \in DOMAIN s /\ (s \o t)[i] = s[i]
              \/ i - Len(s) \in DOMAIN t /\ (s \o t)[i] = t[i - Len(s)]
OBVIOUS

-----------------------------------------------------------------------------
(* Types, and what the threads are in the middle of.                       *)

(* Every order that is waiting or settled was a command or is of the bot.  *)
Counted ==
  settled \in Nat /\ settled + Len(queue) + Len(toServer) <= issued + botOrders

(* A thread inside SSL_write has something to send, the session's in       *)
(* SSL_read has nothing; the terminal does not outlive its connection.     *)
Senders ==
  /\ "session" \in writing => out # << >>
  /\ "worker" \in writing => worker = "settled"
  /\ session = "receiving" => out = << >>
  /\ program = "terminal" => ~ lost

Types == TypeOK /\ Counted /\ Senders

(* What the session's thread answers: one or two records, of which the     *)
(* first tells the end unless it acknowledges a trade that is now waiting; *)
(* anything else is a surprise.                                            *)
LEMMA Answers ==
  ASSUME Types, Command
  PROVE  \E k \in Kinds :
           /\ Handles(k)
           /\ Number \in 1 .. MaxCommands /\ toServer # << >> /\ toServer[1] = <<k, Number>>
           /\ out' \in Seq(Seq(Line)) /\ bot' \in BOOLEAN /\ surprised' \in BOOLEAN
           /\ quit' \in 0 .. MaxCommands
           /\ \A i \in DOMAIN out' : \A j \in DOMAIN out'[i] :
                out'[i][j].kind # "TRANSACTION_RESULT"
           /\ surprised => surprised'
           /\ queue' = queue \/ queue' = Append(queue, Number)
           /\ \/ surprised'
              \/ \E l \in Line :
                   /\ out' = << <<l>> >> /\ l.of = Number
                   /\ \/ queue' = queue /\ (l.kind # "OK" \/ k # "BUY")
                      \/ queue' = Append(queue, Number) /\ l.kind = "OK" /\ k = "BUY"
<1> USE DEF sessVars, workVars, connVars, cliVars
<1>0. /\ toServer \in Seq(Kinds \X (1 .. MaxCommands)) /\ bot \in BOOLEAN
      /\ surprised \in BOOLEAN /\ quit \in 0 .. MaxCommands
  BY DEF Types, TypeOK
<1>1. ASSUME NEW k \in Kinds, Handles(k)
      PROVE  Number \in 1 .. MaxCommands /\ toServer # << >> /\ toServer[1] = <<k, Number>>
  <2>1. /\ toServer # << >> /\ Head(toServer)[1] = k
        /\ Head(toServer) \in Kinds \X (1 .. MaxCommands) /\ Head(toServer) = toServer[1]
    BY <1>0, <1>1, Taking DEF Handles
  <2> QED
    BY <2>1 DEF Number
<1>2. ASSUME NEW k \in Kinds, Handles(k), NEW l \in Line, out' = << <<l>> >>,
             l.kind # "TRANSACTION_RESULT"
      PROVE  /\ out' \in Seq(Seq(Line))
             /\ \A i \in DOMAIN out' : \A j \in DOMAIN out'[i] :
                  out'[i][j].kind # "TRANSACTION_RESULT"
  BY <1>2, Records
<1>3. {"ask", "history", "BUY", "buy", "start", "stop", "quit"} = Kinds
  BY DEF Kinds
<1>4. {"OK", "ERROR", "INFO"} \subseteq LineKinds
  BY DEF LineKinds
<1>5. CASE Ask
  <2>1. Handles("ask") /\ UNCHANGED <<quit, bot, queue, surprised>>
    BY <1>5 DEF Ask
  <2>2. Number \in 1 .. MaxCommands
    BY <1>1, <1>3, <2>1
  <2>3. PICK k \in {"INFO", "ERROR"} : out' = << <<L(k, Number)>> >>
    BY <1>5 DEF Ask, Answer
  <2>4. L(k, Number) \in Line /\ L(k, Number).kind = k /\ L(k, Number).of = Number
    BY <1>4, <2>2, Lines
  <2> QED
    BY <1>0, <1>1, <1>2, <1>3, <2>1, <2>3, <2>4
<1>6. CASE ShowTransactions
  <2>1. Handles("history") /\ UNCHANGED <<quit, bot, queue>>
    BY <1>6 DEF ShowTransactions
  <2>2. Number \in 1 .. MaxCommands
    BY <1>1, <1>3, <2>1
  <2>3. PICK h \in 0 .. MaxHistory :
          /\ out' = << [i \in 1 .. (1 + h) |-> L("INFO", Number)] >>
          /\ surprised' = (surprised \/ h > 0)
    BY <1>6 DEF ShowTransactions, Answer
  <2> DEFINE l == L("INFO", Number)
             r == [i \in 1 .. (1 + h) |-> l]
  <2>4. l \in Line /\ l.kind = "INFO" /\ l.of = Number
    BY <1>4, <2>2, Lines
  <2> HIDE DEF l
  <2>5. r \in Seq(Line) /\ DOMAIN r = 1 .. (1 + h) /\ \A j \in DOMAIN r : r[j] = l
    BY <2>4
  <2>6. h = 0 => r = <<l>>
    BY <2>4
  <2> HIDE DEF r
  <2>7. <<r>> \in Seq(Seq(Line)) /\ DOMAIN <<r>> = {1} /\ <<r>>[1] = r
    BY <2>5
  <2>8. out' = <<r>>
    BY <2>3 DEF l, r
  <2>9. (h = 0 \/ surprised') /\ (surprised => surprised') /\ surprised' \in BOOLEAN
    <3> DEFINE g == h > 0
    <3>1. surprised' = (surprised \/ g) /\ g \in BOOLEAN
      BY <2>3
    <3>2. h = 0 \/ g
      OBVIOUS
    <3> HIDE DEF g
    <3> QED
      BY <1>0, <3>1, <3>2, Zenon
  <2>10. \A i \in DOMAIN out' : \A j \in DOMAIN out'[i] :
           out'[i][j].kind # "TRANSACTION_RESULT"
    BY <2>4, <2>5, <2>7, <2>8
  <2>11. surprised' \/ out' = << <<l>> >>
    BY <2>6, <2>8, <2>9
  <2>12. out' \in Seq(Seq(Line)) /\ bot' \in BOOLEAN /\ quit' \in 0 .. MaxCommands
    BY <1>0, <2>1, <2>7, <2>8
  <2> QED
    BY <1>1, <1>3, <2>1, <2>4, <2>9, <2>10, <2>11, <2>12
<1>7. CASE RefuseTrade
  <2>1. PICK k \in {"BUY", "buy"} : Handles(k)
    BY <1>7 DEF RefuseTrade
  <2>2. Number \in 1 .. MaxCommands
    BY <1>1, <1>3, <2>1
  <2> DEFINE l == L("ERROR", Number)
  <2>3. out' = << <<l>> >> /\ UNCHANGED <<quit, bot, queue, surprised>>
    BY <1>7 DEF RefuseTrade, Answer
  <2>4. l \in Line /\ l.kind = "ERROR" /\ l.of = Number
    BY <1>4, <2>2, Lines
  <2> HIDE DEF l
  <2> QED
    BY <1>0, <1>1, <1>2, <1>3, <2>1, <2>3, <2>4
<1>8. CASE FailTrade
  <2>1. PICK k \in {"BUY", "buy"} : Handles(k)
    BY <1>8 DEF FailTrade
  <2>2. Number \in 1 .. MaxCommands
    BY <1>1, <1>3, <2>1
  <2> DEFINE l == L("ERROR", Number)
             m == L("OK", Number)
             r == <<l>>
             s == <<m>>
  <2>3. out' = <<r, s>> /\ surprised' = TRUE /\ UNCHANGED <<quit, bot, queue>>
    BY <1>8 DEF FailTrade, Answer
  <2>4. l \in Line /\ l.kind = "ERROR" /\ m \in Line /\ m.kind = "OK"
    BY <1>4, <2>2, Lines
  <2> HIDE DEF l, m
  <2>5. r \in Seq(Line) /\ s \in Seq(Line)
        /\ (\A j \in DOMAIN r : r[j] = l) /\ (\A j \in DOMAIN s : s[j] = m)
    BY <2>4, Records
  <2> HIDE DEF r, s
  <2>6. <<r, s>> \in Seq(Seq(Line)) /\ \A i \in DOMAIN <<r, s>> : <<r, s>>[i] \in {r, s}
    BY <2>5
  <2> QED
    BY <1>0, <1>1, <1>3, <2>1, <2>3, <2>4, <2>5, <2>6
<1>9. CASE SubmitTrade
  <2>1. PICK k \in {"BUY", "buy"} : Handles(k)
    BY <1>9 DEF SubmitTrade
  <2>2. Number \in 1 .. MaxCommands /\ Head(toServer)[1] = k
    BY <1>1, <1>3, <2>1 DEF Handles
  <2> DEFINE l == L("OK", Number)
  <2>3. /\ out' = << <<l>> >> /\ queue' = Append(queue, Number) /\ bot' = bot /\ quit' = quit
        /\ surprised' = (surprised \/ k = "buy")
    BY <1>9, <2>2 DEF SubmitTrade, Answer
  <2>4. l \in Line /\ l.kind = "OK" /\ l.of = Number
    BY <1>4, <2>2, Lines
  <2> HIDE DEF l
  <2>5. surprised' \/ k = "BUY"
    BY <2>1, <2>3
  <2> QED
    BY <1>0, <1>1, <1>2, <1>3, <2>1, <2>3, <2>4, <2>5
<1>10. CASE StartBot
  <2>1. Handles("start") /\ UNCHANGED <<quit, queue, surprised>>
    BY <1>10 DEF StartBot
  <2>2. Number \in 1 .. MaxCommands
    BY <1>1, <1>3, <2>1
  <2>3. PICK k \in {"INFO", "ERROR"} : out' = << <<L(k, Number)>> >> /\ bot' \in BOOLEAN
    BY <1>0, <1>10 DEF StartBot, Answer
  <2>4. L(k, Number) \in Line /\ L(k, Number).kind = k /\ L(k, Number).of = Number
    BY <1>4, <2>2, Lines
  <2> QED
    BY <1>0, <1>1, <1>2, <1>3, <2>1, <2>3, <2>4
<1>11. CASE StopBot
  <2>1. Handles("stop") /\ UNCHANGED <<quit, queue, surprised>> /\ bot' = FALSE
    BY <1>11 DEF StopBot
  <2>2. Number \in 1 .. MaxCommands
    BY <1>1, <1>3, <2>1
  <2>3. PICK k \in {"INFO", "ERROR"} : out' = << <<L(k, Number)>> >>
    BY <1>11 DEF StopBot, Answer
  <2>4. L(k, Number) \in Line /\ L(k, Number).kind = k /\ L(k, Number).of = Number
    BY <1>4, <2>2, Lines
  <2> QED
    BY <1>0, <1>1, <1>2, <1>3, <2>1, <2>3, <2>4
<1>12. CASE QuitCommand
  <2>1. Handles("quit") /\ UNCHANGED <<bot, queue, surprised>> /\ quit' = Number
    BY <1>12 DEF QuitCommand
  <2>2. Number \in 1 .. MaxCommands /\ quit' \in 0 .. MaxCommands
    BY <1>1, <1>3, <2>1
  <2> DEFINE l == L("OK", Number)
  <2>3. out' = << <<l>> >>
    BY <1>12 DEF QuitCommand, Answer
  <2>4. l \in Line /\ l.kind = "OK" /\ l.of = Number
    BY <1>4, <2>2, Lines
  <2> HIDE DEF l
  <2> QED
    BY <1>0, <1>1, <1>2, <1>3, <2>1, <2>2, <2>3, <2>4
<1> QED
  BY <1>5, <1>6, <1>7, <1>8, <1>9, <1>10, <1>11, <1>12 DEF Command

LEMMA Delivery ==
  ASSUME Types, NEW r \in Seq(Line), Transmit(r)
  PROVE  /\ toClient' \in Seq(Line)
         /\ toClient' = toClient \/ toClient' = toClient \o r
         /\ marked' \in BOOLEAN /\ spoilt' \in BOOLEAN
<1>1. toClient \in Seq(Line) /\ marked \in BOOLEAN /\ spoilt \in BOOLEAN
  BY DEF Types, TypeOK
<1>2. toClient' = toClient \/ toClient' = toClient \o r
  BY DEF Transmit
<1>3. marked' \in {marked, TRUE} /\ spoilt' \in {spoilt, TRUE}
  BY DEF Transmit
<1> QED
  BY <1>1, <1>2, <1>3, Joining

(* The program's own steps.                                                *)
LEMMA ProgramTypes ==
  Types /\ ((\E k \in Kinds : Issue(k)) \/ Quit \/ IssueInVain \/ Close \/ Program) => Types'
<1> SUFFICES ASSUME Types,
                    (\E k \in Kinds : Issue(k)) \/ Quit \/ IssueInVain \/ Close \/ Program
             PROVE  Types'
  OBVIOUS
<1> USE DEF sessVars, workVars, connVars, cliVars, Types, Senders
<1>0. /\ toServer \in Seq(Kinds \X (1 .. MaxCommands)) /\ toClient \in Seq(Line)
      /\ queue \in Seq(0 .. MaxCommands) /\ issued \in 0 .. MaxCommands
      /\ botOrders \in 0 .. MaxBotOrders /\ settled \in Nat
  BY DEF TypeOK, Counted
<1>1. ASSUME NEW k \in Kinds, Issue(k) \/ (k = "quit" /\ Quit) PROVE Types'
  <2>0. /\ issued' = issued + 1 /\ issued < MaxCommands /\ kind' = k /\ got' = << >>
        /\ toServer' = Append(toServer, <<k, issued'>>)
        /\ cli' \in {"reading", "closed"}
        /\ UNCHANGED <<program, successes, failures, lost, toClient, sessVars, queue, workVars,
                       connVars, surprised>>
    BY <1>1 DEF Issue, Quit
  <2>1. issued' \in 1 .. MaxCommands
    BY <1>0, <2>0
  <2>2. /\ toServer' \in Seq(Kinds \X (1 .. MaxCommands)) /\ Len(toServer') = Len(toServer) + 1
        /\ Len(toServer) \in Nat /\ Len(queue) \in Nat
    <3>1. <<k, issued'>> \in Kinds \X (1 .. MaxCommands)
      BY <2>1
    <3> QED
      BY <1>0, <2>0, <3>1, Adding
  <2>3. Counted' /\ settled' + Len(queue') <= issued' + botOrders'
    BY <1>0, <2>0, <2>2 DEF Counted
  <2>4. TypeOK'
    <3>1. << >> \in Seq(Line)
      OBVIOUS
    <3> QED
      BY <2>0, <2>1, <2>2, <2>3, <3>1 DEF TypeOK
  <2> QED
    BY <2>0, <2>3, <2>4
<1>2. CASE Close
  BY <1>2 DEF Close, TypeOK, Counted
<1>3. CASE Program
  <2>1. /\ UNCHANGED <<program, kind, issued, toServer, sessVars, queue, workVars, connVars,
                       surprised>>
        /\ cli' \in {"ready", "reading", "closed"}
        /\ lost' = lost \/ (lost' = TRUE /\ program # "terminal")
    BY <1>3 DEF Program, Read, ReadAndCount, ReadRecord, ReadFails
  <2>2. toClient' \in Seq(Line) /\ got' \in Seq(Line)
    <3>1. CASE ReadFails
      BY <3>1 DEF ReadFails, TypeOK
    <3>2. CASE ~ ReadFails
      <4>1. toClient # << >> /\ toClient' = Tail(toClient) /\ got' = <<Head(toClient)>>
        BY <1>3, <3>2 DEF Program, Read, ReadAndCount, ReadRecord
      <4>2. Head(toClient) \in Line /\ Tail(toClient) \in Seq(Line)
        BY <1>0, <4>1, Taking
      <4> QED
        BY <4>1, <4>2, Records
    <3> QED
      BY <3>1, <3>2
  <2>3. successes' \in Nat /\ failures' \in Nat
    <3>1. successes \in Nat /\ failures \in Nat
      BY DEF TypeOK
    <3>2. successes' \in {successes, successes + 1} /\ failures' \in {failures, failures + 1}
      BY <1>3 DEF Program, Read, ReadAndCount, ReadRecord, ReadFails
    <3>3. QED
      BY <3>1, <3>2
  <2>4. Counted' /\ Senders'
    BY <2>1 DEF Counted
  <2>5. settled' + Len(queue') <= issued' + botOrders' /\ lost' \in BOOLEAN
    BY <2>1 DEF TypeOK
  <2> QED
    BY <2>1, <2>2, <2>3, <2>4, <2>5 DEF TypeOK
<1>4. CASE IssueInVain
  <2>1. /\ issued' \in 1 .. MaxCommands /\ issued' = issued + 1 /\ failures' \in Nat
        /\ UNCHANGED <<program, cli, kind, got, successes, lost, toServer, toClient, sessVars,
                       queue, workVars, connVars, surprised>>
    BY <1>0, <1>4 DEF IssueInVain, TypeOK
  <2>2. Len(queue) \in Nat /\ Len(toServer) \in Nat
    BY <1>0
  <2>3. Counted' /\ settled' + Len(queue') <= issued' + botOrders'
    BY <1>0, <2>1, <2>2 DEF Counted
  <2> QED
    BY <2>1, <2>3 DEF TypeOK
<1> QED
  BY <1>1, <1>2, <1>3, <1>4 DEF Kinds

(* The session's thread and the bot.                                       *)
LEMMA SessionTypes == Types /\ (Serve \/ BotOrder) => Types'
<1> SUFFICES ASSUME Types, Serve \/ BotOrder PROVE Types'
  OBVIOUS
<1> USE DEF sessVars, workVars, connVars, cliVars, Types, Senders
<1>0. /\ toServer \in Seq(Kinds \X (1 .. MaxCommands))
      /\ queue \in Seq(0 .. MaxCommands) /\ issued \in 0 .. MaxCommands
      /\ botOrders \in 0 .. MaxBotOrders /\ settled \in Nat
      /\ Len(queue) \in Nat /\ Len(toServer) \in Nat
  BY DEF TypeOK, Counted
<1>1. CASE Command
  <2>1. PICK k \in Kinds :
           /\ Handles(k)
           /\ Number \in 1 .. MaxCommands /\ toServer # << >>
           /\ out' \in Seq(Seq(Line)) /\ bot' \in BOOLEAN /\ surprised' \in BOOLEAN
           /\ quit' \in 0 .. MaxCommands
           /\ queue' = queue \/ queue' = Append(queue, Number)
    BY <1>1, Answers
  <2>2. /\ toServer' \in Seq(Kinds \X (1 .. MaxCommands))
        /\ Len(toServer') = Len(toServer) - 1
    BY <1>0, <2>1, Taking DEF Handles
  <2>3. /\ queue' \in Seq(0 .. MaxCommands)
        /\ Len(queue') = Len(queue) \/ Len(queue') = Len(queue) + 1
    <3>1. Number \in 0 .. MaxCommands
      BY <2>1
    <3>2. CASE queue' = queue
      BY <1>0, <3>2
    <3>3. CASE queue' = Append(queue, Number)
      BY <1>0, <3>1, <3>3, Adding
    <3> QED
      BY <2>1, <3>2, <3>3
  <2>4. UNCHANGED <<issued, botOrders, settled>>
    BY <2>1 DEF Handles
  <2>5. Counted' /\ settled' + Len(queue') <= issued' + botOrders'
    BY <1>0, <2>2, <2>3, <2>4 DEF Counted
  <2>6. TypeOK'
    BY <2>1, <2>2, <2>3, <2>5 DEF Handles, TypeOK
  <2>7. Senders'
    <3>1. out = << >> /\ session' = "looping" /\ UNCHANGED <<writing, worker, program, lost>>
      BY <2>1 DEF Handles
    <3> QED
      BY <3>1
  <2> QED
    BY <2>5, <2>6, <2>7
<1>2. CASE EndSession
  BY <1>2 DEF EndSession, TypeOK, Counted
<1>3. CASE BotOrder
  <2>1. queue' = Append(queue, 0) /\ 0 \in 0 .. MaxCommands
    BY <1>3 DEF BotOrder
  <2>2. queue' \in Seq(0 .. MaxCommands) /\ Len(queue') = Len(queue) + 1
    BY <1>0, <2>1, Adding
  <2>3. Counted' /\ settled' + Len(queue') <= issued' + botOrders'
    BY <1>0, <1>3, <2>2 DEF Counted, BotOrder
  <2>4. botOrders' \in 0 .. MaxBotOrders
    BY <1>0, <1>3 DEF BotOrder
  <2> QED
    BY <1>3, <2>2, <2>3, <2>4 DEF BotOrder, TypeOK
<1>4. CASE Loop
  <2>1. session' \in {"looping", "receiving", "ended"}
    BY <1>4 DEF Loop
  <2> QED
    BY <1>4, <2>1 DEF Loop, TypeOK, Counted
<1>5. CASE DropAnswer
  <2>1. out \in Seq(Seq(Line)) /\ out # << >>
    BY <1>5 DEF DropAnswer, TypeOK
  <2>2. out' \in Seq(Seq(Line))
    BY <1>5, <2>1, Taking DEF DropAnswer
  <2> QED
    BY <1>5, <2>1, <2>2 DEF DropAnswer, TypeOK, Counted
<1> QED
  BY <1>1, <1>2, <1>3, <1>4, <1>5 DEF Serve

(* What the session's thread and the worker deliver.                       *)
LEMMA SessionSends ==
  ASSUME Types, SentBySession
  PROVE  /\ out # << >> /\ Head(out) \in Seq(Line) /\ Head(out) = out[1] /\ 1 \in DOMAIN out
         /\ out' \in Seq(Seq(Line))
         /\ \A i \in DOMAIN out' : i + 1 \in DOMAIN out /\ out'[i] = out[i + 1]
         /\ toClient' \in Seq(Line)
         /\ toClient' = toClient \/ toClient' = toClient \o Head(out)
         /\ marked' \in BOOLEAN /\ spoilt' \in BOOLEAN
<1>1. out # << >> /\ out \in Seq(Seq(Line))
  BY DEF SentBySession, Types, Senders, TypeOK
<1>2. Head(out) \in Seq(Line)
  BY <1>1, Taking
<1> QED
  BY <1>1, <1>2, Taking, Delivery DEF SentBySession

LEMMA WorkerSends ==
  ASSUME Types, SentByWorker
  PROVE  LET l == L("TRANSACTION_RESULT", order) IN
         /\ worker = "settled" /\ l \in Line /\ l.kind = "TRANSACTION_RESULT" /\ l.of = order
         /\ toClient' \in Seq(Line)
         /\ toClient' = toClient \/ toClient' = toClient \o <<l>>
         /\ marked' \in BOOLEAN /\ spoilt' \in BOOLEAN
         /\ surprised' \in BOOLEAN
         /\ surprised \/ order = 0 \/ Overtakes => surprised'
<1> DEFINE l == L("TRANSACTION_RESULT", order)
<1>1. worker = "settled" /\ order \in 0 .. MaxCommands /\ surprised \in BOOLEAN
  BY DEF SentByWorker, Types, Senders, TypeOK
<1>2. l \in Line /\ l.kind = "TRANSACTION_RESULT" /\ l.of = order
  BY <1>1, Lines DEF LineKinds
<1>3. Transmit(<<l>>)
  BY DEF SentByWorker
<1> HIDE DEF l
<1>4. /\ toClient' \in Seq(Line)
      /\ toClient' = toClient \/ toClient' = toClient \o <<l>>
      /\ marked' \in BOOLEAN /\ spoilt' \in BOOLEAN
  BY <1>2, <1>3, Records, Delivery
<1>5. surprised' \in BOOLEAN /\ (surprised \/ order = 0 \/ Overtakes => surprised')
  <2>1. surprised' = (surprised \/ order = 0 \/ Overtakes)
    BY DEF SentByWorker
  <2> QED
    BY <2>1, Zenon
<1> QED
  BY <1>1, <1>2, <1>4, <1>5 DEF l

(* The worker, and the two of them sending.                                *)
LEMMA SendingTypes ==
  Types /\ (Settle \/ DropResult \/ (\E w \in {"session", "worker"} : BeginSend(w))
            \/ SentBySession \/ SentByWorker) => Types'
<1> SUFFICES ASSUME Types,
                    Settle \/ DropResult \/ (\E w \in {"session", "worker"} : BeginSend(w))
                    \/ SentBySession \/ SentByWorker
             PROVE  Types'
  OBVIOUS
<1> USE DEF sessVars, workVars, connVars, cliVars, Types, Senders
<1>0. /\ toServer \in Seq(Kinds \X (1 .. MaxCommands))
      /\ queue \in Seq(0 .. MaxCommands) /\ issued \in 0 .. MaxCommands
      /\ botOrders \in 0 .. MaxBotOrders /\ settled \in Nat
      /\ Len(queue) \in Nat /\ Len(toServer) \in Nat
  BY DEF TypeOK, Counted
<1>1. CASE Settle
  <2>1. /\ Head(queue) \in 0 .. MaxCommands /\ queue' \in Seq(0 .. MaxCommands)
        /\ Len(queue') = Len(queue) - 1
    BY <1>0, <1>1, Taking DEF Settle
  <2>2. Counted' /\ settled' + Len(queue') <= issued' + botOrders'
    BY <1>0, <1>1, <2>1 DEF Counted, Settle
  <2> QED
    BY <1>1, <2>1, <2>2 DEF Settle, TypeOK
<1>2. CASE DropResult
  BY <1>2 DEF DropResult, TypeOK, Counted
<1>3. ASSUME NEW w \in {"session", "worker"}, BeginSend(w) PROVE Types'
  <2>1. raced' \in BOOLEAN
    <3> DEFINE busy == writing # {}
    <3>1. raced' = (raced \/ busy)
      BY <1>3 DEF BeginSend
    <3> HIDE DEF busy
    <3> QED
      BY <3>1, Zenon
  <2> QED
    BY <1>3, <2>1 DEF BeginSend, ToSend, TypeOK, Counted
<1>4. CASE SentBySession
  <2>1. /\ out' \in Seq(Seq(Line)) /\ toClient' \in Seq(Line) /\ out # << >>
        /\ marked' \in BOOLEAN /\ spoilt' \in BOOLEAN
    BY <1>4, SessionSends
  <2> QED
    BY <1>4, <2>1 DEF SentBySession, TypeOK, Counted
<1>5. CASE SentByWorker
  <2>1. /\ toClient' \in Seq(Line) /\ surprised' \in BOOLEAN
        /\ marked' \in BOOLEAN /\ spoilt' \in BOOLEAN
    BY <1>5, WorkerSends
  <2> QED
    BY <1>5, <2>1 DEF SentByWorker, TypeOK, Counted
<1> QED
  BY <1>1, <1>2, <1>3, <1>4, <1>5

LEMMA TypesHold == Spec => []Types
<1>1. Init => Types
  <2> SUFFICES ASSUME Init PROVE Types
    OBVIOUS
  <2>1. L("AUTH", 0) \in Line
    BY Lines DEF LineKinds
  <2>2. <<L("AUTH", 0)>> \in Seq(Line)
    BY <2>1, Records
  <2>3. toClient \in Seq(Line)
    BY <2>2 DEF Init
  <2>4. /\ << >> \in Seq(Line) /\ << >> \in Seq(Seq(Line)) /\ << >> \in Seq(0 .. MaxCommands)
        /\ << >> \in Seq(Kinds \X (1 .. MaxCommands)) /\ "ask" \in Kinds
    BY DEF Kinds
  <2>5. settled = 0 /\ Len(queue) = 0 /\ Len(toServer) = 0 /\ issued = 0 /\ botOrders = 0
    BY DEF Init
  <2>6. Counted /\ Senders
    BY <2>5 DEF Init, Counted, Senders
  <2>7. /\ got \in Seq(Line) /\ out \in Seq(Seq(Line)) /\ queue \in Seq(0 .. MaxCommands)
        /\ toServer \in Seq(Kinds \X (1 .. MaxCommands)) /\ kind \in Kinds
    BY <2>4 DEF Init
  <2>8. /\ program \in {"terminal", "bench", "tps"} /\ cli = "ready" /\ session = "looping"
        /\ quit = 0 /\ lost = FALSE /\ marked = FALSE /\ spoilt = FALSE /\ raced = FALSE
        /\ successes = 0 /\ failures = 0 /\ worker = "idle" /\ order = 0
        /\ bot = FALSE /\ surprised = FALSE /\ writing = {}
    BY DEF Init
  <2>9. /\ issued \in 0 .. MaxCommands /\ botOrders \in 0 .. MaxBotOrders
        /\ order \in 0 .. MaxCommands /\ successes \in Nat /\ failures \in Nat
        /\ quit \in 0 .. MaxCommands
        /\ settled + Len(queue) <= issued + botOrders
    BY <2>5, <2>8
  <2>10. /\ bot \in BOOLEAN /\ surprised \in BOOLEAN /\ lost \in BOOLEAN
         /\ marked \in BOOLEAN /\ spoilt \in BOOLEAN /\ raced \in BOOLEAN
         /\ writing \subseteq {"session", "worker"}
    BY <2>8
  <2>11. TypeOK
    BY <2>3, <2>7, <2>8, <2>9, <2>10 DEF TypeOK
  <2> QED
    BY <2>6, <2>11 DEF Types
<1>2. Types /\ [Next]_vars => Types'
  <2>1. Types /\ UNCHANGED vars => Types'
    BY DEF Types, TypeOK, Counted, Senders, vars, cliVars, sessVars, workVars, connVars
  <2> QED
    BY <2>1, ProgramTypes, SessionTypes, SendingTypes DEF Next
<1> QED
  BY <1>1, <1>2, PTL DEF Spec

(* The protocol's variables keep their types, and every order that is      *)
(* waiting or settled was a command or is one of the bot's.                *)
THEOREM ProtocolTypeCorrect == Spec => []TypeOK
<1>1. Types => TypeOK
  BY DEF Types
<1> QED
  BY <1>1, TypesHold, PTL

-----------------------------------------------------------------------------
(* What bench_transaction counts.                                          *)

IsResult(l) == l.kind = "TRANSACTION_RESULT"

(* There are at most n results among the lines: f[i] bounds the number of  *)
(* those that come after the i-th line.                                    *)
AtMost(lines, n) ==
  \E f \in [0 .. Len(lines) -> Nat] :
    /\ f[0] <= n
    /\ \A i \in 1 .. Len(lines) :
         /\ f[i] <= f[i - 1]
         /\ IsResult(lines[i]) => f[i] + 1 <= f[i - 1]

LEMMA NoLines ==
  ASSUME NEW n \in Nat
  PROVE  AtMost(<< >>, n)
<1> DEFINE f == [i \in 0 .. 0 |-> 0]
<1>1. f \in [0 .. Len(<< >>) -> Nat] /\ f[0] <= n
  OBVIOUS
<1>2. Len(<< >>) = 0
  OBVIOUS
<1> HIDE DEF f
<1> QED
  BY <1>1, <1>2 DEF AtMost

LEMMA AtMostMore ==
  ASSUME NEW s \in Seq(Line), NEW n \in Nat, NEW m \in Nat, n <= m, AtMost(s, n)
  PROVE  AtMost(s, m)
<1>1. PICK f \in [0 .. Len(s) -> Nat] :
        /\ f[0] <= n
        /\ \A i \in 1 .. Len(s) : /\ f[i] <= f[i - 1]
                                  /\ IsResult(s[i]) => f[i] + 1 <= f[i - 1]
  BY DEF AtMost
<1>2. f[0] \in Nat
  OBVIOUS
<1>3. f[0] <= m
  BY <1>1, <1>2
<1> QED
  BY <1>1, <1>3 DEF AtMost

(* Reading a line.                                                         *)
LEMMA AtMostRead ==
  ASSUME NEW s \in Seq(Line), s # << >>, NEW n \in Nat, AtMost(s, n)
  PROVE  /\ AtMost(Tail(s), n)
         /\ IsResult(Head(s)) => n >= 1 /\ AtMost(Tail(s), n - 1)
<1>1. PICK f \in [0 .. Len(s) -> Nat] :
        /\ f[0] <= n
        /\ \A i \in 1 .. Len(s) : /\ f[i] <= f[i - 1]
                                  /\ IsResult(s[i]) => f[i] + 1 <= f[i - 1]
  BY DEF AtMost
<1> DEFINE t == Tail(s)
           g == [i \in 0 .. Len(t) |-> f[i + 1]]
<1>2. /\ Len(t) = Len(s) - 1 /\ Len(s) \in Nat \ {0} /\ Head(s) = s[1]
      /\ \A i \in 1 .. Len(t) : t[i] = s[i + 1]
  BY Taking
<1> HIDE DEF t
<1>3. g \in [0 .. Len(t) -> Nat] /\ \A i \in 0 .. Len(t) : g[i] = f[i + 1]
  BY <1>2
<1>4. \A i \in 1 .. Len(t) : g[i] = f[i + 1] /\ g[i - 1] = f[i]
  BY <1>2, <1>3
<1> HIDE DEF g
<1>5. \A i \in 1 .. Len(t) : i + 1 \in 1 .. Len(s)
  BY <1>2
<1>6. \A i \in 1 .. Len(t) : /\ g[i] <= g[i - 1]
                             /\ IsResult(t[i]) => g[i] + 1 <= g[i - 1]
  <2> TAKE i \in 1 .. Len(t)
  <2>1. (i + 1) - 1 = i /\ i + 1 \in 1 .. Len(s)
    BY <1>2, <1>5
  <2>2. /\ f[i + 1] <= f[i]
        /\ IsResult(s[i + 1]) => f[i + 1] + 1 <= f[i]
    BY <1>1, <2>1
  <2> QED
    BY <1>2, <1>4, <2>2
<1>7. g[0] = f[1] /\ f[1] \in Nat /\ f[0] \in Nat
  BY <1>2, <1>3
<1>8. f[1] <= f[0] /\ (IsResult(s[1]) => f[1] + 1 <= f[0])
  BY <1>1, <1>2
<1>9. AtMost(t, n)
  <2>1. g[0] <= n
    BY <1>1, <1>7, <1>8
  <2> QED
    BY <1>3, <1>6, <2>1 DEF AtMost
<1>10. ASSUME IsResult(s[1]) PROVE n >= 1 /\ AtMost(t, n - 1)
  <2>1. n >= 1 /\ g[0] <= n - 1
    BY <1>1, <1>7, <1>8, <1>10
  <2> QED
    BY <1>3, <1>6, <2>1 DEF AtMost
<1> QED
  BY <1>2, <1>9, <1>10 DEF t

(* Lines of the session's thread come in.                                  *)
LEMMA AtMostOther ==
  ASSUME NEW s \in Seq(Line), NEW r \in Seq(Line), NEW n \in Nat, AtMost(s, n),
         \A i \in DOMAIN r : ~ IsResult(r[i])
  PROVE  AtMost(s \o r, n)
<1>1. PICK f \in [0 .. Len(s) -> Nat] :
        /\ f[0] <= n
        /\ \A i \in 1 .. Len(s) : /\ f[i] <= f[i - 1]
                                  /\ IsResult(s[i]) => f[i] + 1 <= f[i - 1]
  BY DEF AtMost
<1> DEFINE t == s \o r
           g == [i \in 0 .. Len(t) |-> IF i <= Len(s) THEN f[i] ELSE 0]
<1>2. /\ Len(t) = Len(s) + Len(r) /\ Len(s) \in Nat /\ Len(r) \in Nat
      /\ \A i \in 1 .. Len(s) : t[i] = s[i]
      /\ \A i \in 1 .. Len(t) : i > Len(s) => ~ IsResult(t[i])
  OBVIOUS
<1> HIDE DEF t
<1>3. \A i \in 0 .. Len(s) : f[i] \in Nat
  BY <1>2
<1>4. /\ g \in [0 .. Len(t) -> Nat]
      /\ \A i \in 0 .. Len(t) : g[i] = IF i <= Len(s) THEN f[i] ELSE 0
      /\ \A i \in 0 .. Len(t) : g[i] \in Nat
  BY <1>2, <1>3
<1> HIDE DEF g
<1>5. \A i \in 1 .. Len(t) : /\ g[i] <= g[i - 1]
                             /\ IsResult(t[i]) => g[i] + 1 <= g[i - 1]
  <2> TAKE i \in 1 .. Len(t)
  <2>1. CASE i <= Len(s)
    <3>1. i \in 1 .. Len(s) /\ i - 1 \in 0 .. Len(s) /\ i - 1 \in 0 .. Len(t)
      BY <1>2, <2>1
    <3>2. g[i] = f[i] /\ g[i - 1] = f[i - 1] /\ t[i] = s[i]
      <4>1. i \in 0 .. Len(t) /\ i <= Len(s) /\ i - 1 <= Len(s)
        BY <2>1, <3>1
      <4>2. g[i] = f[i]
        BY <1>4, <4>1
      <4>3. g[i - 1] = f[i - 1]
        BY <1>4, <3>1, <4>1
      <4>4. t[i] = s[i]
        BY <1>2, <3>1
      <4> QED
        BY <4>2, <4>3, <4>4
    <3> QED
      BY <1>1, <3>1, <3>2
  <2>2. CASE i > Len(s)
    <3>1. g[i] = 0 /\ g[i - 1] \in Nat /\ ~ IsResult(t[i])
      BY <1>2, <1>4, <2>2
    <3> QED
      BY <3>1
  <2> QED
    BY <1>2, <2>1, <2>2
<1>6. g[0] <= n
  BY <1>1, <1>2, <1>4
<1> QED
  BY <1>4, <1>5, <1>6 DEF AtMost, t

(* A result comes in.                                                      *)
LEMMA AtMostOneMore ==
  ASSUME NEW s \in Seq(Line), NEW l \in Line, NEW n \in Nat, AtMost(s, n)
  PROVE  AtMost(s \o <<l>>, n + 1)
<1>1. PICK f \in [0 .. Len(s) -> Nat] :
        /\ f[0] <= n
        /\ \A i \in 1 .. Len(s) : /\ f[i] <= f[i - 1]
                                  /\ IsResult(s[i]) => f[i] + 1 <= f[i - 1]
  BY DEF AtMost
<1> DEFINE t == s \o <<l>>
           g == [i \in 0 .. Len(t) |-> IF i <= Len(s) THEN f[i] + 1 ELSE 0]
<1>2. /\ Len(t) = Len(s) + 1 /\ Len(s) \in Nat
      /\ \A i \in 1 .. Len(s) : t[i] = s[i]
  OBVIOUS
<1> HIDE DEF t
<1>3. g \in [0 .. Len(t) -> Nat]
  BY <1>2
<1>4. /\ \A i \in 0 .. Len(s) : g[i] = f[i] + 1 /\ f[i] \in Nat
      /\ g[Len(t)] = 0
  BY <1>2
<1> HIDE DEF g
<1>5. \A i \in 1 .. Len(t) : /\ g[i] <= g[i - 1]
                             /\ IsResult(t[i]) => g[i] + 1 <= g[i - 1]
  <2> TAKE i \in 1 .. Len(t)
  <2>1. CASE i <= Len(s)
    <3>1. i \in 1 .. Len(s) /\ i \in 0 .. Len(s) /\ i - 1 \in 0 .. Len(s)
      BY <1>2, <2>1
    <3>2. /\ g[i] = f[i] + 1 /\ g[i - 1] = f[i - 1] + 1
          /\ f[i] \in Nat /\ f[i - 1] \in Nat
      BY <1>4, <3>1
    <3>3. t[i] = s[i] /\ f[i] <= f[i - 1] /\ (IsResult(s[i]) => f[i] + 1 <= f[i - 1])
      BY <1>1, <1>2, <3>1
    <3>4. g[i] <= g[i - 1]
      BY <3>2, <3>3
    <3>5. IsResult(t[i]) => g[i] + 1 <= g[i - 1]
      <4>1. ASSUME f[i] + 1 <= f[i - 1] PROVE g[i] + 1 <= g[i - 1]
        BY <3>2, <4>1
      <4>2. QED
        BY <3>3, <4>1
    <3> QED
      BY <3>4, <3>5
  <2>2. CASE i = Len(t)
    BY <1>2, <1>4, <2>2
  <2> QED
    BY <1>2, <2>1, <2>2
<1>6. g[0] <= n + 1
  BY <1>1, <1>2, <1>4
<1> QED
  BY <1>3, <1>5, <1>6 DEF AtMost, t

(* The orders whose result the worker has sent, or dropped.                *)
Told == settled - (IF worker = "settled" THEN 1 ELSE 0)

AnswersOnly ==
  \A i \in DOMAIN out : \A j \in DOMAIN out[i] : out[i][j].kind # "TRANSACTION_RESULT"

(* Every transaction sent is counted or waited for, once; every success    *)
(* counted was settled, and so was every result under way.                 *)
Counting ==
  program = "bench" =>
    /\ successes + failures + (IF cli = "reading" THEN 1 ELSE 0) = issued
    /\ successes <= Told
    /\ AtMost(toClient, Told - successes)

BenchInv == AnswersOnly /\ Counting

LEMMA AnswersOnlyStep == Types /\ AnswersOnly /\ [Next]_vars => AnswersOnly'
<1> SUFFICES ASSUME Types, AnswersOnly, [Next]_vars PROVE AnswersOnly'
  OBVIOUS
<1> USE DEF sessVars, workVars, connVars, cliVars
<1>1. CASE Command
  <2>1. \A i \in DOMAIN out' : \A j \in DOMAIN out'[i] : out'[i][j].kind # "TRANSACTION_RESULT"
    BY <1>1, Answers
  <2> QED
    BY <2>1 DEF AnswersOnly
<1>2. CASE DropAnswer
  <2>1. out \in Seq(Seq(Line)) /\ out # << >> /\ out' = Tail(out)
    BY <1>2 DEF DropAnswer, Types, TypeOK
  <2>2. \A i \in DOMAIN out' : i + 1 \in DOMAIN out /\ out'[i] = out[i + 1]
    BY <2>1, Taking
  <2> QED
    BY <2>2 DEF AnswersOnly
<1>3. CASE SentBySession
  <2>1. \A i \in DOMAIN out' : i + 1 \in DOMAIN out /\ out'[i] = out[i + 1]
    BY <1>3, SessionSends
  <2> QED
    BY <2>1 DEF AnswersOnly
<1>4. CASE ~ Command /\ ~ DropAnswer /\ ~ SentBySession
  <2>1. out' = out
    BY <1>4 DEF Next, Issue, Quit, IssueInVain, Close, Serve, Loop, EndSession, Program, Read,
       ReadAndCount, ReadRecord, ReadFails, BotOrder, Settle, DropResult, BeginSend, SentByWorker, vars
  <2> QED
    BY <2>1 DEF AnswersOnly
<1> QED
  BY <1>1, <1>2, <1>3, <1>4

LEMMA CountingStep == Types /\ BenchInv /\ [Next]_vars => Counting'
<1> SUFFICES ASSUME Types, BenchInv, [Next]_vars, program' = "bench"
             PROVE  /\ successes' + failures' + (IF cli' = "reading" THEN 1 ELSE 0) = issued'
                    /\ successes' <= Told'
                    /\ AtMost(toClient', Told' - successes')
  BY DEF Counting, Told, AtMost, IsResult
<1> USE DEF sessVars, workVars, connVars, cliVars
<1>a. program' = program
  BY DEF Next, Issue, Quit, IssueInVain, Close, Program, Read, ReadAndCount, ReadRecord, ReadFails,
     Serve, Loop, Command, Ask, ShowTransactions, RefuseTrade, FailTrade, SubmitTrade, StartBot,
     StopBot, QuitCommand, Handles, DropAnswer, EndSession, BotOrder, Settle, DropResult, BeginSend,
     SentBySession, SentByWorker, vars
<1>0. /\ program = "bench" /\ toClient \in Seq(Line) /\ cli \in {"ready", "reading", "closed"}
      /\ successes \in Nat /\ failures \in Nat /\ settled \in Nat /\ issued \in Nat
      /\ worker \in {"idle", "settled"}
  BY <1>a DEF Types, TypeOK, Counted
<1>b. /\ successes + failures + (IF cli = "reading" THEN 1 ELSE 0) = issued
      /\ successes <= Told
      /\ AtMost(toClient, Told - successes)
  BY <1>0 DEF BenchInv, Counting
<1>c. Told \in Int /\ Told - successes \in Nat
  BY <1>0, <1>b DEF Told
<1>1. ASSUME NEW k \in Kinds, Issue(k)
      PROVE  /\ successes' + failures' + (IF cli' = "reading" THEN 1 ELSE 0) = issued'
             /\ successes' <= Told'
             /\ AtMost(toClient', Told' - successes')
  <2>1. UNCHANGED <<successes, failures, toClient, settled, worker>>
        /\ cli = "ready" /\ cli' = "reading" /\ issued' = issued + 1
    BY <1>1 DEF Issue
  <2>2. Told' = Told
    BY <2>1 DEF Told
  <2> QED
    BY <1>0, <1>b, <2>1, <2>2
<1>2. CASE Close \/ BotOrder \/ Serve \/ UNCHANGED vars
           \/ (\E w \in {"session", "worker"} : BeginSend(w))
  <2>1. UNCHANGED <<successes, failures, toClient, settled, worker, issued>>
        /\ (cli' = "reading" <=> cli = "reading")
    BY <1>2 DEF Close, BotOrder, Serve, Loop, Command, Ask, ShowTransactions, RefuseTrade, FailTrade,
       SubmitTrade, StartBot, StopBot, QuitCommand, Handles, DropAnswer, EndSession, BeginSend, vars
  <2>2. Told' = Told
    BY <2>1 DEF Told
  <2> QED
    BY <1>b, <2>1, <2>2
<1>3. CASE ReadAndCount
  <2>1. /\ UNCHANGED <<settled, worker, issued>> /\ toClient # << >>
        /\ cli = "reading" /\ cli' = "ready" /\ toClient' = Tail(toClient)
    BY <1>3 DEF ReadAndCount
  <2>2. Told' = Told
    BY <2>1 DEF Told
  <2>3. CASE IsResult(Head(toClient))
    <3>1. successes' = successes + 1 /\ failures' = failures
      BY <1>3, <2>3 DEF ReadAndCount, Counts, IsResult
    <3>2. Told - successes >= 1 /\ AtMost(toClient', (Told - successes) - 1)
      BY <1>0, <1>b, <1>c, <2>1, <2>3, AtMostRead
    <3>3. (Told - successes) - 1 = Told' - successes' /\ successes' <= Told'
      BY <1>0, <1>c, <2>2, <3>1, <3>2
    <3>4. successes' + failures' + (IF cli' = "reading" THEN 1 ELSE 0) = issued'
      BY <1>0, <1>b, <2>1, <3>1
    <3> QED
      BY <3>2, <3>3, <3>4
  <2>4. CASE ~ IsResult(Head(toClient))
    <3>1. failures' = failures + 1 /\ successes' = successes
      BY <1>3, <2>4 DEF ReadAndCount, Counts, IsResult
    <3>2. AtMost(toClient', Told - successes)
      BY <1>0, <1>b, <1>c, <2>1, AtMostRead
    <3>3. successes' + failures' + (IF cli' = "reading" THEN 1 ELSE 0) = issued'
      BY <1>0, <1>b, <2>1, <3>1
    <3> QED
      BY <1>b, <2>2, <3>1, <3>2, <3>3
  <2> QED
    BY <2>3, <2>4
<1>4. CASE ReadFails
  <2>1. UNCHANGED <<successes, toClient, settled, worker, issued>> /\ failures' = failures + 1
        /\ cli = "reading" /\ cli' = "ready"
    BY <1>0, <1>4 DEF ReadFails
  <2>2. Told' = Told
    BY <2>1 DEF Told
  <2> QED
    BY <1>0, <1>b, <2>1, <2>2
<1>5. CASE Read \/ ReadRecord \/ Quit
  BY <1>0, <1>5 DEF Read, ReadRecord, Quit
<1>6. CASE Settle
  <2>1. UNCHANGED <<successes, failures, toClient, issued, cli>>
        /\ worker = "idle" /\ worker' = "settled" /\ settled' = settled + 1
    BY <1>6 DEF Settle
  <2>2. Told' = Told
    BY <1>0, <2>1 DEF Told
  <2> QED
    BY <1>b, <2>1, <2>2
<1>7. CASE DropResult
  <2>1. UNCHANGED <<successes, failures, toClient, issued, cli, settled>>
        /\ worker = "settled" /\ worker' = "idle"
    BY <1>7 DEF DropResult
  <2>2. Told' = Told + 1
    BY <1>0, <2>1 DEF Told
  <2>3. /\ successes' <= Told' /\ Told' - successes' \in Nat
        /\ Told - successes <= Told' - successes'
    BY <1>0, <1>b, <1>c, <2>1, <2>2
  <2>4. AtMost(toClient', Told' - successes')
    BY <1>0, <1>b, <1>c, <2>1, <2>3, AtMostMore
  <2> QED
    BY <1>b, <2>1, <2>3, <2>4
<1>8. CASE SentBySession
  <2>1. UNCHANGED <<successes, failures, issued, cli, settled, worker>>
    BY <1>8 DEF SentBySession
  <2>2. Told' = Told
    BY <2>1 DEF Told
  <2>3. /\ Head(out) \in Seq(Line) /\ \A i \in DOMAIN Head(out) : ~ IsResult(Head(out)[i])
        /\ toClient' = toClient \/ toClient' = toClient \o Head(out)
    BY <1>8, SessionSends DEF BenchInv, AnswersOnly, IsResult
  <2>4. AtMost(toClient', Told - successes)
    BY <1>0, <1>b, <1>c, <2>3, AtMostOther
  <2> QED
    BY <1>b, <2>1, <2>2, <2>4
<1>9. CASE SentByWorker
  <2>1. UNCHANGED <<successes, failures, issued, cli, settled>> /\ worker' = "idle"
    BY <1>9 DEF SentByWorker
  <2>2. PICK l \in Line : /\ worker = "settled"
                          /\ toClient' = toClient \/ toClient' = toClient \o <<l>>
    BY <1>9, WorkerSends
  <2>3. Told' = Told + 1
    BY <1>0, <2>1, <2>2 DEF Told
  <2>4. /\ successes' <= Told' /\ Told' - successes' = (Told - successes) + 1
        /\ (Told - successes) + 1 \in Nat /\ Told - successes <= (Told - successes) + 1
    BY <1>0, <1>b, <1>c, <2>1, <2>3
  <2>5. AtMost(toClient', (Told - successes) + 1)
    BY <1>0, <1>b, <1>c, <2>2, <2>4, AtMostMore, AtMostOneMore
  <2> QED
    BY <1>b, <2>1, <2>4, <2>5
<1>10. CASE IssueInVain
  <2>1. UNCHANGED <<successes, toClient, settled, worker, cli>> /\ cli = "ready"
        /\ failures' = failures + 1 /\ issued' = issued + 1
    BY <1>10 DEF IssueInVain
  <2>2. Told' = Told
    BY <2>1 DEF Told
  <2> QED
    BY <1>0, <1>b, <2>1, <2>2
<1> QED
  BY <1>1, <1>2, <1>3, <1>4, <1>5, <1>6, <1>7, <1>8, <1>9, <1>10 DEF Next, Program

LEMMA BenchHolds == Spec => []BenchInv
<1>1. Init => BenchInv
  <2> SUFFICES ASSUME Init PROVE BenchInv
    OBVIOUS
  <2>1. AnswersOnly
    <3>1. out = << >> /\ DOMAIN << >> = {}
      BY DEF Init
    <3> QED
      BY <3>1 DEF AnswersOnly
  <2>2. CASE program = "bench"
    <3>1. toClient = << >> /\ settled = 0 /\ worker = "idle" /\ successes = 0 /\ failures = 0
          /\ issued = 0 /\ cli = "ready"
      BY <2>2 DEF Init
    <3>2. Told = 0 /\ AtMost(<< >>, 0)
      BY <3>1, NoLines DEF Told
    <3> QED
      BY <2>1, <3>1, <3>2 DEF BenchInv, Counting
  <2> QED
    BY <2>1, <2>2 DEF BenchInv, Counting
<1>2. Types /\ BenchInv /\ [Next]_vars => BenchInv'
  BY AnswersOnlyStep, CountingStep DEF BenchInv
<1> QED
  BY <1>1, <1>2, TypesHold, PTL DEF Spec

(* What bench_transaction counts as done was settled, and every            *)
(* transaction it sent it has counted, or is waiting for.                  *)
THEOREM BenchCountsRight == Spec => []BenchCountsSettled
<1>1. Types /\ BenchInv => BenchCountsSettled
  <2> SUFFICES ASSUME Types, BenchInv, program = "bench"
               PROVE  /\ successes <= settled
                      /\ successes + failures + (IF cli = "reading" THEN 1 ELSE 0) = issued
    BY DEF BenchCountsSettled
  <2>1. successes \in Nat /\ settled \in Nat
    BY DEF Types, TypeOK, Counted
  <2> QED
    BY <2>1 DEF BenchInv, Counting, Told
<1> QED
  BY <1>1, TypesHold, BenchHolds, PTL

-----------------------------------------------------------------------------
(* What the terminal reads.                                                *)

(* Where what the program waits for may be: its command is under way or    *)
(* the answer still to be sent, its order in the queue or in the worker's  *)
(* hands.                                                                  *)
Asked    == toServer # << >>
Answered == out # << >>
Queued   == \E i \in DOMAIN queue : queue[i] = issued
InHand   == worker = "settled" /\ order = issued

(* The line that ends the wait is the last there is.                       *)
LinesInStep ==
  \A i \in DOMAIN toClient :
    /\ toClient[i].of = issued
    /\ Final(toClient[i]) =>
         i = Len(toClient) /\ ~ Asked /\ ~ Answered /\ ~ Queued /\ ~ InHand

AskedOnce ==
  Asked => toServer = << <<kind, issued>> >> /\ ~ Answered /\ ~ Queued /\ ~ InHand

AnsweredOnce ==
  Answered =>
    \E l \in Line :
      /\ out = << <<l>> >>
      /\ l.of = issued
      /\ Final(l) => ~ Queued /\ ~ InHand
      /\ ~ Final(l) => l.kind = "OK"

OrderedOnce ==
  /\ \A i \in DOMAIN queue : queue[i] \in {0, issued}
  /\ \A i, j \in DOMAIN queue : queue[i] = issued /\ queue[j] = issued => i = j
  /\ worker = "settled" => order \in {0, issued}
  /\ Queued => ~ InHand
  /\ Queued \/ InHand => kind = "BUY"

WhileReading ==
  cli = "reading" =>
    issued > 0 /\ LinesInStep /\ AskedOnce /\ AnsweredOnce /\ OrderedOnce

(* When the terminal asks for the next command nothing is left of the last *)
(* one.                                                                    *)
WhenReady ==
  cli = "ready" =>
    /\ toClient = << >> /\ toServer = << >> /\ out = << >>
    /\ \A i \in DOMAIN queue : queue[i] = 0
    /\ worker = "settled" => order = 0

GotInStep == \A i \in DOMAIN got : got[i].of = issued

Conversation == GotInStep /\ WhileReading /\ WhenReady

InStep == program = "terminal" /\ ~ surprised => Conversation

(* The next command.                                                       *)
LEMMA IssueInStep ==
  ASSUME Types, Conversation, NEW k \in Kinds, Issue(k)
  PROVE  Conversation'
<1>1. /\ cli = "ready" /\ cli' = "reading" /\ kind' = k /\ issued' = issued + 1 /\ got' = << >>
      /\ toServer' = Append(toServer, <<k, issued'>>)
      /\ UNCHANGED <<toClient, out, queue, worker, order>>
  BY DEF Issue, sessVars, workVars
<1>2. /\ toClient = << >> /\ toServer = << >> /\ out = << >>
      /\ \A i \in DOMAIN queue : queue[i] = 0
      /\ worker = "settled" => order = 0
  BY <1>1 DEF Conversation, WhenReady
<1>3. toServer' = << <<kind', issued'>> >> /\ issued' > 0 /\ issued' # 0
  BY <1>1, <1>2 DEF Types, TypeOK
<1>4. DOMAIN << >> = {}
  OBVIOUS
<1>5. ~ Answered' /\ ~ Queued' /\ ~ InHand'
  BY <1>1, <1>2, <1>3 DEF Answered, Queued, InHand
<1>6. LinesInStep' /\ AskedOnce' /\ AnsweredOnce'
  BY <1>1, <1>2, <1>3, <1>4, <1>5 DEF LinesInStep, AskedOnce, AnsweredOnce
<1>7. OrderedOnce'
  BY <1>1, <1>2, <1>3, <1>5 DEF OrderedOnce, Queued
<1> QED
  BY <1>1, <1>3, <1>4, <1>6, <1>7 DEF Conversation, GotInStep, WhileReading, WhenReady

(* The terminal reads a line.                                              *)
LEMMA ReadInStep ==
  ASSUME Types, Conversation, Read
  PROVE  Conversation'
<1> DEFINE l == toClient[1]
<1>1. /\ cli = "reading" /\ toClient # << >> /\ toClient \in Seq(Line)
      /\ got' = <<Head(toClient)>> /\ toClient' = Tail(toClient)
      /\ cli' = IF Final(Head(toClient)) THEN "ready" ELSE "reading"
      /\ UNCHANGED <<kind, issued, toServer, out, queue, worker, order>>
  BY DEF Read, Types, TypeOK, sessVars, workVars
<1>2. /\ Head(toClient) = l /\ l \in Line /\ 1 \in DOMAIN toClient
      /\ Len(toClient') = Len(toClient) - 1 /\ Len(toClient) \in Nat \ {0}
      /\ toClient' \in Seq(Line)
      /\ \A i \in DOMAIN toClient' : i + 1 \in DOMAIN toClient /\ toClient'[i] = toClient[i + 1]
  BY <1>1, Taking
<1>3. issued > 0 /\ LinesInStep /\ AskedOnce /\ AnsweredOnce /\ OrderedOnce
  BY <1>1 DEF Conversation, WhileReading
<1>4. l.of = issued
  BY <1>2, <1>3 DEF LinesInStep
<1>5. GotInStep'
  <2>1. got' = <<l>> /\ DOMAIN <<l>> = {1} /\ <<l>>[1] = l
    BY <1>1, <1>2, Records
  <2> HIDE DEF l
  <2> QED
    BY <1>1, <1>4, <2>1 DEF GotInStep
<1>6. CASE Final(l)
  <2>1. 1 = Len(toClient) /\ ~ Asked /\ ~ Answered /\ ~ Queued /\ ~ InHand
    BY <1>2, <1>3, <1>6 DEF LinesInStep
  <2>2. toClient' = << >>
    <3>1. Len(toClient') = 0
      <4> DEFINE n == Len(toClient)
      <4>1. n = 1 /\ Len(toClient') = n - 1
        BY <1>2, <2>1
      <4> HIDE DEF n
      <4> QED
        BY <4>1
    <3> QED
      BY <1>2, <3>1
  <2>3. cli' = "ready"
    BY <1>1, <1>2, <1>6
  <2>4. \A i \in DOMAIN queue : queue[i] = 0
    BY <1>3, <2>1 DEF OrderedOnce, Queued
  <2>5. worker = "settled" => order = 0
    BY <1>3, <2>1 DEF OrderedOnce, InHand
  <2> QED
    BY <1>1, <1>5, <2>1, <2>2, <2>3, <2>4, <2>5
       DEF Conversation, WhileReading, WhenReady, Asked, Answered
<1>7. CASE ~ Final(l)
  <2>1. cli' = "reading"
    BY <1>1, <1>2, <1>7
  <2>2. /\ Asked' <=> Asked
        /\ Answered' <=> Answered
        /\ Queued' <=> Queued
        /\ InHand' <=> InHand
        /\ \A m \in Line : Final(m)' <=> Final(m)
    BY <1>1 DEF Asked, Answered, Queued, InHand, Final
  <2>3. LinesInStep'
    <3> SUFFICES ASSUME NEW i \in DOMAIN toClient'
                 PROVE  /\ toClient'[i].of = issued'
                        /\ kind' # "BUY" \/ toClient'[i].kind # "OK" =>
                             i = Len(toClient') /\ ~ Asked' /\ ~ Answered' /\ ~ Queued' /\ ~ InHand'
      BY DEF LinesInStep, Final
    <3>1. /\ i + 1 \in DOMAIN toClient /\ toClient'[i] = toClient[i + 1]
          /\ toClient[i + 1] \in Line /\ i \in Nat
      BY <1>1, <1>2
    <3>2. /\ toClient[i + 1].of = issued
          /\ Final(toClient[i + 1]) =>
               i + 1 = Len(toClient) /\ ~ Asked /\ ~ Answered /\ ~ Queued /\ ~ InHand
      BY <1>3, <3>1 DEF LinesInStep
    <3>3. kind' # "BUY" \/ toClient'[i].kind # "OK" => Final(toClient[i + 1])
      BY <1>1, <3>1 DEF Final
    <3> QED
      BY <1>1, <1>2, <2>2, <3>1, <3>2, <3>3
  <2>4. AskedOnce' /\ OrderedOnce'
    BY <1>1, <1>3, <2>2 DEF AskedOnce, OrderedOnce
  <2>5. AnsweredOnce'
    BY <1>1, <1>3, <2>2 DEF AnsweredOnce, Final
  <2> QED
    BY <1>1, <1>3, <1>5, <2>1, <2>3, <2>4, <2>5 DEF Conversation, WhileReading, WhenReady
<1> QED
  BY <1>6, <1>7

(* A step that leaves the lines and the answers as they are, and takes     *)
(* nothing that is awaited out of sight.                                   *)
LEMMA FewerAwaited ==
  ASSUME Types, Conversation,
         UNCHANGED <<kind, issued, got, toClient, toServer>>,
         cli' = cli \/ cli' = "closed",
         out' = out \/ out' = << >>,
         \A i \in DOMAIN queue' : queue'[i] = 0 \/ (i \in DOMAIN queue /\ queue'[i] = queue[i]),
         worker' = "settled" => worker = "settled" /\ order' = order
  PROVE  Conversation'
<1>1. /\ Asked' <=> Asked
      /\ Answered' => Answered
  BY DEF Asked, Answered
<1>2. CASE cli' = "reading"
  <2>1. issued > 0 /\ LinesInStep /\ AskedOnce /\ AnsweredOnce /\ OrderedOnce
    BY <1>2 DEF Conversation, WhileReading
  <2>2. issued # 0
    BY <2>1 DEF Types, TypeOK
  <2>3. /\ Queued' => Queued
        /\ InHand' => InHand
    BY <2>2 DEF Queued, InHand
  <2>4. LinesInStep'
    <3> SUFFICES ASSUME NEW i \in DOMAIN toClient
                 PROVE  /\ toClient[i].of = issued
                        /\ Final(toClient[i]) =>
                             i = Len(toClient) /\ ~ Asked' /\ ~ Answered' /\ ~ Queued' /\ ~ InHand'
      BY DEF LinesInStep, Final
    <3> QED
      BY <1>1, <2>1, <2>3 DEF LinesInStep
  <2>5. AskedOnce'
    BY <1>1, <2>1, <2>3 DEF AskedOnce
  <2>6. AnsweredOnce'
    <3> SUFFICES ASSUME Answered' PROVE AnsweredOnce'
      BY DEF AnsweredOnce
    <3>1. out' = out /\ Answered
      BY <1>1 DEF Answered
    <3>2. PICK l \in Line : /\ out = << <<l>> >>
                            /\ l.of = issued
                            /\ Final(l) => ~ Queued /\ ~ InHand
                            /\ ~ Final(l) => l.kind = "OK"
      BY <2>1, <3>1 DEF AnsweredOnce
    <3> QED
      BY <2>3, <3>1, <3>2 DEF AnsweredOnce, Final
  <2>7. OrderedOnce'
    <3>1. \A i \in DOMAIN queue' : queue'[i] \in {0, issued'}
      BY <2>1 DEF OrderedOnce
    <3>2. \A i, j \in DOMAIN queue' : queue'[i] = issued' /\ queue'[j] = issued' => i = j
      BY <2>1, <2>2 DEF OrderedOnce
    <3>3. worker' = "settled" => order' \in {0, issued'}
      BY <2>1 DEF OrderedOnce
    <3>4. (Queued' => ~ InHand') /\ (Queued' \/ InHand' => kind' = "BUY")
      BY <2>1, <2>3 DEF OrderedOnce
    <3> QED
      BY <3>1, <3>2, <3>3, <3>4 DEF OrderedOnce
  <2> QED
    BY <1>2, <2>1, <2>4, <2>5, <2>6, <2>7 DEF Conversation, GotInStep, WhileReading, WhenReady
<1>3. CASE cli' = "ready"
  <2>1. /\ toClient = << >> /\ toServer = << >> /\ out = << >>
        /\ \A i \in DOMAIN queue : queue[i] = 0
        /\ worker = "settled" => order = 0
    BY <1>3 DEF Conversation, WhenReady
  <2> QED
    BY <1>3, <2>1 DEF Conversation, GotInStep, WhileReading, WhenReady
<1>4. CASE cli' \notin {"reading", "ready"}
  BY <1>4 DEF Conversation, GotInStep, WhileReading, WhenReady
<1> QED
  BY <1>2, <1>3, <1>4

(* The session's thread answers.                                           *)
LEMMA AnswerInStep ==
  ASSUME Types, Conversation, Command, ~ surprised'
  PROVE  Conversation'
<1>1. PICK k \in Kinds :
         /\ Handles(k)
         /\ Number \in 1 .. MaxCommands /\ toServer # << >> /\ toServer[1] = <<k, Number>>
         /\ \/ surprised'
            \/ \E l \in Line :
                 /\ out' = << <<l>> >> /\ l.of = Number
                 /\ \/ queue' = queue /\ (l.kind # "OK" \/ k # "BUY")
                    \/ queue' = Append(queue, Number) /\ l.kind = "OK" /\ k = "BUY"
  BY Answers
<1>2. PICK l \in Line :
         /\ out' = << <<l>> >> /\ l.of = Number
         /\ \/ queue' = queue /\ (l.kind # "OK" \/ k # "BUY")
            \/ queue' = Append(queue, Number) /\ l.kind = "OK" /\ k = "BUY"
  BY <1>1
<1>3. /\ UNCHANGED <<cli, kind, issued, got, toClient, worker, order>>
      /\ out = << >> /\ toServer' = Tail(toServer)
      /\ queue \in Seq(0 .. MaxCommands) /\ issued \in 0 .. MaxCommands
      /\ cli \in {"ready", "reading", "closed"}
  BY <1>1 DEF Handles, cliVars, workVars, Types, TypeOK, Senders
<1>4. CASE cli = "reading"
  <2>1. issued > 0 /\ LinesInStep /\ AskedOnce /\ OrderedOnce
    BY <1>4 DEF Conversation, WhileReading
  <2>2. Asked /\ toServer = << <<kind, issued>> >> /\ ~ Queued /\ ~ InHand
    BY <1>1, <2>1 DEF Asked, AskedOnce
  <2>3. k = kind /\ Number = issued /\ toServer' = << >>
    BY <1>1, <1>3, <2>2
  <2>4. ~ Asked' /\ ~ InHand'
    BY <1>3, <2>2, <2>3 DEF Asked, InHand
  <2>5. LinesInStep' /\ AskedOnce'
    BY <1>3, <2>1, <2>2, <2>4 DEF LinesInStep, AskedOnce, Final
  <2>6. CASE queue' = queue /\ (l.kind # "OK" \/ k # "BUY")
    <3>1. ~ Queued'
      BY <1>3, <2>2, <2>6 DEF Queued
    <3>2. AnsweredOnce'
      BY <1>2, <1>3, <2>3, <2>4, <2>6, <3>1 DEF AnsweredOnce, Final
    <3>3. OrderedOnce'
      BY <1>3, <2>1, <2>4, <2>6, <3>1 DEF OrderedOnce
    <3> QED
      BY <1>3, <1>4, <2>1, <2>5, <3>2, <3>3 DEF Conversation, GotInStep, WhileReading, WhenReady
  <2>7. CASE queue' = Append(queue, Number) /\ l.kind = "OK" /\ k = "BUY"
    <3>1. kind' = "BUY"
      BY <1>3, <2>3, <2>7
    <3>2. AnsweredOnce'
      BY <1>2, <1>3, <2>3, <2>7, <3>1 DEF AnsweredOnce, Final
    <3>3. /\ \A i \in DOMAIN queue' :
               \/ i \in DOMAIN queue /\ queue'[i] = queue[i]
               \/ i = Len(queue) + 1 /\ queue'[i] = issued
      BY <1>3, <2>3, <2>7, Adding
    <3>4. \A i \in DOMAIN queue : queue[i] \in {0, issued} /\ queue[i] # issued
      BY <2>1, <2>2 DEF OrderedOnce, Queued
    <3>5. OrderedOnce'
      BY <1>3, <2>1, <2>4, <3>1, <3>3, <3>4 DEF OrderedOnce
    <3> QED
      BY <1>3, <1>4, <2>1, <2>5, <3>2, <3>5 DEF Conversation, GotInStep, WhileReading, WhenReady
  <2> QED
    BY <1>2, <2>6, <2>7
<1>5. CASE cli = "ready"
  BY <1>1, <1>5 DEF Conversation, WhenReady
<1>6. CASE cli = "closed"
  BY <1>3, <1>6 DEF Conversation, GotInStep, WhileReading, WhenReady
<1> QED
  BY <1>3, <1>4, <1>5, <1>6

(* The worker takes the next order.                                        *)
LEMMA SettleInStep ==
  ASSUME Types, Conversation, Settle
  PROVE  Conversation'
<1>1. /\ UNCHANGED <<cli, kind, issued, got, toClient, toServer, out>>
      /\ worker = "idle" /\ worker' = "settled" /\ queue # << >> /\ queue \in Seq(0 .. MaxCommands)
      /\ order' = Head(queue) /\ queue' = Tail(queue)
      /\ cli \in {"ready", "reading", "closed"}
  BY DEF Settle, Types, TypeOK, cliVars, sessVars
<1>2. /\ order' = queue[1] /\ 1 \in DOMAIN queue
      /\ \A i \in DOMAIN queue' :
           i + 1 \in DOMAIN queue /\ queue'[i] = queue[i + 1] /\ i + 1 # 1 /\ i \in Nat
  <2>1. \A i \in DOMAIN queue' : i \in Nat \ {0}
    BY <1>1, Taking
  <2> QED
    BY <1>1, <2>1, Taking
<1>3. CASE cli = "reading"
  <2>1. issued > 0 /\ LinesInStep /\ AskedOnce /\ AnsweredOnce /\ OrderedOnce
    BY <1>3 DEF Conversation, WhileReading
  <2>2. Queued' => Queued
    BY <1>1, <1>2 DEF Queued
  <2>3. InHand' => Queued /\ ~ Queued'
    <3>1. SUFFICES ASSUME InHand' PROVE Queued /\ ~ Queued'
      OBVIOUS
    <3>2. queue[1] = issued
      BY <1>1, <1>2, <3>1 DEF InHand
    <3>3. ASSUME NEW i \in DOMAIN queue', queue'[i] = issued PROVE FALSE
      BY <1>2, <2>1, <3>2, <3>3 DEF OrderedOnce
    <3> QED
      BY <1>1, <1>2, <3>2, <3>3 DEF Queued
  <2>4. /\ Asked' <=> Asked
        /\ Answered' <=> Answered
    BY <1>1 DEF Asked, Answered
  <2>5. LinesInStep'
    BY <1>1, <2>1, <2>2, <2>3, <2>4 DEF LinesInStep, Final
  <2>6. AskedOnce'
    BY <1>1, <2>1, <2>2, <2>3, <2>4 DEF AskedOnce
  <2>7. AnsweredOnce'
    <3>1. SUFFICES ASSUME Answered' PROVE AnsweredOnce'
      BY DEF AnsweredOnce
    <3>2. PICK l \in Line : /\ out = << <<l>> >>
                            /\ l.of = issued
                            /\ Final(l) => ~ Queued /\ ~ InHand
                            /\ ~ Final(l) => l.kind = "OK"
      BY <2>1, <2>4, <3>1 DEF AnsweredOnce
    <3> QED
      BY <1>1, <2>2, <2>3, <3>2 DEF AnsweredOnce, Final
  <2>8. OrderedOnce'
    <3>1. \A i \in DOMAIN queue' : queue'[i] \in {0, issued'}
      BY <1>1, <1>2, <2>1 DEF OrderedOnce
    <3>2. ASSUME NEW i \in DOMAIN queue', NEW j \in DOMAIN queue',
                 queue'[i] = issued', queue'[j] = issued'
          PROVE  i = j
      <4>1. i + 1 = j + 1
        BY <1>1, <1>2, <2>1, <3>2 DEF OrderedOnce
      <4> QED
        BY <1>2, <4>1
    <3>3. worker' = "settled" => order' \in {0, issued'}
      BY <1>1, <1>2, <2>1 DEF OrderedOnce
    <3>4. (Queued' => ~ InHand') /\ (Queued' \/ InHand' => kind' = "BUY")
      BY <1>1, <2>1, <2>2, <2>3 DEF OrderedOnce
    <3> QED
      BY <3>1, <3>2, <3>3, <3>4 DEF OrderedOnce
  <2> QED
    BY <1>1, <1>3, <2>1, <2>5, <2>6, <2>7, <2>8
       DEF Conversation, GotInStep, WhileReading, WhenReady
<1>4. CASE cli = "ready"
  <2>1. /\ toClient = << >> /\ toServer = << >> /\ out = << >>
        /\ \A i \in DOMAIN queue : queue[i] = 0
    BY <1>4 DEF Conversation, WhenReady
  <2> QED
    BY <1>1, <1>2, <1>4, <2>1 DEF Conversation, GotInStep, WhileReading, WhenReady
<1>5. CASE cli = "closed"
  BY <1>1, <1>5 DEF Conversation, GotInStep, WhileReading, WhenReady
<1> QED
  BY <1>1, <1>3, <1>4, <1>5

(* A line comes in while there was none that ends the wait.                *)
LEMMA LineInStep ==
  ASSUME Types, LinesInStep, NEW l \in Line, l.of = issued,
         UNCHANGED <<kind, issued>>,
         \A i \in DOMAIN toClient : ~ Final(toClient[i]),
         toClient' = toClient \/ toClient' = toClient \o <<l>>,
         Final(l) => ~ Asked' /\ ~ Answered' /\ ~ Queued' /\ ~ InHand'
  PROVE  LinesInStep'
<1>1. CASE toClient' = toClient
  BY <1>1 DEF LinesInStep, Final
<1>2. CASE toClient' = toClient \o <<l>>
  <2>1. /\ toClient \in Seq(Line) /\ <<l>> \in Seq(Line) /\ Len(<<l>>) = 1
        /\ DOMAIN <<l>> = {1} /\ <<l>>[1] = l
    BY DEF Types, TypeOK
  <2>2. /\ Len(toClient') = Len(toClient) + 1 /\ Len(toClient) \in Nat
        /\ \A i \in DOMAIN toClient' :
             \/ i \in DOMAIN toClient /\ toClient'[i] = toClient[i]
             \/ i - Len(toClient) \in {1} /\ toClient'[i] = <<l>>[i - Len(toClient)]
        /\ \A i \in DOMAIN toClient' : i \in Nat
    BY <1>2, <2>1, Joining
  <2>3. \A i \in DOMAIN toClient' :
          \/ i \in DOMAIN toClient /\ toClient'[i] = toClient[i]
          \/ i = Len(toClient') /\ toClient'[i] = l
    BY <2>1, <2>2
  <2> QED
    BY <2>3 DEF LinesInStep, Final
<1> QED
  BY <1>1, <1>2

(* The session's answer is delivered, lost with the connection or dropped. *)
LEMMA SessionInStep ==
  ASSUME Types, Conversation, SentBySession \/ DropAnswer
  PROVE  Conversation'
<1>1. /\ UNCHANGED <<cli, kind, issued, got, toServer, queue, worker, order>>
      /\ out' = Tail(out) /\ cli \in {"ready", "reading", "closed"}
  BY DEF SentBySession, DropAnswer, Types, TypeOK, cliVars, workVars
<1>2. /\ out # << >>
      /\ toClient' = toClient \/ toClient' = toClient \o Head(out)
  BY SessionSends DEF DropAnswer
<1>3. CASE cli = "reading"
  <2>1. issued > 0 /\ LinesInStep /\ AskedOnce /\ AnsweredOnce /\ OrderedOnce /\ Answered
    BY <1>2, <1>3 DEF Conversation, WhileReading, Answered
  <2>2. PICK l \in Line : /\ out = << <<l>> >>
                          /\ l.of = issued
                          /\ Final(l) => ~ Queued /\ ~ InHand
                          /\ ~ Final(l) => l.kind = "OK"
    BY <2>1 DEF AnsweredOnce
  <2>3. Head(out) = <<l>> /\ out' = << >>
    BY <1>1, <2>2, Records
  <2>4. /\ Asked' <=> Asked
        /\ Queued' <=> Queued
        /\ InHand' <=> InHand
        /\ ~ Answered' /\ ~ Asked
    BY <1>1, <2>1, <2>3 DEF Asked, Answered, Queued, InHand, AskedOnce
  <2>5. LinesInStep'
    <3>1. \A i \in DOMAIN toClient : ~ Final(toClient[i])
      BY <2>1 DEF LinesInStep
    <3>2. toClient' = toClient \/ toClient' = toClient \o <<l>>
      BY <1>2, <2>3
    <3> QED
      BY <1>1, <2>1, <2>2, <2>4, <3>1, <3>2, LineInStep
  <2>6. AskedOnce' /\ AnsweredOnce'
    BY <2>4 DEF AskedOnce, AnsweredOnce
  <2>7. OrderedOnce'
    BY <1>1, <2>1, <2>4 DEF OrderedOnce
  <2> QED
    BY <1>1, <1>3, <2>1, <2>5, <2>6, <2>7 DEF Conversation, GotInStep, WhileReading, WhenReady
<1>4. CASE cli = "ready"
  BY <1>2, <1>4 DEF Conversation, WhenReady
<1>5. CASE cli = "closed"
  BY <1>1, <1>5 DEF Conversation, GotInStep, WhileReading, WhenReady
<1> QED
  BY <1>1, <1>3, <1>4, <1>5

(* The result is delivered, or lost with the connection: without a         *)
(* surprise it is that of the program's order, and the acknowledgement was *)
(* sent before.                                                            *)
LEMMA WorkerInStep ==
  ASSUME Types, Conversation, SentByWorker, ~ surprised'
  PROVE  Conversation'
<1> DEFINE l == L("TRANSACTION_RESULT", order)
<1>1. /\ UNCHANGED <<cli, kind, issued, got, toServer, out, queue, order>>
      /\ worker' = "idle" /\ cli \in {"ready", "reading", "closed"}
  BY DEF SentByWorker, Types, TypeOK, cliVars, sessVars
<1>2. /\ worker = "settled" /\ l \in Line /\ l.kind = "TRANSACTION_RESULT" /\ l.of = order
      /\ toClient' = toClient \/ toClient' = toClient \o <<l>>
      /\ order # 0 /\ ~ Overtakes
  BY WorkerSends
<1> HIDE DEF l
<1>3. CASE cli = "reading"
  <2>1. issued > 0 /\ LinesInStep /\ AskedOnce /\ AnsweredOnce /\ OrderedOnce
    BY <1>3 DEF Conversation, WhileReading
  <2>2. order = issued /\ InHand /\ ~ Queued /\ ~ Asked
    BY <1>2, <2>1 DEF OrderedOnce, InHand, AskedOnce
  <2>3. ~ Answered
    <3>1. SUFFICES ASSUME Answered PROVE FALSE
      OBVIOUS
    <3>2. PICK m \in Line : /\ out = << <<m>> >>
                            /\ m.of = issued
                            /\ Final(m) => ~ Queued /\ ~ InHand
                            /\ ~ Final(m) => m.kind = "OK"
      BY <2>1, <3>1 DEF AnsweredOnce
    <3>3. m = L("OK", order)
      BY <2>2, <3>2, Lines
    <3>4. 1 \in DOMAIN out /\ 1 \in DOMAIN out[1] /\ out[1][1] = m
      BY <3>2, Records
    <3>5. Overtakes
      BY <3>3, <3>4 DEF Overtakes
    <3> QED
      BY <1>2, <3>5
  <2>4. ~ Asked' /\ ~ Answered' /\ ~ Queued' /\ ~ InHand'
    BY <1>1, <2>2, <2>3 DEF Asked, Answered, Queued, InHand
  <2>5. LinesInStep'
    <3>1. \A i \in DOMAIN toClient : ~ Final(toClient[i])
      BY <2>1, <2>2 DEF LinesInStep
    <3> QED
      BY <1>1, <1>2, <2>1, <2>2, <2>4, <3>1, LineInStep
  <2>6. AskedOnce' /\ AnsweredOnce'
    BY <2>4 DEF AskedOnce, AnsweredOnce
  <2>7. OrderedOnce'
    BY <1>1, <2>1, <2>4 DEF OrderedOnce
  <2> QED
    BY <1>1, <1>3, <2>1, <2>5, <2>6, <2>7 DEF Conversation, GotInStep, WhileReading, WhenReady
<1>4. CASE cli = "ready"
  BY <1>2, <1>4 DEF Conversation, WhenReady
<1>5. CASE cli = "closed"
  BY <1>1, <1>5 DEF Conversation, GotInStep, WhileReading, WhenReady
<1> QED
  BY <1>1, <1>3, <1>4, <1>5

LEMMA InStepStep == Types /\ InStep /\ [Next]_vars => InStep'
<1> SUFFICES ASSUME Types, InStep, [Next]_vars, program' = "terminal", ~ surprised'
             PROVE  Conversation'
  BY DEF InStep
<1> USE DEF sessVars, workVars, connVars, cliVars
<1>a. program' = program
  BY DEF Next, Issue, Quit, IssueInVain, Close, Program, Read, ReadAndCount, ReadRecord, ReadFails,
     Serve, Loop, Command, Ask, ShowTransactions, RefuseTrade, FailTrade, SubmitTrade, StartBot,
     StopBot, QuitCommand, Handles, DropAnswer, EndSession, BotOrder, Settle, DropResult, BeginSend,
     SentBySession, SentByWorker, vars
<1>b. surprised => surprised'
  <2>1. CASE Command
    BY <2>1, Answers
  <2>2. CASE SentByWorker
    BY <2>2, WorkerSends
  <2>3. CASE ~ SentByWorker /\ ~ Command
    BY <2>3 DEF Next, Issue, Quit, IssueInVain, Close, Program, Read, ReadAndCount, ReadRecord,
       ReadFails, Serve, Loop, DropAnswer, EndSession, BotOrder, Settle, DropResult, BeginSend,
       SentBySession, vars
  <2> QED
    BY <2>1, <2>2, <2>3
<1>c. Conversation
  BY <1>a, <1>b DEF InStep
<1>1. ASSUME NEW k \in Kinds, Issue(k) PROVE Conversation'
  BY <1>c, <1>1, IssueInStep
<1>2. CASE Read
  BY <1>c, <1>2, ReadInStep
<1>3. CASE ReadAndCount \/ ReadRecord
  BY <1>a, <1>3 DEF ReadAndCount, ReadRecord
<1>4. CASE Close \/ ReadFails \/ Loop \/ EndSession \/ DropResult \/ UNCHANGED vars
           \/ (\E w \in {"session", "worker"} : BeginSend(w))
  <2>1. /\ UNCHANGED <<kind, issued, got, toClient, toServer, out, queue, order>>
        /\ cli' = cli \/ cli' = "closed"
        /\ worker' = "settled" => worker = "settled"
    BY <1>a, <1>4 DEF Close, ReadFails, Loop, EndSession, DropResult, BeginSend, vars
  <2>2. worker' = "settled" => worker = "settled" /\ order' = order
    BY <2>1
  <2>3. \A i \in DOMAIN queue' : queue'[i] = 0 \/ (i \in DOMAIN queue /\ queue'[i] = queue[i])
    BY <2>1
  <2> QED
    BY <1>c, <2>1, <2>2, <2>3, FewerAwaited
<1>5. CASE Quit
  <2>1. cli' = "closed" /\ got' = << >> /\ DOMAIN << >> = {}
    BY <1>5 DEF Quit
  <2> QED
    BY <2>1 DEF Conversation, GotInStep, WhileReading, WhenReady
<1>6. CASE BotOrder
  <2>1. /\ UNCHANGED <<kind, issued, got, toClient, toServer, out, order, cli, worker>>
        /\ queue' = Append(queue, 0) /\ queue \in Seq(0 .. MaxCommands) /\ 0 \in 0 .. MaxCommands
    BY <1>6 DEF BotOrder, Types, TypeOK
  <2>2. \A i \in DOMAIN queue' : queue'[i] = 0 \/ (i \in DOMAIN queue /\ queue'[i] = queue[i])
    BY <2>1, Adding
  <2>3. worker' = "settled" => worker = "settled" /\ order' = order
    BY <2>1
  <2> QED
    BY <1>c, <2>1, <2>2, <2>3, FewerAwaited
<1>7. CASE Command
  BY <1>c, <1>7, AnswerInStep
<1>8. CASE Settle
  BY <1>c, <1>8, SettleInStep
<1>9. CASE SentBySession \/ DropAnswer
  BY <1>c, <1>9, SessionInStep
<1>10. CASE SentByWorker
  BY <1>c, <1>10, WorkerInStep
<1>11. CASE IssueInVain
  BY <1>a, <1>11 DEF IssueInVain, Types, Senders
<1> QED
  BY <1>1, <1>2, <1>3, <1>4, <1>5, <1>6, <1>7, <1>8, <1>9, <1>10, <1>11
     DEF Next, Program, Serve

(* The terminal takes each line for the answer to its last command, and it *)
(* is right unless one of the five surprises has happened.                 *)
THEOREM TerminalInStep == Spec => []InStepUnlessSurprised
<1>1. Init => InStep
  <2> SUFFICES ASSUME Init, program = "terminal" PROVE Conversation
    BY DEF InStep
  <2>1. /\ cli = "ready" /\ got = << >> /\ toClient = << >> /\ toServer = << >> /\ out = << >>
        /\ queue = << >> /\ worker = "idle"
    BY DEF Init
  <2>2. DOMAIN << >> = {}
    OBVIOUS
  <2> QED
    BY <2>1, <2>2 DEF Conversation, GotInStep, WhileReading, WhenReady
<1>2. InStep => InStepUnlessSurprised
  BY DEF InStep, Conversation, GotInStep, InStepUnlessSurprised
<1> QED
  BY <1>1, <1>2, InStepStep, TypesHold, PTL DEF Spec
=============================================================================
