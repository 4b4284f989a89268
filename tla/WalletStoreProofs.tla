------------------------- MODULE WalletStoreProofs -------------------------
(***************************************************************************)
(* What the server keeps on disk, for every set of clients, every size of  *)
(* the stream's buffer and every number of transactions, starts, kills and *)
(* failures.                                                               *)
(***************************************************************************)
EXTENDS WalletStore, SequenceTheorems, TLAPS

USE StoreAssumption

-----------------------------------------------------------------------------
(* Accounts, wallets and files.                                            *)

(* A sequence of at most one element.                                      *)
LEMMA OneOrNone ==
  ASSUME NEW S
  PROVE  /\ << >> \in AtMostOne(S)
         /\ \A x \in S : <<x>> \in AtMostOne(S) /\ <<x>> # << >> /\ <<x>>[1] = x
         /\ \A s \in AtMostOne(S) : s # << >> => s[1] \in S /\ s = <<s[1]>>
<1>1. << >> \in AtMostOne(S)
  BY DEF AtMostOne
<1>2. ASSUME NEW x \in S PROVE <<x>> \in AtMostOne(S) /\ <<x>> # << >> /\ <<x>>[1] = x
  BY DEF AtMostOne
<1>3. ASSUME NEW s \in AtMostOne(S), s # << >> PROVE s[1] \in S /\ s = <<s[1]>>
  <2>1. s \in Seq(S) /\ Len(s) <= 1 /\ Len(s) \in Nat /\ Len(s) # 0
    BY <1>3 DEF AtMostOne
  <2>2. Len(s) = 1
    <3> DEFINE n == Len(s)
    <3>1. n \in Nat /\ n <= 1 /\ n # 0
      BY <2>1
    <3> HIDE DEF n
    <3>2. n = 1
      BY <3>1
    <3> QED
      BY <3>2 DEF n
  <2>3. s[1] \in S
    BY <2>1, <2>2, ElementOfSeq
  <2>4. <<s[1]>> \in Seq(S) /\ Len(<<s[1]>>) = 1
    BY <2>3
  <2>5. s = <<s[1]>>
    BY <2>1, <2>2, <2>4, SeqEqual
  <2> QED
    BY <2>5, <2>3
<1> QED
  BY <1>1, <1>2, <1>3

(* The figures of an account, the parts of a wallet and of a file.         *)
LEMMA Parts ==
  /\ \A a \in Account : a = [granted |-> a.granted, trades |-> a.trades]
                        /\ a.granted \in BOOLEAN /\ a.trades \in SUBSET Nat
  /\ \A w \in Wallets : w = [account |-> w.account, history |-> w.history]
                        /\ w.account \in Account /\ w.history \in Seq(Entry)
  /\ \A f \in Files : f.there \in BOOLEAN /\ f.account \in AtMostOne(Account)
                      /\ f.history \in Seq(Entry)
  /\ \A a \in Account, h \in Seq(Entry) :
        /\ [account |-> a, history |-> h] \in Wallets
        /\ [account |-> a, history |-> h].account = a
        /\ [account |-> a, history |-> h].history = h
  /\ \A g \in BOOLEAN, t \in SUBSET Nat :
        /\ [granted |-> g, trades |-> t] \in Account
        /\ [granted |-> g, trades |-> t].granted = g
        /\ [granted |-> g, trades |-> t].trades = t
<1>1. \A a \in Account : a = [granted |-> a.granted, trades |-> a.trades]
                        /\ a.granted \in BOOLEAN /\ a.trades \in SUBSET Nat
  BY DEF Account
<1>2. \A w \in Wallets : w = [account |-> w.account, history |-> w.history]
                        /\ w.account \in Account /\ w.history \in Seq(Entry)
  BY DEF Wallets
<1>3. \A f \in Files : f.there \in BOOLEAN /\ f.account \in AtMostOne(Account)
                      /\ f.history \in Seq(Entry)
  BY DEF Files
<1>4. \A a \in Account, h \in Seq(Entry) :
        /\ [account |-> a, history |-> h] \in Wallets
        /\ [account |-> a, history |-> h].account = a
        /\ [account |-> a, history |-> h].history = h
  BY DEF Wallets
<1>5. \A g \in BOOLEAN, t \in SUBSET Nat :
        /\ [granted |-> g, trades |-> t] \in Account
        /\ [granted |-> g, trades |-> t].granted = g
        /\ [granted |-> g, trades |-> t].trades = t
  BY DEF Account
<1> QED
  BY <1>1, <1>2, <1>3, <1>4, <1>5

LEMMA NoMoneyIs ==
  /\ NoMoney \in Account /\ NoMoney.granted = FALSE /\ NoMoney.trades = {}
  /\ \A a \in Account : a = NoMoney <=> ~ a.granted /\ a.trades = {}
<1>1. NoMoney \in Account /\ NoMoney.granted = FALSE /\ NoMoney.trades = {}
  BY Parts DEF NoMoney
<1>2. ASSUME NEW a \in Account, ~ a.granted, a.trades = {} PROVE a = NoMoney
  <2>1. a = [granted |-> FALSE, trades |-> {}]
    BY <1>2, Parts
  <2> QED
    BY <2>1 DEF NoMoney
<1> QED
  BY <1>1, <1>2

(* The files the program leaves.                                           *)
LEMMA FilesAre ==
  /\ NoFile \in Files /\ NoFile.account = << >> /\ NoFile.history = << >>
  /\ EmptyFile \in Files /\ EmptyFile.there
  /\ EmptyFile.account = << >> /\ EmptyFile.history = << >>
  /\ \A w \in Wallets : /\ Saved(w) \in Files /\ Saved(w).there
                        /\ Saved(w).account = <<w.account>>
                        /\ Saved(w).history = w.history
<1>1. << >> \in Seq(Entry) /\ << >> \in AtMostOne(Account)
  BY OneOrNone
<1>2. NoFile \in Files /\ NoFile.account = << >> /\ NoFile.history = << >>
  BY <1>1 DEF NoFile, Files
<1>3. EmptyFile = [there |-> TRUE, account |-> << >>, history |-> << >>]
  BY DEF EmptyFile
<1>4. /\ EmptyFile \in Files /\ EmptyFile.there
      /\ EmptyFile.account = << >> /\ EmptyFile.history = << >>
  BY <1>1, <1>3 DEF Files
<1>5. ASSUME NEW w \in Wallets
      PROVE  /\ Saved(w) \in Files /\ Saved(w).there
             /\ Saved(w).account = <<w.account>>
             /\ Saved(w).history = w.history
  <2>1. <<w.account>> \in AtMostOne(Account) /\ w.history \in Seq(Entry)
    BY OneOrNone, Parts
  <2> QED
    BY <2>1 DEF Saved, Files
<1> QED
  BY <1>2, <1>4, <1>5

(* What is loaded from a file.                                             *)
LEMMA LoadedIs ==
  ASSUME NEW f \in Files
  PROVE  /\ Loaded(f) \in Wallets
         /\ Loaded(f).account = IF f.account = << >> THEN NoMoney ELSE f.account[1]
         /\ Loaded(f).history = IF f.account = << >> \/ f.history = << >> THEN << >>
                                ELSE Tail(f.history)
<1>1. f.account \in AtMostOne(Account) /\ f.history \in Seq(Entry)
  BY Parts
<1>2. f.account # << >> => f.account[1] \in Account
  BY <1>1, OneOrNone
<1>3. f.history # << >> => Tail(f.history) \in Seq(Entry)
  BY <1>1
<1>4. << >> \in Seq(Entry) /\ NoMoney \in Account
  BY NoMoneyIs
<1> QED
  BY <1>2, <1>3, <1>4, Parts DEF Loaded

(* Replacing the trades of an account and a part of a wallet.              *)
LEMMA Replaced ==
  /\ \A a \in Account, t \in SUBSET Nat :
        [a EXCEPT !.trades = t] = [granted |-> a.granted, trades |-> t]
  /\ \A w \in Wallets, a \in Account :
        [w EXCEPT !.account = a] = [account |-> a, history |-> w.history]
  /\ \A w \in Wallets, h \in Seq(Entry) :
        [w EXCEPT !.history = h] = [account |-> w.account, history |-> h]
  /\ \A w \in Wallets, v \in Wallets : [<<w>> EXCEPT ![1] = v] = <<v>>
<1>1. \A a \in Account, t \in SUBSET Nat :
        [a EXCEPT !.trades = t] = [granted |-> a.granted, trades |-> t]
  BY DEF Account
<1>2. \A w \in Wallets, a \in Account :
        [w EXCEPT !.account = a] = [account |-> a, history |-> w.history]
  BY DEF Wallets
<1>3. \A w \in Wallets, h \in Seq(Entry) :
        [w EXCEPT !.history = h] = [account |-> w.account, history |-> h]
  BY DEF Wallets
<1>4. ASSUME NEW w \in Wallets, NEW v \in Wallets PROVE [<<w>> EXCEPT ![1] = v] = <<v>>
  OBVIOUS
<1> QED
  BY <1>1, <1>2, <1>3, <1>4

(* Adding a trade to the account of a loaded wallet.                       *)
LEMMA TradeAdded ==
  ASSUME wallet \in [Clients -> AtMostOne(Wallets)], NEW c \in Clients,
         wallet[c] # << >>, NEW n \in Nat
  PROVE  LET w == wallet[c][1]
             a == [granted |-> w.account.granted, trades |-> w.account.trades \cup {n}]
         IN  [wallet EXCEPT ![c][1].account.trades = @ \cup {n}] =
               [wallet EXCEPT ![c] = <<[account |-> a, history |-> w.history]>>]
<1> DEFINE w == wallet[c][1]
           a == w.account
           t == a.trades \cup {n}
           b == [granted |-> a.granted, trades |-> t]
           v == [account |-> b, history |-> w.history]
<1>1. w \in Wallets /\ wallet[c] = <<w>>
  BY OneOrNone
<1>2. a \in Account /\ w.history \in Seq(Entry)
  BY <1>1, Parts
<1>3. t \in SUBSET Nat /\ b \in Account
  BY <1>2, Parts
<1>4. v \in Wallets
  BY <1>2, <1>3, Parts
<1>5. [a EXCEPT !.trades = t] = b
  BY <1>2, <1>3, Replaced
<1>6. [w EXCEPT !.account = b] = v
  BY <1>1, <1>3, Replaced
<1>7. [wallet[c] EXCEPT ![1] = v] = <<v>>
  <2> HIDE DEF w, v
  <2> QED
    BY <1>1, <1>4, Replaced
<1>8. [wallet EXCEPT ![c][1].account.trades = @ \cup {n}] =
      [wallet EXCEPT ![c] = [wallet[c] EXCEPT ![1] = [w EXCEPT !.account = [a EXCEPT !.trades = t]]]]
  OBVIOUS
<1> QED
  BY <1>5, <1>6, <1>7, <1>8

-----------------------------------------------------------------------------
(* Histories.                                                              *)

IdsUpTo(h, n) == \A i \in 1 .. Len(h) : h[i].id <= n

(* A history that tells no more than another.                              *)
TellsLess(g, h) ==
  /\ g \in Seq(Entry)
  /\ CompletedIn(g) \subseteq CompletedIn(h)
  /\ Increasing(h) => Increasing(g)
  /\ \A n \in Int : IdsUpTo(h, n) => IdsUpTo(g, n)

LEMMA EntriesAre ==
  /\ \A e \in Entry : e.id \in Nat /\ e.status \in {"COMPLETED", "FAILED", "UNKNOWN"}
  /\ \A h \in Seq(Entry) : Len(h) \in Nat /\ \A i \in 1 .. Len(h) : h[i] \in Entry
<1>1. \A e \in Entry : e.id \in Nat /\ e.status \in {"COMPLETED", "FAILED", "UNKNOWN"}
  BY DEF Entry
<1>2. \A h \in Seq(Entry) : Len(h) \in Nat /\ \A i \in 1 .. Len(h) : h[i] \in Entry
  OBVIOUS
<1> QED
  BY <1>1, <1>2

(* The history one place on, or cut, tells less.                           *)
LEMMA Thinned ==
  ASSUME NEW g \in Seq(Entry), NEW h \in Seq(Entry), NEW d \in Nat,
         Len(g) + d <= Len(h),
         \A i \in 1 .. Len(g) : /\ g[i].id = h[i + d].id
                                /\ g[i].status = "COMPLETED" => h[i + d].status = "COMPLETED"
  PROVE  TellsLess(g, h)
<1>0. Len(g) \in Nat /\ Len(h) \in Nat
  OBVIOUS
<1>1. ASSUME NEW x \in CompletedIn(g) PROVE x \in CompletedIn(h)
  <2>1. PICK i \in 1 .. Len(g) : g[i].status = "COMPLETED" /\ x = g[i].id
    BY DEF CompletedIn
  <2>2. i + d \in 1 .. Len(h)
    BY <1>0
  <2>3. h[i + d].status = "COMPLETED" /\ x = h[i + d].id
    BY <2>1
  <2> QED
    BY <2>2, <2>3 DEF CompletedIn
<1>2. ASSUME Increasing(h) PROVE Increasing(g)
  <2> SUFFICES ASSUME NEW i \in 1 .. Len(g) - 1 PROVE g[i].id < g[i + 1].id
    BY DEF Increasing
  <2>1. /\ i \in 1 .. Len(g) /\ i + 1 \in 1 .. Len(g)
        /\ i + d \in 1 .. Len(h) - 1 /\ (i + 1) + d = (i + d) + 1
    BY <1>0
  <2>2. h[i + d].id < h[(i + d) + 1].id
    BY <1>2, <2>1 DEF Increasing
  <2>3. g[i].id = h[i + d].id /\ g[i + 1].id = h[(i + 1) + d].id
    BY <2>1
  <2> QED
    BY <2>1, <2>2, <2>3
<1>3. ASSUME NEW n \in Int, IdsUpTo(h, n) PROVE IdsUpTo(g, n)
  <2> SUFFICES ASSUME NEW i \in 1 .. Len(g) PROVE g[i].id <= n
    BY DEF IdsUpTo
  <2>1. i + d \in 1 .. Len(h)
    BY <1>0
  <2> QED
    BY <1>3, <2>1 DEF IdsUpTo
<1> QED
  BY <1>1, <1>2, <1>3 DEF TellsLess

LEMMA TailTellsLess ==
  ASSUME NEW h \in Seq(Entry), h # << >>
  PROVE  TellsLess(Tail(h), h)
<1>1. /\ Tail(h) \in Seq(Entry) /\ Len(Tail(h)) + 1 = Len(h)
      /\ \A i \in 1 .. Len(Tail(h)) : Tail(h)[i] = h[i + 1]
      /\ Len(h) \in Nat
  OBVIOUS
<1> DEFINE g == Tail(h)
           d == 1
<1>2. g \in Seq(Entry) /\ d \in Nat /\ Len(g) + d <= Len(h)
  BY <1>1
<1>4. \A i \in 1 .. Len(g) : /\ g[i].id = h[i + d].id
                             /\ g[i].status = "COMPLETED" => h[i + d].status = "COMPLETED"
  BY <1>1
<1> HIDE DEF g, d
<1>3. TellsLess(g, h)
  BY <1>2, <1>4, Thinned
<1> QED
  BY <1>3 DEF g

LEMMA NothingTold ==
  ASSUME NEW h \in Seq(Entry)
  PROVE  TellsLess(<< >>, h) /\ TellsLess(h, h)
<1>1. << >> \in Seq(Entry) /\ Len(<< >>) = 0 /\ Len(h) \in Nat
  OBVIOUS
<1>2. TellsLess(<< >>, h)
  <2>1. Len(<< >>) + 0 <= Len(h)
    BY <1>1
  <2>2. 1 .. Len(<< >>) = {}
    BY <1>1
  <2> QED
    BY <1>1, <2>1, <2>2, Thinned
<1> QED
  BY <1>2 DEF TellsLess

(* What has been written of a history when the buffer spilled.             *)
LEMMA CutTellsLess ==
  ASSUME NEW h \in Seq(Entry), NEW g \in CutHistories(h)
  PROVE  TellsLess(g, h)
<1>0. Len(h) \in Nat /\ BufferLines >= 1
  OBVIOUS
<1>1. ASSUME NEW n \in 1 .. Len(h)
      PROVE  /\ SubSeq(h, 1, n) \in Seq(Entry) /\ Len(SubSeq(h, 1, n)) = n
             /\ \A i \in 1 .. n : SubSeq(h, 1, n)[i] = h[i]
  BY <1>0
<1>2. CASE \E n \in BufferLines .. Len(h) - 1 : g = SubSeq(h, 1, n)
  <2>1. PICK n \in BufferLines .. Len(h) - 1 : g = SubSeq(h, 1, n)
    BY <1>2
  <2>2. n \in 1 .. Len(h)
    BY <1>0
  <2>3. g \in Seq(Entry) /\ Len(g) = n /\ \A i \in 1 .. n : g[i] = h[i]
    BY <1>1, <2>1, <2>2
  <2>4. Len(g) + 0 <= Len(h) /\ \A i \in 1 .. Len(g) : g[i] = h[i + 0]
    BY <1>0, <2>2, <2>3
  <2> QED
    BY <2>3, <2>4, Thinned
<1>3. CASE \E n \in BufferLines + 1 .. Len(h) :
             g = [SubSeq(h, 1, n) EXCEPT ![n].status = "UNKNOWN"]
  <2>1. PICK n \in BufferLines + 1 .. Len(h) :
               g = [SubSeq(h, 1, n) EXCEPT ![n].status = "UNKNOWN"]
    BY <1>3
  <2>2. n \in 1 .. Len(h)
    BY <1>0
  <2> DEFINE s == SubSeq(h, 1, n)
             e == [s[n] EXCEPT !.status = "UNKNOWN"]
  <2>3. s \in Seq(Entry) /\ Len(s) = n /\ \A i \in 1 .. n : s[i] = h[i]
    BY <1>1, <2>2
  <2>4. g = [s EXCEPT ![n] = e]
    BY <2>1
  <2>5. s[n] \in Entry
    BY <2>2, <2>3
  <2>6. e \in Entry /\ e.id = s[n].id /\ e.status = "UNKNOWN"
    BY <2>5 DEF Entry
  <2> HIDE DEF s, e
  <2>7. /\ g \in Seq(Entry) /\ Len(g) = n
        /\ \A i \in 1 .. n : g[i] = IF i = n THEN e ELSE s[i]
    BY <2>2, <2>3, <2>4, <2>6, ExceptSeq
  <2>8. \A i \in 1 .. Len(g) : /\ g[i].id = h[i + 0].id
                               /\ g[i].status = "COMPLETED" => h[i + 0].status = "COMPLETED"
    BY <2>2, <2>3, <2>6, <2>7
  <2>9. Len(g) + 0 <= Len(h)
    BY <1>0, <2>2, <2>7
  <2> QED
    BY <2>7, <2>8, <2>9, Thinned
<1> QED
  BY <1>2, <1>3 DEF CutHistories

(* A transaction enters a history at its end.                              *)
LEMMA EntryAdded ==
  ASSUME NEW h \in Seq(Entry), NEW e \in Entry
  PROVE  /\ Append(h, e) \in Seq(Entry)
         /\ CompletedIn(Append(h, e)) \subseteq
              CompletedIn(h) \cup (IF e.status = "COMPLETED" THEN {e.id} ELSE {})
         /\ Increasing(h) /\ IdsUpTo(h, e.id - 1) => Increasing(Append(h, e))
         /\ IdsUpTo(h, e.id - 1) => IdsUpTo(Append(h, e), e.id)
<1> DEFINE g == Append(h, e)
<1>1. /\ g \in Seq(Entry) /\ Len(g) = Len(h) + 1 /\ Len(h) \in Nat
      /\ \A i \in 1 .. Len(h) : g[i] = h[i]
      /\ g[Len(h) + 1] = e
  OBVIOUS
<1>2. e.id \in Nat /\ \A i \in 1 .. Len(h) : h[i].id \in Nat
  BY EntriesAre
<1> HIDE DEF g
<1>3. ASSUME NEW x \in CompletedIn(g)
      PROVE  x \in CompletedIn(h) \cup (IF e.status = "COMPLETED" THEN {e.id} ELSE {})
  <2>1. PICK i \in 1 .. Len(g) : g[i].status = "COMPLETED" /\ x = g[i].id
    BY DEF CompletedIn
  <2>2. CASE i = Len(h) + 1
    BY <1>1, <2>1, <2>2
  <2>3. CASE i # Len(h) + 1
    <3>1. i \in 1 .. Len(h)
      BY <1>1, <2>3
    <3> QED
      BY <1>1, <2>1, <3>1 DEF CompletedIn
  <2> QED
    BY <2>2, <2>3
<1>4. ASSUME Increasing(h), IdsUpTo(h, e.id - 1) PROVE Increasing(g)
  <2> SUFFICES ASSUME NEW i \in 1 .. Len(g) - 1 PROVE g[i].id < g[i + 1].id
    BY DEF Increasing
  <2>1. i \in 1 .. Len(h)
    BY <1>1
  <2>2. CASE i = Len(h)
    <3>1. h[i].id <= e.id - 1
      BY <1>4, <2>1 DEF IdsUpTo
    <3> QED
      BY <1>1, <1>2, <2>1, <2>2, <3>1
  <2>3. CASE i # Len(h)
    <3>1. i \in 1 .. Len(h) - 1 /\ i + 1 \in 1 .. Len(h)
      BY <1>1, <2>1, <2>3
    <3> QED
      BY <1>1, <1>4, <2>1, <3>1 DEF Increasing
  <2> QED
    BY <2>2, <2>3
<1>5. ASSUME IdsUpTo(h, e.id - 1) PROVE IdsUpTo(g, e.id)
  <2> SUFFICES ASSUME NEW i \in 1 .. Len(g) PROVE g[i].id <= e.id
    BY DEF IdsUpTo
  <2>1. CASE i = Len(h) + 1
    BY <1>1, <1>2, <2>1
  <2>2. CASE i # Len(h) + 1
    <3>1. i \in 1 .. Len(h)
      BY <1>1, <2>2
    <3>2. h[i].id <= e.id - 1
      BY <1>5, <3>1 DEF IdsUpTo
    <3> QED
      BY <1>1, <1>2, <3>1, <3>2
  <2> QED
    BY <2>1, <2>2
<1> QED
  BY <1>1, <1>3, <1>4, <1>5 DEF g

-----------------------------------------------------------------------------
(* What the clerk and the worker are doing.                                *)

LEMMA JobIs ==
  ASSUME NEW j \in Jobs
  PROVE  /\ j.step \in {"idle", "open", "write", "append"}
         /\ j = Idle <=> j.step = "idle"
         /\ j.step \in {"open", "write"} =>
              /\ "by" \in DOMAIN j /\ j.by \in {"worker", "session", "destructor"}
              /\ j.client \in Clients
              /\ "entry" \in DOMAIN j <=> j.by = "worker"
         /\ j.step = "append" =>
              /\ "by" \notin DOMAIN j /\ "entry" \in DOMAIN j /\ j.client \in Clients
         /\ j.step = "idle" => "by" \notin DOMAIN j /\ "entry" \notin DOMAIN j
         /\ "entry" \in DOMAIN j => j.entry \in Entry
<1>1. CASE j = Idle
  BY <1>1 DEF Idle
<1>2. CASE j \in [step : {"open", "write"}, client : Clients, entry : Entry, by : {"worker"}]
  BY <1>2 DEF Idle
<1>3. CASE j \in [step : {"append"}, client : Clients, entry : Entry]
  BY <1>3 DEF Idle
<1>4. CASE j \in [step : {"open", "write"}, client : Clients, by : {"session", "destructor"}]
  BY <1>4 DEF Idle
<1> QED
  BY <1>1, <1>2, <1>3, <1>4 DEF Jobs

LEMMA ClerkIs ==
  ASSUME NEW k \in Clerks
  PROVE  /\ k.step \in {"idle", "openUsers", "writeUsers", "openWallet", "fillWallet"}
         /\ k = Idle <=> k.step = "idle"
         /\ k.step = "idle" => "client" \notin DOMAIN k
         /\ k.step \in {"openUsers", "writeUsers"} =>
              /\ k.next \in {"create", "undone", "stop"}
              /\ "client" \in DOMAIN k <=> k.next # "stop"
         /\ k.step \in {"openWallet", "fillWallet"} => "client" \in DOMAIN k
         /\ "client" \in DOMAIN k => k.client \in Clients
<1>1. CASE k = Idle
  BY <1>1 DEF Idle
<1>2. CASE k \in [step : {"openUsers", "writeUsers"}, client : Clients, next : {"create", "undone"}]
  BY <1>2 DEF Idle
<1>3. CASE k \in [step : {"openUsers", "writeUsers"}, next : {"stop"}]
  BY <1>3 DEF Idle
<1>4. CASE k \in [step : {"openWallet", "fillWallet"}, client : Clients]
  BY <1>4 DEF Idle
<1> QED
  BY <1>1, <1>2, <1>3, <1>4 DEF Clerks

(* The jobs the worker and the destructors begin.                          *)
LEMMA JobsBegun ==
  /\ Idle \in Jobs
  /\ \A c \in Clients, e \in Entry :
       LET j == [step |-> "open", client |-> c, by |-> "worker", entry |-> e]
       IN  /\ j \in Jobs /\ j.step = "open" /\ j.client = c /\ j.by = "worker"
           /\ j.entry = e /\ "entry" \in DOMAIN j /\ "by" \in DOMAIN j
  /\ \A c \in Clients, e \in Entry :
       LET j == [step |-> "append", client |-> c, entry |-> e]
       IN  /\ j \in Jobs /\ j.step = "append" /\ j.client = c
           /\ j.entry = e /\ "entry" \in DOMAIN j /\ "by" \notin DOMAIN j
  /\ \A c \in Clients, b \in {"session", "destructor"} :
       LET j == [step |-> "open", client |-> c, by |-> b]
       IN  /\ j \in Jobs /\ j.step = "open" /\ j.client = c /\ j.by = b
           /\ "entry" \notin DOMAIN j /\ "by" \in DOMAIN j
<1>1. Idle \in Jobs
  BY DEF Jobs
<1>2. ASSUME NEW c \in Clients, NEW e \in Entry
      PROVE  LET j == [step |-> "open", client |-> c, by |-> "worker", entry |-> e]
             IN  /\ j \in Jobs /\ j.step = "open" /\ j.client = c /\ j.by = "worker"
                 /\ j.entry = e /\ "entry" \in DOMAIN j /\ "by" \in DOMAIN j
  BY DEF Jobs
<1>3. ASSUME NEW c \in Clients, NEW e \in Entry
      PROVE  LET j == [step |-> "append", client |-> c, entry |-> e]
             IN  /\ j \in Jobs /\ j.step = "append" /\ j.client = c
                 /\ j.entry = e /\ "entry" \in DOMAIN j /\ "by" \notin DOMAIN j
  BY DEF Jobs
<1>4. ASSUME NEW c \in Clients, NEW b \in {"session", "destructor"}
      PROVE  LET j == [step |-> "open", client |-> c, by |-> b]
             IN  /\ j \in Jobs /\ j.step = "open" /\ j.client = c /\ j.by = b
                 /\ "entry" \notin DOMAIN j /\ "by" \in DOMAIN j
  BY DEF Jobs
<1> QED
  BY <1>1, <1>2, <1>3, <1>4

(* The file is open.                                                       *)
LEMMA JobOpened ==
  ASSUME NEW j \in Jobs, j.step = "open"
  PROVE  LET k == [j EXCEPT !.step = "write"]
         IN  /\ k \in Jobs /\ k.step = "write" /\ k.client = j.client /\ k.by = j.by
             /\ "by" \in DOMAIN k
             /\ "entry" \in DOMAIN k <=> "entry" \in DOMAIN j
             /\ "entry" \in DOMAIN j => k.entry = j.entry
<1>1. CASE j \in [step : {"open", "write"}, client : Clients, entry : Entry, by : {"worker"}]
  BY <1>1 DEF Jobs
<1>2. CASE j \in [step : {"open", "write"}, client : Clients, by : {"session", "destructor"}]
  BY <1>2 DEF Jobs
<1> QED
  BY <1>1, <1>2 DEF Jobs, Idle

(* The file is closed.                                                     *)
LEMMA JobSaved ==
  ASSUME job \in Jobs, job.step \in {"open", "write"}
  PROVE  /\ AfterSave \in Jobs
         /\ job.by = "worker" =>
              /\ AfterSave.step = "append" /\ AfterSave.client = job.client
              /\ "entry" \in DOMAIN AfterSave /\ AfterSave.entry = job.entry
              /\ "by" \notin DOMAIN AfterSave
         /\ job.by = "session" =>
              /\ AfterSave.step = "open" /\ AfterSave.client = job.client
              /\ AfterSave.by = "destructor"
              /\ "entry" \notin DOMAIN AfterSave /\ "by" \in DOMAIN AfterSave
         /\ job.by = "destructor" => AfterSave = Idle
<1>1. job.by \in {"worker", "session", "destructor"} /\ job.client \in Clients
      /\ (job.by = "worker" => job.entry \in Entry)
  BY JobIs
<1>2. CASE job.by = "worker"
  <2>1. AfterSave = [step |-> "append", client |-> job.client, entry |-> job.entry]
    BY <1>2 DEF AfterSave
  <2> QED
    BY <1>1, <1>2, <2>1, JobsBegun
<1>3. CASE job.by = "session"
  <2>1. AfterSave = [step |-> "open", client |-> job.client, by |-> "destructor"]
    BY <1>3 DEF AfterSave
  <2> QED
    BY <1>1, <1>3, <2>1, JobsBegun
<1>4. CASE job.by = "destructor"
  <2>1. AfterSave = Idle
    BY <1>4 DEF AfterSave
  <2> QED
    BY <1>4, <2>1, JobsBegun
<1> QED
  BY <1>1, <1>2, <1>3, <1>4

(* The clerk's tasks.                                                      *)
LEMMA ClerksBegun ==
  /\ Idle \in Clerks
  /\ \A c \in Clients, n \in {"create", "undone"} :
       LET k == [step |-> "openUsers", client |-> c, next |-> n]
       IN  /\ k \in Clerks /\ k.step = "openUsers" /\ k.client = c /\ k.next = n
           /\ "client" \in DOMAIN k
  /\ LET k == [step |-> "openUsers", next |-> "stop"]
     IN  k \in Clerks /\ k.step = "openUsers" /\ k.next = "stop" /\ "client" \notin DOMAIN k
  /\ \A c \in Clients :
       LET k == [step |-> "openWallet", client |-> c]
       IN  k \in Clerks /\ k.step = "openWallet" /\ k.client = c /\ "client" \in DOMAIN k
<1>1. Idle \in Clerks
  BY DEF Clerks
<1>2. ASSUME NEW c \in Clients, NEW n \in {"create", "undone"}
      PROVE  LET k == [step |-> "openUsers", client |-> c, next |-> n]
             IN  /\ k \in Clerks /\ k.step = "openUsers" /\ k.client = c /\ k.next = n
                 /\ "client" \in DOMAIN k
  BY DEF Clerks
<1>3. LET k == [step |-> "openUsers", next |-> "stop"]
      IN  k \in Clerks /\ k.step = "openUsers" /\ k.next = "stop" /\ "client" \notin DOMAIN k
  BY DEF Clerks
<1>4. ASSUME NEW c \in Clients
      PROVE  LET k == [step |-> "openWallet", client |-> c]
             IN  k \in Clerks /\ k.step = "openWallet" /\ k.client = c /\ "client" \in DOMAIN k
  BY DEF Clerks
<1> QED
  BY <1>1, <1>2, <1>3, <1>4

LEMMA ClerkOpened ==
  ASSUME NEW k \in Clerks
  PROVE  /\ k.step = "openUsers" =>
              LET l == [k EXCEPT !.step = "writeUsers"]
              IN  /\ l \in Clerks /\ l.step = "writeUsers" /\ l.next = k.next
                  /\ "client" \in DOMAIN l <=> "client" \in DOMAIN k
                  /\ "client" \in DOMAIN k => l.client = k.client
         /\ k.step = "openWallet" =>
              LET l == [k EXCEPT !.step = "fillWallet"]
              IN  /\ l \in Clerks /\ l.step = "fillWallet"
                  /\ "client" \in DOMAIN l /\ l.client = k.client
<1>1. CASE k \in [step : {"openUsers", "writeUsers"}, client : Clients, next : {"create", "undone"}]
  BY <1>1 DEF Clerks
<1>2. CASE k \in [step : {"openUsers", "writeUsers"}, next : {"stop"}]
  BY <1>2 DEF Clerks
<1>3. CASE k \in [step : {"openWallet", "fillWallet"}, client : Clients]
  BY <1>3 DEF Clerks
<1> QED
  BY <1>1, <1>2, <1>3 DEF Clerks, Idle

LEMMA ClerkWrote ==
  ASSUME clerk \in Clerks, clerk.step \in {"openUsers", "writeUsers"}
  PROVE  /\ AfterUsers \in Clerks
         /\ clerk.next = "create" =>
              /\ AfterUsers.step = "openWallet"
              /\ "client" \in DOMAIN AfterUsers /\ AfterUsers.client = clerk.client
         /\ clerk.next # "create" => AfterUsers = Idle
<1>1. clerk.next \in {"create", "undone", "stop"}
      /\ (clerk.next = "create" => clerk.client \in Clients)
  BY ClerkIs
<1>2. CASE clerk.next = "create"
  <2>1. AfterUsers = [step |-> "openWallet", client |-> clerk.client]
    BY <1>2 DEF AfterUsers
  <2> QED
    BY <1>1, <1>2, <2>1, ClerksBegun
<1>3. CASE clerk.next # "create"
  <2>1. AfterUsers = Idle
    BY <1>1, <1>3 DEF AfterUsers
  <2> QED
    BY <1>3, <2>1, ClerksBegun
<1> QED
  BY <1>2, <1>3

-----------------------------------------------------------------------------
(* Changing one wallet, one file.                                          *)

LEMMA WalletPut ==
  ASSUME wallet \in [Clients -> AtMostOne(Wallets)], NEW c \in Clients, NEW v \in Wallets,
         wallet' = [wallet EXCEPT ![c] = <<v>>]
  PROVE  /\ wallet' \in [Clients -> AtMostOne(Wallets)]
         /\ wallet'[c] = <<v>> /\ wallet'[c] # << >> /\ wallet'[c][1] = v
         /\ \A d \in Clients : d # c => wallet'[d] = wallet[d]
<1>1. <<v>> \in AtMostOne(Wallets) /\ <<v>> # << >> /\ <<v>>[1] = v
  BY OneOrNone
<1> HIDE DEF Wallets, AtMostOne
<1>2. wallet'[c] = <<v>>
  OBVIOUS
<1> QED
  BY <1>1, <1>2

LEMMA WalletGone ==
  ASSUME wallet \in [Clients -> AtMostOne(Wallets)], NEW c \in Clients,
         wallet' = [wallet EXCEPT ![c] = << >>]
  PROVE  /\ wallet' \in [Clients -> AtMostOne(Wallets)]
         /\ wallet'[c] = << >>
         /\ \A d \in Clients : d # c => wallet'[d] = wallet[d]
BY OneOrNone

LEMMA FilePut ==
  ASSUME file \in [Clients -> Files], NEW c \in Clients, NEW f \in Files,
         file' = [file EXCEPT ![c] = f]
  PROVE  /\ file' \in [Clients -> Files]
         /\ file'[c] = f
         /\ \A d \in Clients : d # c => file'[d] = file[d]
OBVIOUS

(* A wallet that is loaded.                                                *)
LEMMA WalletLoaded ==
  ASSUME wallet \in [Clients -> AtMostOne(Wallets)], NEW c \in Clients, wallet[c] # << >>
  PROVE  /\ wallet[c] = <<wallet[c][1]>>
         /\ wallet[c][1] \in Wallets
         /\ wallet[c][1].account \in Account
         /\ wallet[c][1].history \in Seq(Entry)
<1>1. wallet[c] = <<wallet[c][1]>> /\ wallet[c][1] \in Wallets
  BY OneOrNone
<1> QED
  BY <1>1, Parts

(* The wallet after a trade, and after it entered the history.             *)
Trading(w, n) ==
  [account |-> [granted |-> w.account.granted, trades |-> w.account.trades \cup {n}],
   history |-> w.history]

Telling(w, e) == [account |-> w.account, history |-> Append(w.history, e)]

LEMMA TradingIs ==
  ASSUME NEW w \in Wallets, NEW n \in Nat
  PROVE  /\ Trading(w, n) \in Wallets
         /\ Trading(w, n).history = w.history
         /\ Trading(w, n).account \in Account
         /\ Trading(w, n).account.granted = w.account.granted
         /\ Trading(w, n).account.trades = w.account.trades \cup {n}
<1> DEFINE t == w.account.trades \cup {n}
<1>1. w.account \in Account /\ w.history \in Seq(Entry)
  BY Parts
<1>2. w.account.granted \in BOOLEAN /\ t \in SUBSET Nat
  BY <1>1, Parts
<1> HIDE DEF t
<1>3. /\ [granted |-> w.account.granted, trades |-> t] \in Account
      /\ [granted |-> w.account.granted, trades |-> t].granted = w.account.granted
      /\ [granted |-> w.account.granted, trades |-> t].trades = t
  BY <1>2, Parts
<1>4. Trading(w, n) = [account |-> [granted |-> w.account.granted, trades |-> t],
                       history |-> w.history]
  BY DEF Trading, t
<1> QED
  BY <1>1, <1>3, <1>4, Parts DEF t

LEMMA TellingIs ==
  ASSUME NEW w \in Wallets, NEW e \in Entry
  PROVE  /\ Telling(w, e) \in Wallets
         /\ Telling(w, e).account = w.account
         /\ Telling(w, e).history = Append(w.history, e)
<1>1. w.account \in Account /\ Append(w.history, e) \in Seq(Entry)
  BY Parts, EntryAdded
<1> QED
  BY <1>1, Parts DEF Telling

(* The wallet after AddTransaction.                                        *)
LEMMA HistoryAppended ==
  ASSUME wallet \in [Clients -> AtMostOne(Wallets)], NEW c \in Clients,
         wallet[c] # << >>, NEW e \in Entry
  PROVE  [wallet EXCEPT ![c][1].history = Append(@, e)] =
           [wallet EXCEPT ![c] = <<Telling(wallet[c][1], e)>>]
<1> DEFINE w == wallet[c][1]
           v == Telling(w, e)
           h == Append(w.history, e)
<1>1. w \in Wallets /\ wallet[c] = <<w>> /\ v \in Wallets /\ h \in Seq(Entry)
  BY WalletLoaded, TellingIs
<1>2. [w EXCEPT !.history = h] = v
  BY <1>1, Replaced DEF Telling
<1>3. [wallet[c] EXCEPT ![1] = v] = <<v>>
  <2> HIDE DEF w, v
  <2> QED
    BY <1>1, Replaced
<1>4. [wallet EXCEPT ![c][1].history = Append(@, e)] =
      [wallet EXCEPT ![c] = [wallet[c] EXCEPT ![1] = [w EXCEPT !.history = h]]]
  OBVIOUS
<1> QED
  BY <1>2, <1>3, <1>4

-----------------------------------------------------------------------------
(* The steps that touch wallets and files, figure by figure.               *)

WalletTypes == wallet \in [Clients -> AtMostOne(Wallets)] /\ file \in [Clients -> Files]

(* The job in progress is that of a wallet that is loaded.                 *)
JobLoaded == job # Idle => wallet[job.client] # << >>

(* OpenSession loads the wallet.                                           *)
LEMMA OpenSessionDoes ==
  ASSUME WalletTypes, NEW c \in Clients, OpenSession(c)
  PROVE  /\ wallet' \in [Clients -> AtMostOne(Wallets)]
         /\ wallet'[c] # << >> /\ wallet'[c][1] = Loaded(file[c])
         /\ \A d \in Clients : d # c => wallet'[d] = wallet[d]
<1>1. Loaded(file[c]) \in Wallets
  BY LoadedIs DEF WalletTypes
<1> QED
  BY <1>1, WalletPut DEF OpenSession, WalletTypes

(* Settle makes the trade under a new identifier.                          *)
LEMMA SettleDoes ==
  ASSUME WalletTypes, ids \in Nat, NEW c \in Clients, Settle(c)
  PROVE  /\ wallet[c] # << >> /\ wallet[c][1] \in Wallets
         /\ ids' = ids + 1 /\ job = Idle
         /\ wallet' \in [Clients -> AtMostOne(Wallets)]
         /\ wallet'[c] # << >> /\ wallet'[c][1] = Trading(wallet[c][1], ids')
         /\ \A d \in Clients : d # c => wallet'[d] = wallet[d]
         /\ job' \in Jobs /\ job'.step = "open" /\ job'.client = c /\ job'.by = "worker"
         /\ "entry" \in DOMAIN job' /\ "by" \in DOMAIN job'
         /\ job'.entry \in Entry /\ job'.entry.id = ids' /\ job'.entry.status = "COMPLETED"
<1>1. wallet[c] # << >> /\ wallet[c][1] \in Wallets
  BY WalletLoaded DEF Settle, WalletTypes
<1>2. ids' = ids + 1 /\ job = Idle /\ ids' \in Nat
  BY DEF Settle, NewId
<1>3. Trading(wallet[c][1], ids') \in Wallets
  BY <1>1, <1>2, TradingIs
<1>4. wallet' = [wallet EXCEPT ![c] = <<Trading(wallet[c][1], ids')>>]
  BY <1>1, <1>2, TradeAdded DEF Settle, WalletTypes, Trading
<1>5. /\ wallet' \in [Clients -> AtMostOne(Wallets)]
      /\ wallet'[c] # << >> /\ wallet'[c][1] = Trading(wallet[c][1], ids')
      /\ \A d \in Clients : d # c => wallet'[d] = wallet[d]
  BY <1>3, <1>4, WalletPut DEF WalletTypes
<1> DEFINE e == [id |-> ids', status |-> "COMPLETED"]
<1>6. e \in Entry /\ e.id = ids' /\ e.status = "COMPLETED"
  BY <1>2 DEF Entry
<1>7. job' = [step |-> "open", client |-> c, by |-> "worker", entry |-> e]
  BY DEF Settle
<1> HIDE DEF e
<1>8. /\ job' \in Jobs /\ job'.step = "open" /\ job'.client = c /\ job'.by = "worker"
      /\ job'.entry = e /\ "entry" \in DOMAIN job' /\ "by" \in DOMAIN job'
  BY <1>6, <1>7, JobsBegun
<1> QED
  BY <1>1, <1>2, <1>5, <1>6, <1>8

(* Refuse makes an entry of the history under a new identifier.            *)
LEMMA RefuseDoes ==
  ASSUME ids \in Nat, NEW c \in Clients, Refuse(c)
  PROVE  /\ ids' = ids + 1 /\ job = Idle
         /\ job' \in Jobs /\ job'.step = "append" /\ job'.client = c
         /\ "entry" \in DOMAIN job' /\ "by" \notin DOMAIN job'
         /\ job'.entry \in Entry /\ job'.entry.id = ids' /\ job'.entry.status = "FAILED"
<1>2. ids' = ids + 1 /\ job = Idle /\ ids' \in Nat
  BY DEF Refuse, NewId
<1> DEFINE e == [id |-> ids', status |-> "FAILED"]
<1>6. e \in Entry /\ e.id = ids' /\ e.status = "FAILED"
  BY <1>2 DEF Entry
<1>7. job' = [step |-> "append", client |-> c, entry |-> e]
  BY DEF Refuse
<1> HIDE DEF e
<1>8. /\ job' \in Jobs /\ job'.step = "append" /\ job'.client = c
      /\ job'.entry = e /\ "entry" \in DOMAIN job' /\ "by" \notin DOMAIN job'
  BY <1>6, <1>7, JobsBegun
<1> QED
  BY <1>2, <1>6, <1>8

(* AddTransaction: the entry enters the history.                           *)
LEMMA AddTransactionDoes ==
  ASSUME WalletTypes, job \in Jobs, JobLoaded, AddTransaction
  PROVE  LET c == job.client IN
         /\ c \in Clients /\ wallet[c] # << >> /\ wallet[c][1] \in Wallets
         /\ job.entry \in Entry /\ "entry" \in DOMAIN job
         /\ wallet' \in [Clients -> AtMostOne(Wallets)]
         /\ wallet'[c] # << >> /\ wallet'[c][1] = Telling(wallet[c][1], job.entry)
         /\ \A d \in Clients : d # c => wallet'[d] = wallet[d]
         /\ job' = Idle
<1> DEFINE c == job.client
<1>1. c \in Clients /\ job.entry \in Entry /\ "entry" \in DOMAIN job /\ job # Idle
  BY JobIs DEF AddTransaction
<1>2. wallet[c] # << >> /\ wallet[c][1] \in Wallets
  BY <1>1, WalletLoaded DEF WalletTypes, JobLoaded
<1>3. wallet' = [wallet EXCEPT ![c] = <<Telling(wallet[c][1], job.entry)>>]
  BY <1>1, <1>2, HistoryAppended DEF AddTransaction, WalletTypes
<1>4. Telling(wallet[c][1], job.entry) \in Wallets
  BY <1>1, <1>2, TellingIs
<1>5. /\ wallet' \in [Clients -> AtMostOne(Wallets)]
      /\ wallet'[c] # << >> /\ wallet'[c][1] = Telling(wallet[c][1], job.entry)
      /\ \A d \in Clients : d # c => wallet'[d] = wallet[d]
  BY <1>1, <1>3, <1>4, WalletPut DEF WalletTypes
<1> QED
  BY <1>1, <1>2, <1>5 DEF AddTransaction

(* What a file holds before it is closed.                                  *)
LEMMA PartsAre ==
  ASSUME NEW w \in Wallets, NEW p \in PartsOf(w)
  PROVE  /\ p \in Files /\ p.there
         /\ p.account = << >> \/ p.account = <<w.account>>
         /\ TellsLess(p.history, w.history)
<1>1. w.history \in Seq(Entry) /\ w.account \in Account
  BY Parts
<1>2. CASE p = EmptyFile
  <2>1. TellsLess(<< >>, w.history)
    BY <1>1, NothingTold
  <2> QED
    BY <1>2, <2>1, FilesAre
<1>3. CASE \E h \in CutHistories(w.history) : p = [Saved(w) EXCEPT !.history = h]
  <2>1. PICK h \in CutHistories(w.history) : p = [Saved(w) EXCEPT !.history = h]
    BY <1>3
  <2>2. TellsLess(h, w.history) /\ h \in Seq(Entry)
    BY <1>1, CutTellsLess DEF TellsLess
  <2>3. <<w.account>> \in AtMostOne(Account)
    BY <1>1, OneOrNone
  <2> DEFINE a == <<w.account>>
  <2>4. p = [[there |-> TRUE, account |-> a, history |-> w.history] EXCEPT !.history = h]
    BY <2>1 DEF Saved
  <2> HIDE DEF a
  <2>5. p = [there |-> TRUE, account |-> a, history |-> h]
    BY <2>4
  <2>6. p \in Files /\ p.there /\ p.account = a /\ p.history = h
    BY <2>2, <2>3, <2>5 DEF Files, a
  <2> QED
    BY <2>2, <2>6 DEF a
<1> QED
  BY <1>2, <1>3 DEF PartsOf

LEMMA WalletAfterSaveIs ==
  ASSUME WalletTypes, job \in Jobs, job.step \in {"open", "write"}
  PROVE  /\ WalletAfterSave \in [Clients -> AtMostOne(Wallets)]
         /\ job.by = "destructor" => WalletAfterSave[job.client] = << >>
         /\ \A d \in Clients : job.by # "destructor" \/ d # job.client
                                 => WalletAfterSave[d] = wallet[d]
<1>1. job.client \in Clients
  BY JobIs
<1> QED
  BY <1>1, OneOrNone DEF WalletAfterSave, WalletTypes

(* OpenSave empties the file, or leaves everything and goes on.            *)
LEMMA OpenSaveDoes ==
  ASSUME WalletTypes, job \in Jobs, OpenSave
  PROVE  LET c == job.client IN
         /\ c \in Clients /\ job.step = "open"
         /\ \/ /\ failures' = failures
               /\ file' \in [Clients -> Files] /\ file'[c] = EmptyFile
               /\ \A d \in Clients : d # c => file'[d] = file[d]
               /\ wallet' = wallet
               /\ job' \in Jobs /\ job'.step = "write" /\ job'.client = c
               /\ job'.by = job.by /\ "by" \in DOMAIN job'
               /\ "entry" \in DOMAIN job' <=> "entry" \in DOMAIN job
               /\ "entry" \in DOMAIN job => job'.entry = job.entry
            \/ /\ failures' = failures + 1
               /\ file' = file /\ wallet' = WalletAfterSave /\ job' = AfterSave
<1>1. job.client \in Clients /\ job.step = "open"
  BY JobIs DEF OpenSave
<1>2. CASE /\ Works
           /\ file' = [file EXCEPT ![job.client] = EmptyFile]
           /\ job' = [job EXCEPT !.step = "write"]
           /\ UNCHANGED wallet
  <2>1. /\ file' \in [Clients -> Files] /\ file'[job.client] = EmptyFile
        /\ \A d \in Clients : d # job.client => file'[d] = file[d]
    BY <1>1, <1>2, FilesAre, FilePut DEF WalletTypes
  <2>2. /\ job' \in Jobs /\ job'.step = "write" /\ job'.client = job.client
        /\ job'.by = job.by /\ "by" \in DOMAIN job'
        /\ "entry" \in DOMAIN job' <=> "entry" \in DOMAIN job
        /\ "entry" \in DOMAIN job => job'.entry = job.entry
    BY <1>1, <1>2, JobOpened
  <2> QED
    BY <1>1, <1>2, <2>1, <2>2 DEF Works
<1>3. CASE /\ Fails
           /\ job' = AfterSave
           /\ wallet' = WalletAfterSave
           /\ UNCHANGED file
  BY <1>1, <1>3 DEF Fails
<1> QED
  BY <1>2, <1>3 DEF OpenSave

(* SpillSave writes a part of the wallet.                                  *)
LEMMA SpillSaveDoes ==
  ASSUME WalletTypes, job \in Jobs, JobLoaded, SpillSave
  PROVE  LET c == job.client IN
         /\ c \in Clients /\ job.step = "write" /\ wallet[c] # << >> /\ wallet[c][1] \in Wallets
         /\ file' \in [Clients -> Files] /\ file'[c] \in PartsOf(wallet[c][1])
         /\ \A d \in Clients : d # c => file'[d] = file[d]
         /\ wallet' = wallet /\ job' = job
<1>1. job.client \in Clients /\ job.step = "write" /\ job # Idle
  BY JobIs DEF SpillSave
<1>2. wallet[job.client] # << >> /\ wallet[job.client][1] \in Wallets
  BY <1>1, WalletLoaded DEF WalletTypes, JobLoaded
<1>3. PICK part \in PartsOf(wallet[job.client][1]) :
             file' = [file EXCEPT ![job.client] = part]
  BY DEF SpillSave
<1>4. part \in Files
  BY <1>2, PartsAre
<1>5. /\ file' \in [Clients -> Files] /\ file'[job.client] = part
      /\ \A d \in Clients : d # job.client => file'[d] = file[d]
  BY <1>1, <1>3, <1>4, FilePut DEF WalletTypes
<1> QED
  BY <1>1, <1>2, <1>5 DEF SpillSave

(* CloseSave writes the wallet, or fails, and goes on.                     *)
LEMMA CloseSaveDoes ==
  ASSUME WalletTypes, job \in Jobs, JobLoaded, CloseSave
  PROVE  LET c == job.client IN
         /\ c \in Clients /\ job.step = "write" /\ wallet[c] # << >> /\ wallet[c][1] \in Wallets
         /\ file' \in [Clients -> Files]
         /\ \A d \in Clients : d # c => file'[d] = file[d]
         /\ \/ failures' = failures /\ file'[c] = Saved(wallet[c][1])
            \/ failures' = failures + 1 /\ file'[c] = file[c]
         /\ wallet' = WalletAfterSave /\ job' = AfterSave
<1>1. job.client \in Clients /\ job.step = "write" /\ job # Idle
  BY JobIs DEF CloseSave
<1>2. wallet[job.client] # << >> /\ wallet[job.client][1] \in Wallets
  BY <1>1, WalletLoaded DEF WalletTypes, JobLoaded
<1>3. CASE Works /\ file' = [file EXCEPT ![job.client] = Saved(wallet[job.client][1])]
  <2>1. Saved(wallet[job.client][1]) \in Files
    BY <1>2, FilesAre
  <2>2. /\ file' \in [Clients -> Files] /\ file'[job.client] = Saved(wallet[job.client][1])
        /\ \A d \in Clients : d # job.client => file'[d] = file[d]
    BY <1>1, <1>3, <2>1, FilePut DEF WalletTypes
  <2> QED
    BY <1>1, <1>2, <1>3, <2>2 DEF CloseSave, Works
<1>4. CASE Fails /\ UNCHANGED file
  BY <1>1, <1>2, <1>4 DEF CloseSave, Fails, WalletTypes
<1> QED
  BY <1>3, <1>4 DEF CloseSave

(* CreateWalletFile.                                                       *)
LEMMA OpenWalletDoes ==
  ASSUME WalletTypes, clerk \in Clerks, OpenWallet
  PROVE  LET c == clerk.client IN
         /\ c \in Clients /\ clerk.step = "openWallet" /\ "client" \in DOMAIN clerk
         /\ \/ /\ failures' = failures /\ users' = users
               /\ file' \in [Clients -> Files] /\ file'[c] = EmptyFile
               /\ \A d \in Clients : d # c => file'[d] = file[d]
               /\ clerk' \in Clerks /\ clerk'.step = "fillWallet"
               /\ "client" \in DOMAIN clerk' /\ clerk'.client = c
            \/ /\ failures' = failures + 1 /\ users' = users \ {c} /\ file' = file
               /\ clerk' \in Clerks /\ clerk'.step = "openUsers" /\ clerk'.next = "undone"
               /\ "client" \in DOMAIN clerk' /\ clerk'.client = c
<1>1. clerk.client \in Clients /\ clerk.step = "openWallet" /\ "client" \in DOMAIN clerk
  BY ClerkIs DEF OpenWallet
<1>2. CASE /\ Works
           /\ file' = [file EXCEPT ![clerk.client] = EmptyFile]
           /\ clerk' = [clerk EXCEPT !.step = "fillWallet"]
           /\ UNCHANGED users
  <2>1. /\ file' \in [Clients -> Files] /\ file'[clerk.client] = EmptyFile
        /\ \A d \in Clients : d # clerk.client => file'[d] = file[d]
    BY <1>1, <1>2, FilesAre, FilePut DEF WalletTypes
  <2>2. /\ clerk' \in Clerks /\ clerk'.step = "fillWallet"
        /\ "client" \in DOMAIN clerk' /\ clerk'.client = clerk.client
    BY <1>1, <1>2, ClerkOpened
  <2> QED
    BY <1>1, <1>2, <2>1, <2>2 DEF Works
<1>3. CASE /\ Fails
           /\ users' = users \ {clerk.client}
           /\ clerk' = [step |-> "openUsers", client |-> clerk.client, next |-> "undone"]
           /\ UNCHANGED file
  <2>1. /\ clerk' \in Clerks /\ clerk'.step = "openUsers" /\ clerk'.next = "undone"
        /\ "client" \in DOMAIN clerk' /\ clerk'.client = clerk.client
    BY <1>1, <1>3, ClerksBegun
  <2> QED
    BY <1>1, <1>3, <2>1 DEF Fails
<1> QED
  BY <1>2, <1>3 DEF OpenWallet

LEMMA NewWalletIs ==
  /\ NewWallet \in Wallets
  /\ NewWallet.account \in Account /\ NewWallet.history = << >>
  /\ NewWallet.account.granted /\ NewWallet.account.trades = {}
<1> DEFINE a == [granted |-> TRUE, trades |-> {}]
<1>1. a \in Account /\ a.granted /\ a.trades = {}
  BY Parts
<1>2. << >> \in Seq(Entry)
  OBVIOUS
<1>3. NewWallet = [account |-> a, history |-> << >>]
  BY DEF NewWallet
<1> HIDE DEF a
<1> QED
  BY <1>1, <1>2, <1>3, Parts

LEMMA FillWalletDoes ==
  ASSUME WalletTypes, clerk \in Clerks, FillWallet
  PROVE  LET c == clerk.client IN
         /\ c \in Clients /\ clerk.step = "fillWallet" /\ "client" \in DOMAIN clerk
         /\ file' \in [Clients -> Files]
         /\ \A d \in Clients : d # c => file'[d] = file[d]
         /\ \/ failures' = failures /\ file'[c] = Saved(NewWallet)
            \/ failures' = failures + 1 /\ file'[c] = file[c]
         /\ clerk' = Idle
<1>1. clerk.client \in Clients /\ clerk.step = "fillWallet" /\ "client" \in DOMAIN clerk
  BY ClerkIs DEF FillWallet
<1>2. CASE Works /\ file' = [file EXCEPT ![clerk.client] = Saved(NewWallet)]
  <2>1. Saved(NewWallet) \in Files
    BY NewWalletIs, FilesAre
  <2>2. /\ file' \in [Clients -> Files] /\ file'[clerk.client] = Saved(NewWallet)
        /\ \A d \in Clients : d # clerk.client => file'[d] = file[d]
    BY <1>1, <1>2, <2>1, FilePut DEF WalletTypes
  <2> QED
    BY <1>1, <1>2, <2>2 DEF FillWallet, Works
<1>3. CASE Fails /\ UNCHANGED file
  BY <1>1, <1>3 DEF FillWallet, Fails, WalletTypes
<1> QED
  BY <1>2, <1>3 DEF FillWallet

-----------------------------------------------------------------------------
(* Types, and who holds what.                                              *)

(* Nothing is in progress when the server is down; the clerk has finished  *)
(* when the sessions are destroyed, the worker when the pool is joined.    *)
Quiet ==
  /\ phase \in {"down", "destroying"} => clerk = Idle
  /\ phase \in {"down", "joiningPool"} => job = Idle
  /\ phase = "down" => \A c \in Clients : wallet[c] = << >>

(* Only a wallet that is loaded is saved or written to, only a registered  *)
(* user has one, and not before the registration is over.                  *)
LoadedOnce ==
  /\ JobLoaded
  /\ \A c \in Clients : BeingRegistered(c) => wallet[c] = << >>
  /\ \A c \in Clients : wallet[c] # << >> => c \in users

Sound == TypeOK /\ Quiet /\ LoadedOnce

LEMMA SoundTypes ==
  Sound => /\ WalletTypes /\ job \in Jobs /\ clerk \in Clerks /\ JobLoaded /\ ids \in Nat
           /\ TypeOK /\ Quiet /\ LoadedOnce
BY DEF Sound, TypeOK, WalletTypes, LoadedOnce

LEMMA IdleIs ==
  Idle.step = "idle" /\ "client" \notin DOMAIN Idle /\ "by" \notin DOMAIN Idle
  /\ "entry" \notin DOMAIN Idle /\ Idle \in Jobs /\ Idle \in Clerks
BY JobsBegun, ClerksBegun DEF Idle

(* Starting and stopping.                                                  *)
LEMMA SoundShutdown == Sound /\ (Start \/ Killed \/ Shutdown) => Sound'
<1> SUFFICES ASSUME Sound, Start \/ Killed \/ Shutdown PROVE Sound'
  OBVIOUS
<1> USE DEF userVars, walletVars, counterVars, bounds
<1>0. TypeOK /\ Quiet /\ LoadedOnce /\ job \in Jobs /\ clerk \in Clerks
  BY SoundTypes
<1>a. /\ << >> \in AtMostOne(Nat) /\ << >> \in AtMostOne(Wallets)
      /\ \A n \in Nat : <<n>> \in AtMostOne(Nat)
      /\ \A s \in AtMostOne(Nat) : s # << >> => s[1] \in Nat
  BY OneOrNone
<1>1. CASE Start
  <2>1. LoadedCounter \in Nat
    BY <1>0, <1>a DEF LoadedCounter, TypeOK
  <2>2. TypeOK'
    BY <1>0, <1>1, <2>1 DEF Start, TypeOK, Serving, LoadedUsers
  <2>3. Quiet'
    BY <1>0, <1>1 DEF Start, Quiet
  <2>4. LoadedOnce'
    BY <1>0, <1>1 DEF Start, Quiet, LoadedOnce, JobLoaded, BeingRegistered
  <2> QED
    BY <2>2, <2>3, <2>4 DEF Sound
<1>2. CASE Killed
  <2>2. TypeOK'
    BY <1>0, <1>2, <1>a, IdleIs DEF Killed, TypeOK
  <2>3. Quiet'
    BY <1>2 DEF Killed, Quiet
  <2>4. LoadedOnce'
    BY <1>2 DEF Killed, LoadedOnce, JobLoaded
  <2> QED
    BY <2>2, <2>3, <2>4 DEF Sound
<1>3. CASE StopServer
  <2>2. TypeOK'
    BY <1>0, <1>3 DEF StopServer, TypeOK, Serving
  <2>3. Quiet'
    BY <1>0, <1>3 DEF StopServer, Quiet
  <2>4. LoadedOnce'
    BY <1>0, <1>3 DEF StopServer, LoadedOnce, JobLoaded, BeingRegistered
  <2> QED
    BY <2>2, <2>3, <2>4 DEF Sound
<1>4. CASE SaveUsers
  <2>1. clerk' \in Clerks /\ "client" \notin DOMAIN clerk'
    BY <1>4, ClerksBegun DEF SaveUsers
  <2>2. TypeOK'
    BY <1>0, <1>4, <2>1 DEF SaveUsers, TypeOK
  <2>3. Quiet'
    BY <1>0, <1>4 DEF SaveUsers, Quiet
  <2>4. LoadedOnce'
    BY <1>0, <1>4, <2>1 DEF SaveUsers, LoadedOnce, JobLoaded, BeingRegistered
  <2> QED
    BY <2>2, <2>3, <2>4 DEF Sound
<1>5. CASE OpenCounter
  <2>1. failures' \in Nat /\ counterFile' \in AtMostOne(Nat) /\ phase' \in {"openCounter", "draining"}
    BY <1>0, <1>5, <1>a DEF OpenCounter, Works, Fails, TypeOK
  <2>2. TypeOK'
    BY <1>0, <1>5, <2>1 DEF OpenCounter, TypeOK, Serving
  <2>3. Quiet'
    BY <1>0, <1>5, <2>1 DEF OpenCounter, Quiet
  <2>4. LoadedOnce'
    BY <1>0, <1>5 DEF OpenCounter, LoadedOnce, JobLoaded, BeingRegistered
  <2> QED
    BY <2>2, <2>3, <2>4 DEF Sound
<1>6. CASE WriteCounter
  <2>1. failures' \in Nat /\ counterFile' \in AtMostOne(Nat)
    BY <1>0, <1>6, <1>a DEF WriteCounter, Works, Fails, TypeOK
  <2>2. TypeOK'
    BY <1>0, <1>6, <2>1 DEF WriteCounter, TypeOK, Serving
  <2>3. Quiet'
    BY <1>0, <1>6, <2>1 DEF WriteCounter, Quiet
  <2>4. LoadedOnce'
    BY <1>0, <1>6 DEF WriteCounter, LoadedOnce, JobLoaded, BeingRegistered
  <2> QED
    BY <2>2, <2>3, <2>4 DEF Sound
<1>7. CASE QueueStopped
  <2>2. TypeOK'
    BY <1>0, <1>7 DEF QueueStopped, TypeOK
  <2>3. Quiet'
    BY <1>0, <1>7 DEF QueueStopped, Quiet
  <2>4. LoadedOnce'
    BY <1>0, <1>7 DEF QueueStopped, LoadedOnce, JobLoaded, BeingRegistered
  <2> QED
    BY <2>2, <2>3, <2>4 DEF Sound
<1>8. CASE PoolStopped
  <2>2. TypeOK'
    BY <1>0, <1>8 DEF PoolStopped, TypeOK
  <2>3. Quiet'
    BY <1>0, <1>8 DEF PoolStopped, Quiet
  <2>4. LoadedOnce'
    BY <1>0, <1>8 DEF PoolStopped, LoadedOnce, JobLoaded, BeingRegistered
  <2> QED
    BY <2>2, <2>3, <2>4 DEF Sound
<1>9. CASE Exit
  <2>2. TypeOK'
    BY <1>0, <1>9 DEF Exit, TypeOK
  <2>3. Quiet'
    BY <1>0, <1>9 DEF Exit, Quiet
  <2>4. LoadedOnce'
    BY <1>0, <1>9 DEF Exit, LoadedOnce, JobLoaded, BeingRegistered
  <2> QED
    BY <2>2, <2>3, <2>4 DEF Sound
<1>10. ASSUME NEW c \in Clients, DestroySession(c) PROVE Sound'
  <2>1. job' \in Jobs /\ job'.client = c
    BY <1>10, JobsBegun DEF DestroySession
  <2>2. TypeOK'
    BY <1>0, <1>10, <2>1 DEF DestroySession, TypeOK
  <2>3. Quiet'
    BY <1>0, <1>10 DEF DestroySession, Quiet
  <2>4. LoadedOnce'
    BY <1>0, <1>10, <2>1 DEF DestroySession, LoadedOnce, JobLoaded, BeingRegistered
  <2> QED
    BY <2>2, <2>3, <2>4 DEF Sound
<1> QED
  BY <1>1, <1>2, <1>3, <1>4, <1>5, <1>6, <1>7, <1>8, <1>9, <1>10 DEF Shutdown

(* Registration and the opening of sessions.                               *)
LEMMA SoundRegistration == Sound /\ Registration => Sound'
<1> SUFFICES ASSUME Sound, Registration PROVE Sound'
  OBVIOUS
<1> USE DEF userVars, walletVars, counterVars, bounds
<1>0. /\ TypeOK /\ Quiet /\ LoadedOnce /\ WalletTypes /\ job \in Jobs /\ clerk \in Clerks
  BY SoundTypes
<1>a. phase' = phase \/ phase' = "savingCounter"
  BY DEF Registration, OpenUsers, WriteUsers, OpenWallet, FillWallet, Register, OpenSession,
         PhaseAfterUsers
<1>b. ASSUME OpenUsers \/ WriteUsers PROVE clerk.step \in {"openUsers", "writeUsers"}
  BY <1>b DEF OpenUsers, WriteUsers
<1>1. CASE OpenUsers \/ WriteUsers
  <2>1. /\ AfterUsers \in Clerks
        /\ \A c \in Clients : "client" \in DOMAIN AfterUsers /\ AfterUsers.client = c
                                => BeingRegistered(c)
    BY <1>0, <1>1, <1>b, ClerkWrote, ClerkIs, IdleIs DEF BeingRegistered
  <2>2. clerk.step = "openUsers" =>
          LET l == [clerk EXCEPT !.step = "writeUsers"]
          IN  /\ l \in Clerks
              /\ \A c \in Clients : "client" \in DOMAIN l /\ l.client = c => BeingRegistered(c)
    BY <1>0, ClerkOpened DEF BeingRegistered
  <2>3. clerk' \in Clerks /\ \A c \in Clients : BeingRegistered(c)' => BeingRegistered(c)
    BY <1>1, <2>1, <2>2 DEF OpenUsers, WriteUsers, BeingRegistered
  <2>4. failures' \in Nat /\ usersFile' \in SUBSET Clients
    BY <1>0, <1>1 DEF OpenUsers, WriteUsers, Works, Fails, TypeOK
  <2>5. UNCHANGED <<users, wallet, file, job, counter, counterFile, ids, starts, kills>>
    BY <1>1 DEF OpenUsers, WriteUsers
  <2>6. TypeOK'
    BY <1>0, <1>a, <2>3, <2>4, <2>5 DEF TypeOK, Serving
  <2>7. clerk # Idle
    BY <1>1, <1>b, IdleIs
  <2>8. Quiet'
    BY <1>0, <1>a, <2>5, <2>7 DEF Quiet
  <2>9. LoadedOnce'
    BY <1>0, <2>3, <2>5 DEF LoadedOnce, JobLoaded
  <2> QED
    BY <2>6, <2>8, <2>9 DEF Sound
<1>2. CASE OpenWallet
  <2>1. LET c == clerk.client IN
         /\ c \in Clients /\ clerk.step = "openWallet" /\ "client" \in DOMAIN clerk
         /\ failures' \in Nat /\ users' \in SUBSET Clients /\ users \ {c} \subseteq users'
         /\ file' \in [Clients -> Files]
         /\ clerk' \in Clerks /\ "client" \in DOMAIN clerk' /\ clerk'.client = c
    BY <1>0, <1>2, OpenWalletDoes DEF TypeOK
  <2>2. TypeOK'
    BY <1>0, <1>2, <2>1 DEF OpenWallet, TypeOK
  <2>3. clerk # Idle
    BY <2>1, IdleIs
  <2>4. Quiet'
    BY <1>0, <1>2, <2>3 DEF OpenWallet, Quiet
  <2>5. LoadedOnce'
    BY <1>0, <1>2, <2>1 DEF OpenWallet, LoadedOnce, JobLoaded, BeingRegistered
  <2> QED
    BY <2>2, <2>4, <2>5 DEF Sound
<1>3. CASE FillWallet
  <2>1. file' \in [Clients -> Files] /\ clerk' = Idle /\ failures' \in Nat /\ clerk # Idle
    BY <1>0, <1>3, FillWalletDoes, IdleIs DEF TypeOK
  <2>2. TypeOK'
    BY <1>0, <1>3, <2>1, IdleIs DEF FillWallet, TypeOK
  <2>4. Quiet'
    BY <1>0, <1>3, <2>1 DEF FillWallet, Quiet
  <2>5. LoadedOnce'
    BY <1>0, <1>3, <2>1, IdleIs DEF FillWallet, LoadedOnce, JobLoaded, BeingRegistered
  <2> QED
    BY <2>2, <2>4, <2>5 DEF Sound
<1>4. ASSUME NEW c \in Clients, Register(c) PROVE Sound'
  <2>1. /\ clerk' \in Clerks /\ "client" \in DOMAIN clerk' /\ clerk'.client = c
    BY <1>4, ClerksBegun DEF Register
  <2>2. TypeOK'
    BY <1>0, <1>4, <2>1 DEF Register, TypeOK
  <2>4. Quiet'
    BY <1>0, <1>4 DEF Register, Quiet, PoolRuns, Serving
  <2>5. LoadedOnce'
    BY <1>0, <1>4, <2>1 DEF Register, LoadedOnce, JobLoaded, BeingRegistered
  <2> QED
    BY <2>2, <2>4, <2>5 DEF Sound
<1>5. ASSUME NEW c \in Clients, OpenSession(c) PROVE Sound'
  <2>1. /\ wallet' \in [Clients -> AtMostOne(Wallets)]
        /\ wallet'[c] # << >> /\ \A d \in Clients : d # c => wallet'[d] = wallet[d]
    BY <1>0, <1>5, OpenSessionDoes
  <2>2. TypeOK'
    BY <1>0, <1>5, <2>1 DEF OpenSession, TypeOK
  <2>4. Quiet'
    BY <1>0, <1>5 DEF OpenSession, Quiet, PoolRuns, Serving
  <2>5. job # Idle => job.client \in Clients
    BY <1>0, JobIs
  <2>6. LoadedOnce'
    BY <1>0, <1>5, <2>1, <2>5 DEF OpenSession, LoadedOnce, JobLoaded, BeingRegistered
  <2> QED
    BY <2>2, <2>4, <2>6 DEF Sound
<1> QED
  BY <1>1, <1>2, <1>3, <1>4, <1>5 DEF Registration

(* After a save, the job and the wallet.                                   *)
LEMMA SaveGoesOn ==
  ASSUME Sound, job.step \in {"open", "write"}, job' = AfterSave, wallet' = WalletAfterSave
  PROVE  /\ job' \in Jobs /\ wallet' \in [Clients -> AtMostOne(Wallets)]
         /\ job' # Idle => job'.client = job.client /\ wallet'[job.client] = wallet[job.client]
         /\ \A d \in Clients : wallet'[d] # << >> => wallet'[d] = wallet[d]
         /\ "entry" \in DOMAIN job' <=> "entry" \in DOMAIN job
         /\ "entry" \in DOMAIN job => job'.entry = job.entry
         /\ job.client \in Clients /\ wallet[job.client] # << >>
         /\ \A d \in Clients : "by" \in DOMAIN job /\ job.client = d
                                 /\ ~ ("by" \in DOMAIN job' /\ job'.client = d)
                                 /\ wallet'[d] # << >> => job.by = "worker"
<1>0. /\ WalletTypes /\ job \in Jobs /\ JobLoaded
  BY SoundTypes
<1>1. /\ "by" \in DOMAIN job /\ job.by \in {"worker", "session", "destructor"}
      /\ job.client \in Clients /\ job # Idle
      /\ "entry" \in DOMAIN job <=> job.by = "worker"
  BY <1>0, JobIs
<1>2. wallet[job.client] # << >>
  BY <1>0, <1>1 DEF JobLoaded
<1>3. /\ AfterSave \in Jobs
      /\ job.by = "worker" => /\ AfterSave.client = job.client
                              /\ "entry" \in DOMAIN AfterSave /\ AfterSave.entry = job.entry
      /\ job.by = "session" => /\ AfterSave.client = job.client
                               /\ "entry" \notin DOMAIN AfterSave /\ "by" \in DOMAIN AfterSave
      /\ job.by = "destructor" => AfterSave = Idle /\ "entry" \notin DOMAIN AfterSave
  BY <1>0, <1>1, JobSaved, IdleIs
<1>4. /\ WalletAfterSave \in [Clients -> AtMostOne(Wallets)]
      /\ job.by = "destructor" => WalletAfterSave[job.client] = << >>
      /\ \A d \in Clients : job.by # "destructor" \/ d # job.client
                              => WalletAfterSave[d] = wallet[d]
  BY <1>0, WalletAfterSaveIs
<1>5. CASE job.by = "worker"
  BY <1>1, <1>2, <1>3, <1>4, <1>5
<1>6. CASE job.by = "session"
  BY <1>1, <1>2, <1>3, <1>4, <1>6
<1>7. CASE job.by = "destructor"
  BY <1>1, <1>2, <1>3, <1>4, <1>7
<1> QED
  BY <1>1, <1>5, <1>6, <1>7

(* The worker and the destructors.                                         *)
LEMMA SoundWorker == Sound /\ Worker => Sound'
<1> SUFFICES ASSUME Sound, Worker PROVE Sound'
  OBVIOUS
<1> USE DEF userVars, walletVars, counterVars, bounds
<1>0. /\ TypeOK /\ Quiet /\ LoadedOnce /\ WalletTypes /\ job \in Jobs /\ clerk \in Clerks
      /\ JobLoaded /\ ids \in Nat
  BY SoundTypes
<1>1. CASE Discard
  <2>1. ids' \in Nat /\ counter' \in Nat
    BY <1>0, <1>1 DEF Discard, NewId, TypeOK
  <2>2. TypeOK'
    BY <1>0, <1>1, <2>1 DEF Discard, TypeOK
  <2>3. Quiet' /\ LoadedOnce'
    BY <1>0, <1>1 DEF Discard, Quiet, LoadedOnce, JobLoaded, BeingRegistered
  <2> QED
    BY <2>2, <2>3 DEF Sound
<1>2. CASE OpenSave
  <2>1. job.step = "open" /\ job # Idle /\ failures' \in Nat /\ file' \in [Clients -> Files]
    BY <1>0, <1>2, OpenSaveDoes, IdleIs DEF TypeOK, WalletTypes
  <2>2. /\ job' \in Jobs /\ wallet' \in [Clients -> AtMostOne(Wallets)]
        /\ job' # Idle => job'.client = job.client /\ wallet'[job.client] = wallet[job.client]
        /\ \A d \in Clients : wallet'[d] # << >> => wallet'[d] = wallet[d]
        /\ job.client \in Clients /\ wallet[job.client] # << >>
    <3>1. job.client \in Clients /\ wallet[job.client] # << >>
      BY <1>0, <2>1, JobIs DEF JobLoaded
    <3>2. CASE job' = AfterSave /\ wallet' = WalletAfterSave
      BY <2>1, <3>2, SaveGoesOn
    <3>3. CASE wallet' = wallet /\ job' \in Jobs /\ job'.client = job.client
      BY <1>0, <3>1, <3>3 DEF WalletTypes
    <3> QED
      BY <1>0, <1>2, <3>2, <3>3, OpenSaveDoes
  <2>3. TypeOK'
    BY <1>0, <1>2, <2>1, <2>2 DEF OpenSave, TypeOK
  <2>4. Quiet'
    BY <1>0, <1>2, <2>1, <2>2 DEF OpenSave, Quiet
  <2>5. LoadedOnce'
    BY <1>0, <1>2, <2>2 DEF OpenSave, LoadedOnce, JobLoaded, BeingRegistered
  <2> QED
    BY <2>3, <2>4, <2>5 DEF Sound
<1>3. CASE SpillSave
  <2>1. file' \in [Clients -> Files]
    BY <1>0, <1>3, SpillSaveDoes
  <2>2. TypeOK'
    BY <1>0, <1>3, <2>1 DEF SpillSave, TypeOK
  <2>3. Quiet' /\ LoadedOnce'
    BY <1>0, <1>3 DEF SpillSave, Quiet, LoadedOnce, JobLoaded, BeingRegistered
  <2> QED
    BY <2>2, <2>3 DEF Sound
<1>4. CASE CloseSave
  <2>1. /\ job.step = "write" /\ job # Idle /\ failures' \in Nat /\ file' \in [Clients -> Files]
        /\ job' = AfterSave /\ wallet' = WalletAfterSave
    BY <1>0, <1>4, CloseSaveDoes, IdleIs DEF TypeOK
  <2>2. /\ job' \in Jobs /\ wallet' \in [Clients -> AtMostOne(Wallets)]
        /\ job' # Idle => job'.client = job.client /\ wallet'[job.client] = wallet[job.client]
        /\ \A d \in Clients : wallet'[d] # << >> => wallet'[d] = wallet[d]
        /\ job.client \in Clients /\ wallet[job.client] # << >>
    BY <2>1, SaveGoesOn
  <2>3. TypeOK'
    BY <1>0, <1>4, <2>1, <2>2 DEF CloseSave, TypeOK
  <2>4. Quiet'
    BY <1>0, <1>4, <2>1, <2>2 DEF CloseSave, Quiet
  <2>5. LoadedOnce'
    BY <1>0, <1>4, <2>2 DEF CloseSave, LoadedOnce, JobLoaded, BeingRegistered
  <2> QED
    BY <2>3, <2>4, <2>5 DEF Sound
<1>5. CASE AddTransaction
  <2>1. LET c == job.client IN
        /\ c \in Clients /\ wallet[c] # << >>
        /\ wallet' \in [Clients -> AtMostOne(Wallets)]
        /\ \A d \in Clients : d # c => wallet'[d] = wallet[d]
        /\ job' = Idle
    BY <1>0, <1>5, AddTransactionDoes
  <2>2. job # Idle
    BY <1>5, IdleIs DEF AddTransaction
  <2>3. TypeOK'
    BY <1>0, <1>5, <2>1, IdleIs DEF AddTransaction, TypeOK
  <2>4. Quiet'
    BY <1>0, <1>5, <2>1, <2>2 DEF AddTransaction, Quiet
  <2>5. LoadedOnce'
    BY <1>0, <1>5, <2>1 DEF AddTransaction, LoadedOnce, JobLoaded, BeingRegistered
  <2> QED
    BY <2>3, <2>4, <2>5 DEF Sound
<1>6. ASSUME NEW c \in Clients, Refuse(c) PROVE Sound'
  <2>1. job' \in Jobs /\ job'.client = c /\ ids' \in Nat
    BY <1>0, <1>6, RefuseDoes
  <2>2. counter' \in Nat /\ phase \in Serving /\ phase' = phase /\ wallet[c] # << >>
    BY <1>0, <1>6 DEF Refuse, NewId, TypeOK
  <2>3. TypeOK'
    BY <1>0, <1>6, <2>1, <2>2 DEF Refuse, TypeOK
  <2>4. Quiet'
    BY <2>2 DEF Quiet, Serving
  <2>5. LoadedOnce'
    BY <1>0, <1>6, <2>1, <2>2 DEF Refuse, LoadedOnce, JobLoaded, BeingRegistered
  <2> QED
    BY <2>3, <2>4, <2>5 DEF Sound
<1>7. ASSUME NEW c \in Clients, Settle(c) PROVE Sound'
  <2>1. /\ job' \in Jobs /\ job'.client = c /\ ids' \in Nat
        /\ wallet[c] # << >> /\ wallet' \in [Clients -> AtMostOne(Wallets)] /\ wallet'[c] # << >>
        /\ \A d \in Clients : d # c => wallet'[d] = wallet[d]
    BY <1>0, <1>7, SettleDoes
  <2>2. counter' \in Nat /\ phase \in Serving /\ phase' = phase
    BY <1>0, <1>7 DEF Settle, NewId, TypeOK
  <2>3. TypeOK'
    BY <1>0, <1>7, <2>1, <2>2 DEF Settle, TypeOK
  <2>4. Quiet'
    BY <2>2 DEF Quiet, Serving
  <2>5. LoadedOnce'
    BY <1>0, <1>7, <2>1 DEF Settle, LoadedOnce, JobLoaded, BeingRegistered
  <2> QED
    BY <2>3, <2>4, <2>5 DEF Sound
<1> QED
  BY <1>1, <1>2, <1>3, <1>4, <1>5, <1>6, <1>7 DEF Worker

LEMMA SoundHolds == Spec => []Sound
<1>1. Init => Sound
  <2> SUFFICES ASSUME Init PROVE Sound
    OBVIOUS
  <2>1. /\ << >> \in AtMostOne(Nat) /\ << >> \in AtMostOne(Wallets)
    BY OneOrNone
  <2>2. TypeOK
    BY <2>1, IdleIs, FilesAre DEF Init, TypeOK
  <2>3. Quiet /\ LoadedOnce
    BY IdleIs DEF Init, Quiet, LoadedOnce, JobLoaded, BeingRegistered
  <2> QED
    BY <2>2, <2>3 DEF Sound
<1>2. Sound /\ [Next]_vars => Sound'
  <2>1. Sound /\ UNCHANGED vars => Sound'
    BY DEF vars, Sound, TypeOK, Quiet, LoadedOnce, JobLoaded, BeingRegistered
  <2> QED
    BY <2>1, SoundShutdown, SoundRegistration, SoundWorker DEF Next
<1> QED
  BY <1>1, <1>2, PTL DEF Spec

(* The variables have their types.                                         *)
THEOREM StoreTypeCorrect == Spec => []TypeOK
<1>1. Sound => TypeOK
  BY DEF Sound
<1> QED
  BY <1>1, SoundHolds, PTL

-----------------------------------------------------------------------------
(* Histories and accounts.                                                 *)

(* The newest identifier a history may hold: that of the transaction in    *)
(* progress enters last.                                                   *)
Told == IF "entry" \in DOMAIN job THEN ids - 1 ELSE ids

GoodHistory(h, trades, n) ==
  CompletedIn(h) \subseteq trades /\ Increasing(h) /\ IdsUpTo(h, n)

GoodWallet(w, n) == GoodHistory(w.history, w.account.trades, n)

GoodFile(f, n) ==
  /\ f.account # << >> => CompletedIn(f.history) \subseteq f.account[1].trades
  /\ Increasing(f.history)
  /\ IdsUpTo(f.history, n)

(* The transaction in progress has the last identifier made, and if it is  *)
(* completed the account knows of it.                                      *)
InProgress ==
  "entry" \in DOMAIN job =>
    /\ job.entry.id = ids
    /\ job.entry.status = "COMPLETED" => ids \in wallet[job.client][1].account.trades

Histories ==
  /\ \A c \in Clients : wallet[c] # << >> => GoodWallet(wallet[c][1], Told)
  /\ \A c \in Clients : GoodFile(file[c], Told)
  /\ InProgress

LEMMA IdsLater ==
  ASSUME NEW h \in Seq(Entry), NEW m \in Int, NEW n \in Int, m <= n, IdsUpTo(h, m)
  PROVE  IdsUpTo(h, n)
<1> SUFFICES ASSUME NEW i \in 1 .. Len(h) PROVE h[i].id <= n
  BY DEF IdsUpTo
<1>1. h[i] \in Entry /\ h[i].id <= m
  BY DEF IdsUpTo
<1>2. h[i].id \in Nat
  BY <1>1, EntriesAre
<1> QED
  BY <1>1, <1>2

LEMMA GoodLater ==
  ASSUME NEW m \in Int, NEW n \in Int, m <= n
  PROVE  /\ \A w \in Wallets : GoodWallet(w, m) => GoodWallet(w, n)
         /\ \A f \in Files : GoodFile(f, m) => GoodFile(f, n)
<1>1. ASSUME NEW w \in Wallets, GoodWallet(w, m) PROVE GoodWallet(w, n)
  <2>1. w.history \in Seq(Entry)
    BY Parts
  <2> QED
    BY <1>1, <2>1, IdsLater DEF GoodWallet, GoodHistory
<1>2. ASSUME NEW f \in Files, GoodFile(f, m) PROVE GoodFile(f, n)
  <2>1. f.history \in Seq(Entry)
    BY Parts
  <2> QED
    BY <1>2, <2>1, IdsLater DEF GoodFile
<1> QED
  BY <1>1, <1>2

LEMMA NoHistory ==
  /\ CompletedIn(<< >>) = {}
  /\ Increasing(<< >>)
  /\ \A n : IdsUpTo(<< >>, n)
BY DEF CompletedIn, Increasing, IdsUpTo

(* Files a step may leave behind.                                          *)
LEMMA GoodFiles ==
  ASSUME NEW n \in Int
  PROVE  /\ GoodFile(NoFile, n) /\ GoodFile(EmptyFile, n) /\ GoodFile(Saved(NewWallet), n)
         /\ \A w \in Wallets : GoodWallet(w, n) => GoodFile(Saved(w), n)
         /\ \A w \in Wallets : GoodWallet(w, n) => \A p \in PartsOf(w) : GoodFile(p, n)
<1>1. GoodFile(NoFile, n) /\ GoodFile(EmptyFile, n)
  BY FilesAre, NoHistory DEF GoodFile
<1>2. ASSUME NEW w \in Wallets, GoodWallet(w, n) PROVE GoodFile(Saved(w), n)
  <2>1. Saved(w).account = <<w.account>> /\ Saved(w).history = w.history
    BY FilesAre
  <2>2. <<w.account>>[1] = w.account
    OBVIOUS
  <2> QED
    BY <1>2, <2>1, <2>2 DEF GoodWallet, GoodHistory, GoodFile
<1>3. ASSUME NEW w \in Wallets, GoodWallet(w, n), NEW p \in PartsOf(w) PROVE GoodFile(p, n)
  <2>1. p.account = << >> \/ p.account = <<w.account>>
    BY PartsAre
  <2>2. TellsLess(p.history, w.history)
    BY PartsAre
  <2>3. <<w.account>>[1] = w.account
    OBVIOUS
  <2> QED
    BY <1>3, <2>1, <2>2, <2>3 DEF GoodWallet, GoodHistory, GoodFile, TellsLess
<1>4. GoodWallet(NewWallet, n)
  BY NewWalletIs, NoHistory DEF GoodWallet, GoodHistory
<1> QED
  BY <1>1, <1>2, <1>3, <1>4, NewWalletIs

(* Loading, trading and telling.                                           *)
LEMMA GoodLoaded ==
  ASSUME NEW f \in Files, NEW n \in Int, GoodFile(f, n)
  PROVE  GoodWallet(Loaded(f), n)
<1>1. f.history \in Seq(Entry)
  BY Parts
<1>2. CASE f.account = << >> \/ f.history = << >>
  <2>1. Loaded(f).history = << >>
    BY <1>2, LoadedIs
  <2> QED
    BY <2>1, NoHistory DEF GoodWallet, GoodHistory
<1>3. CASE ~ (f.account = << >> \/ f.history = << >>)
  <2>1. Loaded(f).history = Tail(f.history) /\ Loaded(f).account = f.account[1]
    BY <1>3, LoadedIs
  <2>2. TellsLess(Tail(f.history), f.history)
    BY <1>1, <1>3, TailTellsLess
  <2> QED
    BY <1>3, <2>1, <2>2 DEF GoodWallet, GoodHistory, GoodFile, TellsLess
<1> QED
  BY <1>2, <1>3

LEMMA GoodTrading ==
  ASSUME NEW w \in Wallets, NEW n \in Int, NEW k \in Nat, GoodWallet(w, n)
  PROVE  GoodWallet(Trading(w, k), n)
BY TradingIs DEF GoodWallet, GoodHistory

LEMMA GoodTelling ==
  ASSUME NEW w \in Wallets, NEW e \in Entry, GoodWallet(w, e.id - 1),
         e.status = "COMPLETED" => e.id \in w.account.trades
  PROVE  GoodWallet(Telling(w, e), e.id)
<1>1. w.history \in Seq(Entry)
  BY Parts
<1>2. Telling(w, e).account = w.account /\ Telling(w, e).history = Append(w.history, e)
  BY TellingIs
<1> QED
  BY <1>1, <1>2, EntryAdded DEF GoodWallet, GoodHistory

(* A step that changes no history and no file on disk.                     *)
LEMMA HistoriesKept ==
  ASSUME Sound, Histories, Told' \in Int, Told <= Told',
         \A c \in Clients : wallet'[c] # << >> => wallet'[c] = wallet[c]
  PROVE  /\ \A c \in Clients : wallet'[c] # << >> => GoodWallet(wallet'[c][1], Told')
         /\ \A c \in Clients : file'[c] = file[c] => GoodFile(file'[c], Told')
<1>0. WalletTypes /\ Told \in Int
  BY SoundTypes DEF Told
<1>1. ASSUME NEW c \in Clients, wallet'[c] # << >> PROVE GoodWallet(wallet'[c][1], Told')
  <2>1. wallet[c] # << >> /\ wallet'[c][1] = wallet[c][1]
    BY <1>1
  <2>2. wallet[c][1] \in Wallets
    BY <1>0, <2>1, WalletLoaded DEF WalletTypes
  <2>3. GoodWallet(wallet[c][1], Told)
    BY <2>1 DEF Histories
  <2> QED
    BY <1>0, <2>1, <2>2, <2>3, GoodLater
<1>2. ASSUME NEW c \in Clients, file'[c] = file[c] PROVE GoodFile(file'[c], Told')
  <2>1. file[c] \in Files /\ GoodFile(file[c], Told)
    BY <1>0 DEF WalletTypes, Histories
  <2> QED
    BY <1>0, <1>2, <2>1, GoodLater
<1> QED
  BY <1>1, <1>2

(* A step of the worker's job that keeps its entry, if it has one.         *)
LEMMA SameEntry ==
  ASSUME InProgress, ids' = ids,
         "entry" \in DOMAIN job' <=> "entry" \in DOMAIN job,
         "entry" \in DOMAIN job => /\ job'.entry = job.entry
                                   /\ job'.client = job.client
                                   /\ wallet'[job.client] = wallet[job.client]
  PROVE  InProgress' /\ Told' = Told
BY DEF InProgress, Told

LEMMA HistoriesStep == Sound /\ Histories /\ [Next]_vars => Histories'
<1> SUFFICES ASSUME Sound, Histories, [Next]_vars PROVE Histories'
  OBVIOUS
<1> USE DEF userVars, walletVars, counterVars, bounds
<1>0. /\ WalletTypes /\ job \in Jobs /\ clerk \in Clerks /\ JobLoaded /\ ids \in Nat
      /\ Told \in Int /\ Told <= ids /\ ids - 1 <= Told
      /\ InProgress
  BY SoundTypes DEF Told, Histories
<1>a. ASSUME UNCHANGED <<wallet, file, job, ids>> PROVE Histories'
  <2>1. Told' = Told
    BY <1>a DEF Told
  <2> QED
    BY <1>a, <2>1 DEF Histories, InProgress
<1>1. CASE Start \/ StopServer \/ SaveUsers \/ OpenCounter \/ WriteCounter \/ QueueStopped
           \/ PoolStopped \/ Exit \/ OpenUsers \/ WriteUsers
           \/ (\E c \in Clients : Register(c)) \/ UNCHANGED vars
  BY <1>a, <1>1 DEF Start, StopServer, SaveUsers, OpenCounter, WriteCounter, QueueStopped,
     PoolStopped, Exit, OpenUsers, WriteUsers, Register, vars
<1>2. ASSUME NEW c \in Clients, DestroySession(c) PROVE Histories'
  <2>1. job = Idle /\ "entry" \notin DOMAIN job /\ "entry" \notin DOMAIN job'
    BY <1>2, IdleIs, JobsBegun DEF DestroySession
  <2>2. UNCHANGED <<wallet, file, ids>>
    BY <1>2 DEF DestroySession
  <2>3. Told' = Told
    BY <2>1, <2>2 DEF Told
  <2> QED
    BY <2>1, <2>2, <2>3 DEF Histories, InProgress
<1>3. CASE Killed
  <2>1. job' = Idle /\ ids' = ids /\ file' = file /\ \A c \in Clients : wallet'[c] = << >>
    BY <1>3 DEF Killed
  <2>2. Told' = ids /\ "entry" \notin DOMAIN job'
    BY <2>1, IdleIs DEF Told
  <2>3. Told' \in Int /\ Told <= Told'
    BY <1>0, <2>2
  <2> QED
    BY <2>1, <2>2, <2>3, HistoriesKept DEF Histories, InProgress
<1>4. CASE OpenWallet \/ FillWallet
  <2>1. UNCHANGED <<wallet, job, ids>>
    BY <1>4 DEF OpenWallet, FillWallet
  <2>2. Told' = Told
    BY <2>1 DEF Told
  <2>3. \A c \in Clients : file'[c] = file[c] \/ file'[c] = EmptyFile \/ file'[c] = Saved(NewWallet)
    BY <1>0, <1>4, OpenWalletDoes, FillWalletDoes
  <2>4. \A c \in Clients : GoodFile(file'[c], Told')
    BY <1>0, <2>2, <2>3, GoodFiles DEF Histories
  <2> QED
    BY <2>1, <2>2, <2>4 DEF Histories, InProgress
<1>5. ASSUME NEW c \in Clients, OpenSession(c) PROVE Histories'
  <2>1. UNCHANGED <<file, job, ids>> /\ wallet[c] = << >>
    BY <1>5 DEF OpenSession
  <2>2. Told' = Told
    BY <2>1 DEF Told
  <2>3. /\ wallet'[c][1] = Loaded(file[c])
        /\ \A d \in Clients : d # c => wallet'[d] = wallet[d]
    BY <1>0, <1>5, OpenSessionDoes
  <2>4. GoodWallet(Loaded(file[c]), Told)
    BY <1>0, GoodLoaded DEF Histories, WalletTypes
  <2>5. \A d \in Clients : wallet'[d] # << >> => GoodWallet(wallet'[d][1], Told')
    BY <2>2, <2>3, <2>4 DEF Histories
  <2>6. "entry" \in DOMAIN job => job.client \in Clients /\ wallet[job.client] # << >>
    BY <1>0, JobIs, IdleIs DEF JobLoaded
  <2>7. InProgress'
    BY <1>0, <2>1, <2>3, <2>6 DEF InProgress
  <2> QED
    BY <2>1, <2>2, <2>5, <2>7 DEF Histories
<1>6. CASE Discard
  <2>1. UNCHANGED <<wallet, file, job>> /\ ids' = ids + 1 /\ job = Idle
    BY <1>6 DEF Discard, NewId
  <2>2. "entry" \notin DOMAIN job' /\ Told' = ids'
    BY <2>1, IdleIs DEF Told
  <2>3. Told' \in Int /\ Told <= Told'
    BY <1>0, <2>1, <2>2
  <2> QED
    BY <2>1, <2>2, <2>3, HistoriesKept DEF Histories, InProgress
<1>7. ASSUME NEW c \in Clients, Refuse(c) PROVE Histories'
  <2>1. UNCHANGED <<wallet, file>> /\ ids' = ids + 1 /\ job = Idle
        /\ "entry" \in DOMAIN job' /\ job'.entry.id = ids' /\ job'.entry.status = "FAILED"
    BY <1>0, <1>7, RefuseDoes DEF Refuse
  <2>2. Told' = ids' - 1
    BY <2>1 DEF Told
  <2>3. Told' \in Int /\ Told <= Told'
    BY <1>0, <2>1, <2>2
  <2> QED
    BY <2>1, <2>3, HistoriesKept DEF Histories, InProgress
<1>8. ASSUME NEW c \in Clients, Settle(c) PROVE Histories'
  <2>1. /\ wallet[c] # << >> /\ wallet[c][1] \in Wallets
        /\ ids' = ids + 1 /\ job = Idle
        /\ wallet'[c] # << >> /\ wallet'[c][1] = Trading(wallet[c][1], ids')
        /\ \A d \in Clients : d # c => wallet'[d] = wallet[d]
        /\ job'.client = c /\ "entry" \in DOMAIN job' /\ job'.entry.id = ids'
    BY <1>0, <1>8, SettleDoes
  <2>2. file' = file
    BY <1>8 DEF Settle
  <2>3. Told' = Told /\ ids' \in Nat
    BY <1>0, <2>1, IdleIs DEF Told
  <2>4. GoodWallet(Trading(wallet[c][1], ids'), Told)
    BY <1>0, <2>1, <2>3, GoodTrading DEF Histories
  <2>5. \A d \in Clients : wallet'[d] # << >> => GoodWallet(wallet'[d][1], Told')
    BY <2>1, <2>3, <2>4 DEF Histories
  <2>6. ids' \in wallet'[c][1].account.trades
    BY <2>1, <2>3, TradingIs
  <2> QED
    BY <2>1, <2>2, <2>3, <2>5, <2>6 DEF Histories, InProgress
<1>9. CASE OpenSave
  <2>1. job.step = "open" /\ ids' = ids
    BY <1>9 DEF OpenSave
  <2>2. \A c \in Clients : file'[c] = file[c] \/ file'[c] = EmptyFile
    BY <1>0, <1>9, OpenSaveDoes
  <2>3. /\ "entry" \in DOMAIN job' <=> "entry" \in DOMAIN job
        /\ "entry" \in DOMAIN job => /\ job'.entry = job.entry
                                     /\ job'.client = job.client
                                     /\ wallet'[job.client] = wallet[job.client]
        /\ \A d \in Clients : wallet'[d] # << >> => wallet'[d] = wallet[d]
    <3>1. CASE job' = AfterSave /\ wallet' = WalletAfterSave
      BY <2>1, <3>1, SaveGoesOn, IdleIs
    <3>2. CASE /\ wallet' = wallet /\ job'.client = job.client
               /\ "entry" \in DOMAIN job' <=> "entry" \in DOMAIN job
               /\ "entry" \in DOMAIN job => job'.entry = job.entry
      BY <3>2
    <3> QED
      BY <1>0, <1>9, <3>1, <3>2, OpenSaveDoes
  <2>4. InProgress' /\ Told' = Told
    BY <1>0, <2>1, <2>3, SameEntry
  <2>5. \A c \in Clients : wallet'[c] # << >> => GoodWallet(wallet'[c][1], Told')
    BY <2>3, <2>4 DEF Histories
  <2>6. \A c \in Clients : GoodFile(file'[c], Told')
    BY <1>0, <2>2, <2>4, GoodFiles DEF Histories
  <2> QED
    BY <2>4, <2>5, <2>6 DEF Histories
<1>10. CASE SpillSave
  <2>1. /\ job.client \in Clients /\ wallet[job.client] # << >>
        /\ wallet[job.client][1] \in Wallets
        /\ file'[job.client] \in PartsOf(wallet[job.client][1])
        /\ \A d \in Clients : d # job.client => file'[d] = file[d]
        /\ wallet' = wallet /\ job' = job
    BY <1>0, <1>10, SpillSaveDoes
  <2>2. Told' = Told /\ ids' = ids
    BY <1>10 DEF SpillSave, Told
  <2>3. GoodFile(file'[job.client], Told)
    BY <1>0, <2>1, GoodFiles DEF Histories
  <2> QED
    BY <2>1, <2>2, <2>3 DEF Histories, InProgress
<1>11. CASE CloseSave
  <2>1. /\ job.client \in Clients /\ job.step = "write" /\ wallet[job.client] # << >>
        /\ wallet[job.client][1] \in Wallets
        /\ \A d \in Clients : d # job.client => file'[d] = file[d]
        /\ file'[job.client] \in {Saved(wallet[job.client][1]), file[job.client]}
        /\ wallet' = WalletAfterSave /\ job' = AfterSave
    BY <1>0, <1>11, CloseSaveDoes
  <2>2. ids' = ids
    BY <1>11 DEF CloseSave
  <2>3. /\ "entry" \in DOMAIN job' <=> "entry" \in DOMAIN job
        /\ "entry" \in DOMAIN job => /\ job'.entry = job.entry
                                     /\ job'.client = job.client
                                     /\ wallet'[job.client] = wallet[job.client]
        /\ \A d \in Clients : wallet'[d] # << >> => wallet'[d] = wallet[d]
    BY <2>1, SaveGoesOn, IdleIs
  <2>4. InProgress' /\ Told' = Told
    BY <1>0, <2>2, <2>3, SameEntry
  <2>5. \A c \in Clients : wallet'[c] # << >> => GoodWallet(wallet'[c][1], Told')
    BY <2>3, <2>4 DEF Histories
  <2>6. GoodFile(file'[job.client], Told)
    BY <1>0, <2>1, GoodFiles DEF Histories
  <2>7. \A c \in Clients : GoodFile(file'[c], Told')
    BY <2>1, <2>4, <2>6 DEF Histories
  <2> QED
    BY <2>4, <2>5, <2>7 DEF Histories
<1>12. CASE AddTransaction
  <2> DEFINE c == job.client
             e == job.entry
  <2>1. /\ c \in Clients /\ wallet[c] # << >> /\ wallet[c][1] \in Wallets
        /\ e \in Entry /\ "entry" \in DOMAIN job
        /\ wallet'[c][1] = Telling(wallet[c][1], e)
        /\ \A d \in Clients : d # c => wallet'[d] = wallet[d]
        /\ job' = Idle
    BY <1>0, <1>12, AddTransactionDoes
  <2>2. ids' = ids /\ file' = file
    BY <1>12 DEF AddTransaction
  <2>3. Told = ids - 1 /\ Told' = ids /\ "entry" \notin DOMAIN job' /\ e.id = ids
    BY <1>0, <2>1, <2>2, IdleIs DEF Told, InProgress
  <2>4. /\ GoodWallet(wallet[c][1], e.id - 1)
        /\ e.status = "COMPLETED" => e.id \in wallet[c][1].account.trades
    BY <1>0, <2>1, <2>3 DEF Histories, InProgress
  <2>5. GoodWallet(wallet'[c][1], Told')
    BY <2>1, <2>3, <2>4, GoodTelling
  <2>8. Told' \in Int /\ Told <= Told'
    BY <1>0, <2>3
  <2>6. ASSUME NEW d \in Clients, d # c, wallet'[d] # << >>
        PROVE  GoodWallet(wallet'[d][1], Told')
    <3>1. wallet'[d] = wallet[d] /\ wallet[d][1] \in Wallets
      BY <1>0, <2>1, <2>6, WalletLoaded DEF WalletTypes
    <3>2. GoodWallet(wallet[d][1], Told)
      BY <2>6, <3>1 DEF Histories
    <3> QED
      BY <1>0, <2>8, <3>1, <3>2, GoodLater
  <2>7. ASSUME NEW d \in Clients PROVE GoodFile(file'[d], Told')
    <3>1. file[d] \in Files /\ GoodFile(file[d], Told)
      BY <1>0 DEF Histories, WalletTypes
    <3> QED
      BY <1>0, <2>2, <2>8, <3>1, GoodLater
  <2> QED
    BY <2>3, <2>5, <2>6, <2>7 DEF Histories, InProgress
<1> QED
  BY <1>1, <1>2, <1>3, <1>4, <1>5, <1>6, <1>7, <1>8, <1>9, <1>10, <1>11, <1>12
     DEF Next, Shutdown, Registration, Worker

LEMMA HistoriesHold == Spec => []Histories
<1>1. Init => Histories
  <2> SUFFICES ASSUME Init PROVE Histories
    OBVIOUS
  <2>1. "entry" \notin DOMAIN job /\ Told = 0
    BY IdleIs DEF Init, Told
  <2>2. GoodFile(NoFile, 0)
    BY GoodFiles
  <2> QED
    BY <2>1, <2>2 DEF Init, Histories, InProgress
<1> QED
  BY <1>1, HistoriesStep, SoundHolds, PTL DEF Spec

(* No history tells of a completed transaction that the account next to it *)
(* does not contain, however the process was killed or writes failed.      *)
THEOREM HistoryBacked == Spec => []HistoryIsBacked
<1>1. Histories => HistoryIsBacked
  BY DEF Histories, HistoryIsBacked, GoodWallet, GoodHistory, GoodFile
<1> QED
  BY <1>1, HistoriesHold, PTL

(* Histories stay in the order of execution and never hold a transaction   *)
(* twice.                                                                  *)
THEOREM HistoryOrdered == Spec => []HistoryIncreases
<1>1. Histories => HistoryIncreases
  BY DEF Histories, HistoryIncreases, GoodWallet, GoodHistory, GoodFile
<1> QED
  BY <1>1, HistoriesHold, PTL

-----------------------------------------------------------------------------
(* What is acknowledged is on disk.                                        *)

UsersSaved ==
  failures = 0 /\ phase # "down" /\ clerk.step \notin {"openUsers", "writeUsers"}
    => usersFile = users

(* A user is taken back only when a wallet file could not be made.         *)
NeverUndone ==
  failures = 0 /\ clerk.step \in {"openUsers", "writeUsers"} => clerk.next # "undone"

AccountsSaved ==
  failures = 0 =>
    \A c \in Clients : wallet[c] # << >> /\ ~ BeingSaved(c)
                         => wallet[c][1].account = Loaded(file[c]).account

Acknowledged == UsersSaved /\ NeverUndone /\ AccountsSaved

(* What is loaded from a file that was closed is what was saved.           *)
LEMMA LoadedSaved == \A w \in Wallets : Loaded(Saved(w)).account = w.account
<1> SUFFICES ASSUME NEW w \in Wallets PROVE Loaded(Saved(w)).account = w.account
  OBVIOUS
<1>1. Saved(w) \in Files /\ Saved(w).account = <<w.account>>
  BY FilesAre
<1>2. <<w.account>> # << >> /\ <<w.account>>[1] = w.account
  BY OneOrNone
<1> QED
  BY <1>1, <1>2, LoadedIs

(* A step after a failure has nothing to show.                             *)
LEMMA FailureShows ==
  ASSUME failures' = failures + 1, failures \in Nat
  PROVE  failures' # 0
OBVIOUS

LEMMA UsersSavedStep ==
  Sound /\ UsersSaved /\ NeverUndone /\ [Next]_vars => UsersSaved' /\ NeverUndone'
<1> SUFFICES ASSUME Sound, UsersSaved, NeverUndone, [Next]_vars
             PROVE  UsersSaved' /\ NeverUndone'
  OBVIOUS
<1> USE DEF userVars, walletVars, counterVars, bounds
<1>0. /\ WalletTypes /\ job \in Jobs /\ clerk \in Clerks /\ failures \in Nat /\ Quiet
  BY SoundTypes DEF TypeOK
<1>1. CASE Start
  <2>1. clerk' = Idle /\ usersFile' = users'
    BY <1>0, <1>1 DEF Start, Quiet, LoadedUsers
  <2> QED
    BY <2>1, IdleIs DEF UsersSaved, NeverUndone
<1>2. CASE Killed
  BY <1>2, IdleIs DEF Killed, UsersSaved, NeverUndone
<1>3. CASE Exit
  BY <1>3 DEF Exit, UsersSaved, NeverUndone
<1>4. CASE StopServer \/ QueueStopped \/ PoolStopped \/ OpenCounter \/ WriteCounter
           \/ UNCHANGED vars
  <2>1. /\ UNCHANGED <<users, usersFile, clerk>>
        /\ phase' # "down" => phase # "down"
        /\ failures' = failures \/ failures' = failures + 1
    BY <1>4 DEF StopServer, QueueStopped, PoolStopped, OpenCounter, WriteCounter, Works, Fails, vars
  <2> QED
    BY <1>0, <2>1, FailureShows DEF UsersSaved, NeverUndone
<1>5. CASE SaveUsers
  <2>1. clerk'.step = "openUsers" /\ clerk'.next = "stop"
    BY <1>5, ClerksBegun DEF SaveUsers
  <2> QED
    BY <2>1 DEF UsersSaved, NeverUndone
<1>6. ASSUME NEW c \in Clients, DestroySession(c) \/ OpenSession(c) \/ Refuse(c) \/ Settle(c)
      PROVE  UsersSaved' /\ NeverUndone'
  <2>1. UNCHANGED <<users, usersFile, clerk, phase, failures>>
    BY <1>6 DEF DestroySession, OpenSession, Refuse, Settle
  <2> QED
    BY <2>1 DEF UsersSaved, NeverUndone
<1>7. CASE Discard \/ OpenSave \/ SpillSave \/ CloseSave \/ AddTransaction
  <2>1. /\ UNCHANGED <<users, usersFile, clerk, phase>>
        /\ failures' = failures \/ failures' = failures + 1
    BY <1>7 DEF Discard, OpenSave, SpillSave, CloseSave, AddTransaction, Works, Fails
  <2> QED
    BY <1>0, <2>1, FailureShows DEF UsersSaved, NeverUndone
<1>8. ASSUME NEW c \in Clients, Register(c) PROVE UsersSaved' /\ NeverUndone'
  <2>1. clerk'.step = "openUsers" /\ clerk'.next = "create"
    BY <1>8, ClerksBegun DEF Register
  <2> QED
    BY <2>1 DEF UsersSaved, NeverUndone
<1>9. CASE OpenUsers
  <2>1. clerk.step = "openUsers"
    BY <1>9 DEF OpenUsers
  <2>2. CASE Works /\ clerk' = [clerk EXCEPT !.step = "writeUsers"]
    <3>1. clerk'.step = "writeUsers" /\ clerk'.next = clerk.next /\ failures' = failures
      BY <1>0, <2>1, <2>2, ClerkOpened DEF Works
    <3> QED
      BY <2>1, <3>1 DEF UsersSaved, NeverUndone
  <2>3. CASE Fails
    BY <1>0, <2>3, FailureShows DEF Fails, UsersSaved, NeverUndone
  <2> QED
    BY <1>9, <2>2, <2>3 DEF OpenUsers
<1>10. CASE WriteUsers
  <2>1. clerk.step = "writeUsers" /\ users' = users /\ clerk' = AfterUsers
    BY <1>10 DEF WriteUsers
  <2>2. CASE Works /\ usersFile' = users
    <3>1. clerk'.step \notin {"openUsers", "writeUsers"}
      BY <1>0, <2>1, ClerkWrote, IdleIs
    <3> QED
      BY <2>1, <2>2, <3>1 DEF UsersSaved, NeverUndone
  <2>3. CASE Fails
    BY <1>0, <2>3, FailureShows DEF Fails, UsersSaved, NeverUndone
  <2> QED
    BY <1>10, <2>2, <2>3 DEF WriteUsers
<1>11. CASE OpenWallet
  <2>1. clerk.step = "openWallet" /\ UNCHANGED <<phase, usersFile>>
    BY <1>11 DEF OpenWallet
  <2>2. CASE failures' = failures /\ users' = users /\ clerk'.step = "fillWallet"
    BY <2>1, <2>2 DEF UsersSaved, NeverUndone
  <2>3. CASE failures' = failures + 1
    BY <1>0, <2>3, FailureShows DEF UsersSaved, NeverUndone
  <2> QED
    BY <1>0, <1>11, <2>2, <2>3, OpenWalletDoes
<1>12. CASE FillWallet
  <2>1. clerk.step = "fillWallet" /\ UNCHANGED <<phase, users, usersFile>> /\ clerk' = Idle
        /\ (failures' = failures \/ failures' = failures + 1)
    BY <1>12 DEF FillWallet, Works, Fails
  <2> QED
    BY <1>0, <2>1, FailureShows, IdleIs DEF UsersSaved, NeverUndone
<1> QED
  BY <1>1, <1>2, <1>3, <1>4, <1>5, <1>6, <1>7, <1>8, <1>9, <1>10, <1>11, <1>12
     DEF Next, Shutdown, Registration, Worker

LEMMA AccountsSavedStep ==
  Sound /\ AccountsSaved /\ [Next]_vars => AccountsSaved'
<1> SUFFICES ASSUME Sound, AccountsSaved, [Next]_vars, failures' = 0,
                    NEW d \in Clients, wallet'[d] # << >>, ~ BeingSaved(d)'
             PROVE  wallet'[d][1].account = Loaded(file'[d]).account
  BY DEF AccountsSaved, BeingSaved
<1> USE DEF userVars, walletVars, counterVars, bounds
<1>0. /\ WalletTypes /\ job \in Jobs /\ clerk \in Clerks /\ JobLoaded /\ ids \in Nat
      /\ failures \in Nat /\ Quiet /\ LoadedOnce
  BY SoundTypes DEF TypeOK
<1>a. failures = 0
  <2>1. failures' = failures \/ failures' = failures + 1
    BY DEF Next, Shutdown, Registration, Worker, Start, Killed, StopServer, SaveUsers,
           OpenCounter, WriteCounter, QueueStopped, PoolStopped, Exit, DestroySession,
           OpenUsers, WriteUsers, OpenWallet, FillWallet, Register, OpenSession, Discard,
           OpenSave, SpillSave, CloseSave, AddTransaction, Refuse, Settle, Works, Fails, vars
  <2> QED
    BY <1>0, <2>1
<1>b. ASSUME wallet'[d] = wallet[d], file'[d] = file[d], ~ BeingSaved(d)
      PROVE  wallet'[d][1].account = Loaded(file'[d]).account
  BY <1>a, <1>b DEF AccountsSaved
<1>1. CASE Start \/ StopServer \/ SaveUsers \/ OpenCounter \/ WriteCounter \/ QueueStopped
           \/ PoolStopped \/ Exit \/ OpenUsers \/ WriteUsers \/ Discard
           \/ (\E c \in Clients : Register(c)) \/ UNCHANGED vars
  <2>1. UNCHANGED <<wallet, file, job>>
    BY <1>1 DEF Start, StopServer, SaveUsers, OpenCounter, WriteCounter, QueueStopped,
       PoolStopped, Exit, OpenUsers, WriteUsers, Discard, Register, vars
  <2> QED
    BY <1>b, <2>1 DEF BeingSaved
<1>2. CASE Killed
  BY <1>2 DEF Killed
<1>3. ASSUME NEW c \in Clients, DestroySession(c) \/ Refuse(c)
      PROVE  wallet'[d][1].account = Loaded(file'[d]).account
  <2>1. UNCHANGED <<wallet, file>> /\ job = Idle
    BY <1>3 DEF DestroySession, Refuse, NewId
  <2>2. ~ BeingSaved(d)
    BY <2>1, IdleIs DEF BeingSaved
  <2> QED
    BY <1>b, <2>1, <2>2
<1>4. CASE OpenWallet \/ FillWallet
  <2>1. UNCHANGED <<wallet, job>>
    BY <1>4 DEF OpenWallet, FillWallet
  <2>2. /\ clerk.client \in Clients /\ "client" \in DOMAIN clerk
        /\ \A c \in Clients : c # clerk.client => file'[c] = file[c]
    BY <1>0, <1>4, OpenWalletDoes, FillWalletDoes
  <2>3. d # clerk.client
    BY <1>0, <2>1, <2>2 DEF LoadedOnce, BeingRegistered
  <2> QED
    BY <1>b, <2>1, <2>2, <2>3 DEF BeingSaved
<1>5. ASSUME NEW c \in Clients, OpenSession(c)
      PROVE  wallet'[d][1].account = Loaded(file'[d]).account
  <2>1. UNCHANGED <<file, job>> /\ wallet'[c][1] = Loaded(file[c])
        /\ \A e \in Clients : e # c => wallet'[e] = wallet[e]
    BY <1>0, <1>5, OpenSessionDoes DEF OpenSession
  <2> QED
    BY <1>b, <2>1 DEF BeingSaved
<1>6. ASSUME NEW c \in Clients, Settle(c)
      PROVE  wallet'[d][1].account = Loaded(file'[d]).account
  <2>1. /\ file' = file /\ job = Idle
        /\ job'.client = c /\ "by" \in DOMAIN job'
        /\ \A e \in Clients : e # c => wallet'[e] = wallet[e]
    BY <1>0, <1>6, SettleDoes DEF Settle
  <2>2. d # c /\ ~ BeingSaved(d)
    BY <2>1, IdleIs DEF BeingSaved
  <2> QED
    BY <1>b, <2>1, <2>2
<1>7. CASE OpenSave
  <2>1. /\ job.client \in Clients
        /\ \A e \in Clients : e # job.client => file'[e] = file[e]
        /\ wallet' = wallet /\ job'.client = job.client /\ "by" \in DOMAIN job'
    BY <1>0, <1>7, <1>a, OpenSaveDoes
  <2>2. d # job.client
    BY <2>1 DEF BeingSaved
  <2> QED
    BY <1>b, <2>1, <2>2 DEF BeingSaved
<1>8. CASE SpillSave
  <2>1. /\ job.client \in Clients /\ job.step = "write"
        /\ \A e \in Clients : e # job.client => file'[e] = file[e]
        /\ wallet' = wallet /\ job' = job
    BY <1>0, <1>8, SpillSaveDoes
  <2>2. "by" \in DOMAIN job
    BY <1>0, <2>1, JobIs
  <2>3. d # job.client
    BY <2>1, <2>2 DEF BeingSaved
  <2> QED
    BY <1>b, <2>1, <2>3 DEF BeingSaved
<1>9. CASE CloseSave
  <2>1. /\ job.client \in Clients /\ job.step = "write"
        /\ wallet[job.client][1] \in Wallets
        /\ file'[job.client] = Saved(wallet[job.client][1])
        /\ \A e \in Clients : e # job.client => file'[e] = file[e]
        /\ wallet' = WalletAfterSave /\ job' = AfterSave
    BY <1>0, <1>9, <1>a, CloseSaveDoes
  <2>2. wallet'[d] = wallet[d]
    BY <2>1, SaveGoesOn
  <2>3. CASE d = job.client
    BY <2>1, <2>2, <2>3, LoadedSaved
  <2>4. CASE d # job.client
    BY <1>b, <2>1, <2>2, <2>4 DEF BeingSaved
  <2> QED
    BY <2>3, <2>4
<1>10. CASE AddTransaction
  <2>1. /\ job.client \in Clients /\ wallet[job.client] # << >>
        /\ wallet[job.client][1] \in Wallets /\ job.entry \in Entry
        /\ wallet'[job.client][1] = Telling(wallet[job.client][1], job.entry)
        /\ \A e \in Clients : e # job.client => wallet'[e] = wallet[e]
    BY <1>0, <1>10, AddTransactionDoes
  <2>2. "by" \notin DOMAIN job /\ file' = file
    BY <1>0, <1>10, JobIs DEF AddTransaction
  <2>3. CASE d = job.client
    <3>1. wallet'[d][1].account = wallet[d][1].account
      BY <2>1, <2>3, TellingIs
    <3>2. wallet[d][1].account = Loaded(file[d]).account
      BY <1>a, <2>1, <2>2, <2>3 DEF AccountsSaved, BeingSaved
    <3> QED
      BY <2>2, <3>1, <3>2
  <2>4. CASE d # job.client
    BY <1>b, <2>1, <2>2, <2>4 DEF BeingSaved
  <2> QED
    BY <2>3, <2>4
<1> QED
  BY <1>1, <1>2, <1>3, <1>4, <1>5, <1>6, <1>7, <1>8, <1>9, <1>10
     DEF Next, Shutdown, Registration, Worker

LEMMA AcknowledgedHolds == Spec => []Acknowledged
<1>1. Init => Acknowledged
  BY IdleIs DEF Init, Acknowledged, UsersSaved, NeverUndone, AccountsSaved
<1>2. Sound /\ Acknowledged /\ [Next]_vars => Acknowledged'
  BY UsersSavedStep, AccountsSavedStep DEF Acknowledged
<1> QED
  BY <1>1, <1>2, SoundHolds, PTL DEF Spec

(* While nothing fails, whatever the process has acknowledged survives it  *)
(* being killed.                                                           *)
THEOREM AcknowledgedSurvives == Spec => []AcknowledgedIsSaved
<1>1. Acknowledged => AcknowledgedIsSaved
  <2> SUFFICES ASSUME Acknowledged, failures = 0 PROVE
          /\ phase # "down" /\ clerk = Idle => usersFile = users
          /\ \A c \in Clients :
               wallet[c] # << >> /\ ~ BeingSaved(c) => Held(c) = Loaded(file[c]).account
    BY DEF AcknowledgedIsSaved
  <2>1. phase # "down" /\ clerk = Idle => usersFile = users
    BY IdleIs DEF Acknowledged, UsersSaved
  <2>2. ASSUME NEW c \in Clients, wallet[c] # << >>, ~ BeingSaved(c)
        PROVE  Held(c) = Loaded(file[c]).account
    BY <2>2 DEF Acknowledged, AccountsSaved, Held
  <2> QED
    BY <2>1, <2>2
<1> QED
  BY <1>1, AcknowledgedHolds, PTL

(* While nothing fails, being killed costs the money of the one client     *)
(* whose wallet file was open.                                             *)
THEOREM KillCostsOneWallet == Spec => KilledCostsOneWallet
<1>1. Sound /\ Acknowledged /\ [Next]_vars =>
        [ failures = 0 /\ phase # "down" /\ phase' = "down" =>
            \A c \in Clients :
              Held(c)' # Held(c) => BeingSaved(c) /\ job.step \in {"open", "write"} ]_vars
  <2> SUFFICES ASSUME Sound, Acknowledged, Next, failures = 0, phase # "down", phase' = "down",
                      NEW c \in Clients, Held(c)' # Held(c)
               PROVE  BeingSaved(c) /\ job.step \in {"open", "write"}
    OBVIOUS
  <2> USE DEF userVars, walletVars, counterVars, bounds
  <2>1. Killed \/ Exit
    BY DEF Next, Shutdown, Registration, Worker, Start, Killed, StopServer, SaveUsers,
           OpenCounter, WriteCounter, QueueStopped, PoolStopped, Exit, DestroySession,
           OpenUsers, WriteUsers, OpenWallet, FillWallet, Register, OpenSession, Discard,
           OpenSave, SpillSave, CloseSave, AddTransaction, Refuse, Settle, PhaseAfterUsers
  <2>2. ~ Exit
    BY DEF Exit, Held
  <2>3. file' = file /\ wallet'[c] = << >>
    BY <2>1, <2>2 DEF Killed
  <2>4. Held(c)' = Loaded(file[c]).account
    BY <2>3 DEF Held
  <2>5. wallet[c] # << >> /\ wallet[c][1].account # Loaded(file[c]).account
    BY <2>4 DEF Held
  <2>6. BeingSaved(c)
    BY <2>5 DEF Acknowledged, AccountsSaved
  <2>7. job.step \in {"open", "write"}
    BY <2>6, SoundTypes, JobIs DEF BeingSaved
  <2> QED
    BY <2>6, <2>7
<1> QED
  BY <1>1, SoundHolds, AcknowledgedHolds, PTL DEF Spec, KilledCostsOneWallet

-----------------------------------------------------------------------------
(* Without kills and failures.                                             *)

Orderly == kills = 0 /\ failures = 0

(* A user that is being registered is already in the map of users.         *)
RegistersUsers ==
  failures = 0 => \A c \in Clients : BeingRegistered(c) => c \in users

(* A file that holds an account is that of a user whose registration is    *)
(* over; the file a registration has opened is empty.                      *)
AccountsAreUsers ==
  Orderly =>
    /\ clerk.step = "fillWallet" => file[clerk.client].account = << >>
    /\ \A c \in Clients : file[c].account # << >> =>
         /\ ~ BeingRegistered(c)
         /\ c \in (IF phase = "down" THEN usersFile ELSE users)

Registered ==
  RegistersUsers /\ UsersHaveWallets /\ AccountsAreUsers

(* What the clerk's steps do while nothing fails.                          *)
LEMMA ClerkWorks ==
  ASSUME Sound, NeverUndone, OpenUsers \/ WriteUsers, failures' = 0
  PROVE  /\ clerk' \in Clerks /\ clerk'.step # "fillWallet"
         /\ usersFile' = {} \/ usersFile' = users
         /\ \A c \in Clients : BeingRegistered(c)' <=> BeingRegistered(c)
         /\ phase # "down" /\ phase' # "down"
         /\ UNCHANGED <<users, wallet, file, kills, failures>>
<1> USE DEF userVars, walletVars, counterVars, bounds
<1>0. /\ WalletTypes /\ clerk \in Clerks /\ failures \in Nat /\ Quiet
      /\ clerk.step \in {"openUsers", "writeUsers"} /\ phase # "down"
  BY SoundTypes, ClerkIs DEF TypeOK, OpenUsers, WriteUsers, Quiet
<1>1. Works /\ failures = 0
  BY <1>0 DEF OpenUsers, WriteUsers, Works, Fails
<1>2. CASE OpenUsers
  <2>1. usersFile' = {} /\ clerk' = [clerk EXCEPT !.step = "writeUsers"] /\ phase' = phase
    BY <1>0, <1>1, <1>2 DEF OpenUsers, Works, Fails
  <2>2. /\ clerk' \in Clerks /\ clerk'.step = "writeUsers"
        /\ "client" \in DOMAIN clerk' <=> "client" \in DOMAIN clerk
        /\ "client" \in DOMAIN clerk => clerk'.client = clerk.client
    BY <1>0, <1>2, <2>1, ClerkOpened DEF OpenUsers
  <2> QED
    BY <1>0, <1>1, <1>2, <2>1, <2>2 DEF OpenUsers, Works, BeingRegistered
<1>3. CASE WriteUsers
  <2>1. usersFile' = users /\ clerk' = AfterUsers /\ phase' = PhaseAfterUsers
    BY <1>0, <1>1, <1>3 DEF WriteUsers, Works, Fails
  <2>2. phase' # "down"
    BY <1>0, <2>1 DEF PhaseAfterUsers
  <2>3. clerk.next # "undone" /\ ("client" \in DOMAIN clerk <=> clerk.next = "create")
    BY <1>0, <1>1, ClerkIs DEF NeverUndone
  <2>4. /\ clerk' \in Clerks /\ clerk'.step # "fillWallet"
        /\ "client" \in DOMAIN clerk' <=> "client" \in DOMAIN clerk
        /\ "client" \in DOMAIN clerk => clerk'.client = clerk.client
    BY <1>0, <2>1, <2>3, ClerkWrote, IdleIs
  <2> QED
    BY <1>0, <1>1, <1>3, <2>1, <2>2, <2>4 DEF WriteUsers, Works, BeingRegistered
<1> QED
  BY <1>2, <1>3

(* A step of the worker, or of a destructor, on the files: only the file   *)
(* of a loaded wallet changes, and it is there.                            *)
LEMMA SavesLoaded ==
  ASSUME Sound, OpenSave \/ SpillSave \/ CloseSave, failures' = failures
  PROVE  /\ UNCHANGED <<phase, users, usersFile, clerk, kills>>
         /\ job.client \in Clients /\ phase # "down"
         /\ wallet[job.client] # << >> /\ ~ BeingRegistered(job.client)
         /\ job.client \in users /\ file'[job.client].there
         /\ \A c \in Clients : c # job.client => file'[c] = file[c]
<1> USE DEF userVars, walletVars, counterVars, bounds
<1>0. /\ WalletTypes /\ job \in Jobs /\ JobLoaded /\ failures \in Nat /\ Quiet /\ LoadedOnce
  BY SoundTypes DEF TypeOK
<1>1. /\ job.client \in Clients /\ job # Idle /\ phase # "down"
  BY <1>0, JobIs DEF OpenSave, SpillSave, CloseSave, Quiet
<1>2. /\ wallet[job.client] # << >> /\ ~ BeingRegistered(job.client) /\ job.client \in users
      /\ wallet[job.client][1] \in Wallets
  BY <1>0, <1>1, WalletLoaded DEF JobLoaded, LoadedOnce, WalletTypes
<1>3. UNCHANGED <<phase, users, usersFile, clerk, kills>>
  BY DEF OpenSave, SpillSave, CloseSave
<1>4. CASE OpenSave
  BY <1>0, <1>1, <1>2, <1>3, <1>4, OpenSaveDoes, FilesAre
<1>5. CASE SpillSave
  BY <1>0, <1>1, <1>2, <1>3, <1>5, SpillSaveDoes, PartsAre
<1>6. CASE CloseSave
  BY <1>0, <1>1, <1>2, <1>3, <1>6, CloseSaveDoes, FilesAre
<1> QED
  BY <1>4, <1>5, <1>6

LEMMA RegisteredStep ==
  Sound /\ UsersSaved /\ NeverUndone /\ Registered /\ [Next]_vars => Registered'
<1> SUFFICES ASSUME Sound, UsersSaved, NeverUndone, Registered, [Next]_vars PROVE Registered'
  OBVIOUS
<1> USE DEF userVars, walletVars, counterVars, bounds
<1>0. /\ WalletTypes /\ job \in Jobs /\ clerk \in Clerks /\ JobLoaded
      /\ failures \in Nat /\ kills \in Nat /\ Quiet /\ LoadedOnce
  BY SoundTypes DEF TypeOK
<1>a. failures' = failures \/ failures' = failures + 1
  BY DEF Next, Shutdown, Registration, Worker, Start, Killed, StopServer, SaveUsers,
         OpenCounter, WriteCounter, QueueStopped, PoolStopped, Exit, DestroySession,
         OpenUsers, WriteUsers, OpenWallet, FillWallet, Register, OpenSession, Discard,
         OpenSave, SpillSave, CloseSave, AddTransaction, Refuse, Settle, Works, Fails, vars
<1>b. kills' = kills \/ kills' = kills + 1
  BY DEF Next, Shutdown, Registration, Worker, Start, Killed, StopServer, SaveUsers,
         OpenCounter, WriteCounter, QueueStopped, PoolStopped, Exit, DestroySession,
         OpenUsers, WriteUsers, OpenWallet, FillWallet, Register, OpenSession, Discard,
         OpenSave, SpillSave, CloseSave, AddTransaction, Refuse, Settle, vars
<1>c. CASE failures' # 0
  BY <1>c DEF Registered, RegistersUsers, UsersHaveWallets, AccountsAreUsers, Orderly
<1>d. CASE failures' = 0
  <2>a. failures = 0 /\ failures' = failures /\ (kills' = 0 => kills = 0)
    BY <1>0, <1>a, <1>b, <1>d
  <2>b. /\ \A c \in Clients : BeingRegistered(c) => c \in users
        /\ kills = 0 => /\ \A c \in users \cup usersFile : BeingRegistered(c) \/ file[c].there
                        /\ clerk.step = "fillWallet" => file[clerk.client].account = << >>
                        /\ \A c \in Clients : file[c].account # << >> =>
                             /\ ~ BeingRegistered(c)
                             /\ c \in (IF phase = "down" THEN usersFile ELSE users)
    BY <2>a DEF Registered, RegistersUsers, UsersHaveWallets, AccountsAreUsers, Orderly
  <2>c. SUFFICES
          /\ \A c \in Clients : BeingRegistered(c)' => c \in users'
          /\ kills' = 0 => /\ \A c \in users' \cup usersFile' : BeingRegistered(c)' \/ file'[c].there
                           /\ clerk'.step = "fillWallet" => file'[clerk'.client].account = << >>
                           /\ \A c \in Clients : file'[c].account # << >> =>
                                /\ ~ BeingRegistered(c)'
                                /\ c \in (IF phase' = "down" THEN usersFile' ELSE users')
    BY <1>d DEF Registered, RegistersUsers, UsersHaveWallets, AccountsAreUsers, Orderly
  <2> USE DEF BeingRegistered
  <2>1. CASE Start
    <3>1. /\ clerk = Idle /\ phase = "down" /\ phase' = "up" /\ users' = usersFile
          /\ UNCHANGED <<usersFile, clerk, file, kills>>
      BY <1>0, <2>1 DEF Start, Quiet, LoadedUsers
    <3> QED
      BY <2>a, <2>b, <3>1, IdleIs
  <2>2. CASE Killed
    BY <1>0, <2>a, <2>2, IdleIs DEF Killed
  <2>3. CASE Exit
    <3>1. /\ clerk = Idle /\ phase = "destroying" /\ phase' = "down" /\ users' = {}
          /\ UNCHANGED <<usersFile, clerk, file, kills>>
      BY <1>0, <2>3 DEF Exit, Quiet
    <3>2. usersFile = users
      BY <2>a, <3>1, IdleIs DEF UsersSaved
    <3> QED
      BY <2>a, <2>b, <3>1, <3>2, IdleIs
  <2>4. CASE \/ StopServer \/ OpenCounter \/ WriteCounter \/ QueueStopped \/ PoolStopped
             \/ (\E c \in Clients : DestroySession(c) \/ OpenSession(c) \/ Refuse(c) \/ Settle(c))
             \/ Discard \/ AddTransaction \/ UNCHANGED vars
    <3>1. /\ UNCHANGED <<users, usersFile, clerk, file, kills>>
          /\ phase' = "down" <=> phase = "down"
      BY <2>4 DEF StopServer, OpenCounter, WriteCounter, QueueStopped, PoolStopped,
         DestroySession, OpenSession, Refuse, Settle, Discard, AddTransaction, vars
    <3> QED
      BY <2>a, <2>b, <3>1
  <2>5. CASE SaveUsers
    <3>1. /\ clerk = Idle /\ clerk'.step = "openUsers" /\ "client" \notin DOMAIN clerk'
          /\ UNCHANGED <<phase, users, usersFile, file, kills>>
      BY <2>5, ClerksBegun DEF SaveUsers
    <3> QED
      BY <2>a, <2>b, <3>1, IdleIs
  <2>6. ASSUME NEW d \in Clients, Register(d)
        PROVE  /\ \A c \in Clients : BeingRegistered(c)' => c \in users'
               /\ kills' = 0 =>
                    /\ \A c \in users' \cup usersFile' : BeingRegistered(c)' \/ file'[c].there
                    /\ clerk'.step = "fillWallet" => file'[clerk'.client].account = << >>
                    /\ \A c \in Clients : file'[c].account # << >> =>
                         /\ ~ BeingRegistered(c)'
                         /\ c \in (IF phase' = "down" THEN usersFile' ELSE users')
    <3>1. /\ clerk = Idle /\ d \notin users /\ users' = users \cup {d} /\ phase # "down"
          /\ clerk'.step = "openUsers" /\ "client" \in DOMAIN clerk' /\ clerk'.client = d
          /\ UNCHANGED <<phase, usersFile, file, kills>>
      BY <2>6, ClerksBegun DEF Register, PoolRuns, Serving
    <3> QED
      BY <2>a, <2>b, <3>1, IdleIs
  <2>7. CASE OpenUsers \/ WriteUsers
    <3>1. /\ clerk'.step # "fillWallet"
          /\ usersFile' = {} \/ usersFile' = users
          /\ \A c \in Clients : BeingRegistered(c)' <=> BeingRegistered(c)
          /\ phase # "down" /\ phase' # "down"
          /\ UNCHANGED <<users, file, kills>>
      BY <1>d, <2>7, ClerkWorks
    <3>2. users \in SUBSET Clients
      BY SoundTypes DEF TypeOK
    <3> QED
      BY <2>a, <2>b, <3>1, <3>2
  <2>8. CASE OpenWallet
    <3>1. /\ clerk.client \in Clients /\ "client" \in DOMAIN clerk /\ users' = users
          /\ file'[clerk.client] = EmptyFile
          /\ \A d \in Clients : d # clerk.client => file'[d] = file[d]
          /\ "client" \in DOMAIN clerk' /\ clerk'.client = clerk.client
          /\ UNCHANGED <<phase, usersFile, kills>>
      BY <1>0, <2>a, <2>8, OpenWalletDoes DEF OpenWallet
    <3>2. users \in SUBSET Clients /\ usersFile \in SUBSET Clients
      BY SoundTypes DEF TypeOK
    <3> QED
      BY <2>a, <2>b, <3>1, <3>2, FilesAre
  <2>9. CASE FillWallet
    <3>1. /\ clerk.client \in Clients /\ "client" \in DOMAIN clerk
          /\ clerk.step = "fillWallet" /\ clerk' = Idle
          /\ file'[clerk.client] = Saved(NewWallet)
          /\ \A d \in Clients : d # clerk.client => file'[d] = file[d]
          /\ UNCHANGED <<phase, users, usersFile, kills>>
      BY <1>0, <2>a, <2>9, FillWalletDoes DEF FillWallet
    <3>2. Saved(NewWallet).there /\ phase # "down"
      BY <1>0, <3>1, NewWalletIs, FilesAre, IdleIs DEF Quiet
    <3>3. users \in SUBSET Clients /\ usersFile \in SUBSET Clients
      BY SoundTypes DEF TypeOK
    <3> QED
      BY <2>a, <2>b, <3>1, <3>2, <3>3, IdleIs
  <2>10. CASE OpenSave \/ SpillSave \/ CloseSave
    <3>1. /\ UNCHANGED <<phase, users, usersFile, clerk, kills>>
          /\ job.client \in Clients /\ phase # "down"
          /\ ~ BeingRegistered(job.client)
          /\ job.client \in users /\ file'[job.client].there
          /\ \A c \in Clients : c # job.client => file'[c] = file[c]
      BY <2>a, <2>10, SavesLoaded
    <3>2. users \in SUBSET Clients /\ usersFile \in SUBSET Clients
      BY SoundTypes DEF TypeOK
    <3>3. clerk.step = "fillWallet" => clerk.client \in Clients /\ clerk.client # job.client
      BY <1>0, <3>1, ClerkIs
    <3> QED
      BY <2>a, <2>b, <3>1, <3>2, <3>3
  <2> QED
    BY <2>1, <2>2, <2>3, <2>4, <2>5, <2>6, <2>7, <2>8, <2>9, <2>10
       DEF Next, Shutdown, Registration, Worker
<1> QED
  BY <1>0, <1>c, <1>d

LEMMA RegisteredHolds == Spec => []Registered
<1>1. Init => Registered
  BY IdleIs DEF Init, Registered, RegistersUsers, UsersHaveWallets, AccountsAreUsers,
     BeingRegistered, NoFile
<1>2. Sound /\ Acknowledged /\ Registered /\ [Next]_vars => Registered'
  BY RegisteredStep DEF Acknowledged
<1> QED
  BY <1>1, <1>2, SoundHolds, AcknowledgedHolds, PTL DEF Spec

(* As long as the process is not killed and no file operation fails, every *)
(* user has a wallet file.                                                 *)
THEOREM NoUserWithoutWallet == Spec => []UsersHaveWallets
<1>1. Registered => UsersHaveWallets
  BY DEF Registered
<1> QED
  BY <1>1, RegisteredHolds, PTL

-----------------------------------------------------------------------------
(* The bank.                                                               *)

(* Trades come after the grant.                                            *)
Plain(a) == ~ a.granted => a.trades = {}

Grants ==
  \A c \in Clients :
    /\ wallet[c] # << >> => Plain(wallet[c][1].account)
    /\ file[c].account # << >> => Plain(file[c].account[1])

LEMMA PlainLoaded ==
  ASSUME NEW f \in Files, f.account # << >> => Plain(f.account[1])
  PROVE  Plain(Loaded(f).account)
BY LoadedIs, NoMoneyIs DEF Plain

LEMMA PlainFiles ==
  /\ \A w \in Wallets : Saved(w).account[1] = w.account
  /\ \A w \in Wallets : \A p \in PartsOf(w) : p.account # << >> => p.account[1] = w.account
  /\ Plain(NewWallet.account) /\ EmptyFile.account = << >>
<1>1. \A w \in Wallets : <<w.account>>[1] = w.account
  BY Parts, OneOrNone
<1> QED
  BY <1>1, FilesAre, PartsAre, NewWalletIs DEF Plain

(* A wallet whose account is not NoMoney has had the grant.                *)
LEMMA MoneyIsGranted ==
  ASSUME NEW a \in Account, Plain(a), a # NoMoney
  PROVE  a.granted
BY NoMoneyIs DEF Plain

LEMMA GrantsStep == Sound /\ Grants /\ [Next]_vars => Grants'
<1> SUFFICES ASSUME Sound, Grants, [Next]_vars, NEW d \in Clients
             PROVE  /\ wallet'[d] # << >> => Plain(wallet'[d][1].account)
                    /\ file'[d].account # << >> => Plain(file'[d].account[1])
  BY DEF Grants, Plain
<1> USE DEF userVars, walletVars, counterVars, bounds
<1>0. /\ WalletTypes /\ job \in Jobs /\ clerk \in Clerks /\ JobLoaded /\ ids \in Nat
  BY SoundTypes
<1>a. /\ wallet[d] # << >> => Plain(wallet[d][1].account)
      /\ file[d].account # << >> => Plain(file[d].account[1])
  BY DEF Grants
<1>b. Plain(Loaded(file[d]).account)
  BY <1>0, <1>a, PlainLoaded DEF WalletTypes
<1>1. CASE Start \/ StopServer \/ SaveUsers \/ OpenCounter \/ WriteCounter \/ QueueStopped
           \/ PoolStopped \/ Exit \/ OpenUsers \/ WriteUsers \/ Discard
           \/ (\E c \in Clients : Register(c) \/ DestroySession(c) \/ Refuse(c))
           \/ UNCHANGED vars
  <2>1. UNCHANGED <<wallet, file>>
    BY <1>1 DEF Start, StopServer, SaveUsers, OpenCounter, WriteCounter, QueueStopped,
       PoolStopped, Exit, OpenUsers, WriteUsers, Discard, Register, DestroySession, Refuse, vars
  <2> QED
    BY <1>a, <2>1
<1>2. CASE Killed
  BY <1>a, <1>2 DEF Killed
<1>3. CASE OpenWallet
  BY <1>0, <1>a, <1>3, OpenWalletDoes, PlainFiles DEF OpenWallet
<1>4. CASE FillWallet
  BY <1>0, <1>a, <1>4, FillWalletDoes, PlainFiles, NewWalletIs DEF FillWallet
<1>5. ASSUME NEW c \in Clients, OpenSession(c)
      PROVE  /\ wallet'[d] # << >> => Plain(wallet'[d][1].account)
             /\ file'[d].account # << >> => Plain(file'[d].account[1])
  BY <1>0, <1>a, <1>b, <1>5, OpenSessionDoes DEF OpenSession
<1>6. ASSUME NEW c \in Clients, Settle(c)
      PROVE  /\ wallet'[d] # << >> => Plain(wallet'[d][1].account)
             /\ file'[d].account # << >> => Plain(file'[d].account[1])
  <2>1. /\ wallet[c] # << >> /\ wallet[c][1] \in Wallets /\ wallet[c][1].account # NoMoney
        /\ ids' \in Nat /\ file' = file
        /\ wallet'[c][1] = Trading(wallet[c][1], ids')
        /\ \A e \in Clients : e # c => wallet'[e] = wallet[e]
    <3>1. wallet[c][1].account # NoMoney /\ file' = file
      BY <1>6 DEF Settle
    <3> QED
      BY <1>0, <1>6, <3>1, SettleDoes
  <2>2. wallet[c][1].account.granted
    <3>1. wallet[c][1].account \in Account
      BY <2>1, Parts
    <3>2. Plain(wallet[c][1].account)
      BY <2>1 DEF Grants
    <3> QED
      BY <2>1, <3>1, <3>2, MoneyIsGranted
  <2>3. wallet'[c][1].account.granted
    BY <2>1, <2>2, TradingIs
  <2> QED
    BY <1>a, <2>1, <2>3 DEF Plain
<1>7. CASE OpenSave
  <2>1. /\ job.client \in Clients /\ job.step = "open"
        /\ \/ /\ file'[job.client] = EmptyFile
              /\ \A e \in Clients : e # job.client => file'[e] = file[e]
              /\ wallet' = wallet
           \/ file' = file /\ wallet' = WalletAfterSave /\ job' = AfterSave
    BY <1>0, <1>7, OpenSaveDoes
  <2>2. /\ file'[d] = file[d] \/ file'[d] = EmptyFile
        /\ wallet'[d] # << >> => wallet'[d] = wallet[d]
    BY <2>1, SaveGoesOn
  <2> QED
    BY <1>a, <2>2, PlainFiles
<1>8. CASE SpillSave
  BY <1>0, <1>a, <1>8, SpillSaveDoes, PlainFiles
<1>9. CASE CloseSave
  <2>1. /\ \/ file'[d] = file[d]
           \/ wallet[d] # << >> /\ wallet[d][1] \in Wallets /\ file'[d] = Saved(wallet[d][1])
        /\ wallet'[d] # << >> => wallet'[d] = wallet[d]
    BY <1>0, <1>9, CloseSaveDoes, SaveGoesOn
  <2> QED
    BY <1>a, <2>1, PlainFiles
<1>10. CASE AddTransaction
  <2>1. /\ job.client \in Clients /\ wallet[job.client] # << >>
        /\ wallet[job.client][1] \in Wallets /\ job.entry \in Entry
        /\ wallet'[job.client][1] = Telling(wallet[job.client][1], job.entry)
        /\ \A e \in Clients : e # job.client => wallet'[e] = wallet[e]
        /\ file' = file
    BY <1>0, <1>10, AddTransactionDoes DEF AddTransaction
  <2>2. wallet'[job.client][1].account = wallet[job.client][1].account
    BY <2>1, TellingIs
  <2> QED
    BY <1>a, <2>1, <2>2
<1> QED
  BY <1>1, <1>2, <1>3, <1>4, <1>5, <1>6, <1>7, <1>8, <1>9, <1>10
     DEF Next, Shutdown, Registration, Worker

LEMMA GrantsHold == Spec => []Grants
<1>1. Init => Grants
  BY FilesAre DEF Init, Grants
<1> QED
  BY <1>1, GrantsStep, SoundHolds, PTL DEF Spec

(* What the accounts are to the bank.                                      *)
LEMMA HeldIs ==
  ASSUME Sound, Grants, NEW c \in Clients
  PROVE  Held(c) \in Account /\ Plain(Held(c)) /\ HeldByAll[c] = Held(c)
<1>1. file[c] \in Files /\ wallet \in [Clients -> AtMostOne(Wallets)]
  BY SoundTypes DEF WalletTypes
<1>2. CASE wallet[c] = << >>
  BY <1>1, <1>2, LoadedIs, Parts, PlainLoaded DEF Held, HeldByAll, Grants
<1>3. CASE wallet[c] # << >>
  BY <1>1, <1>3, WalletLoaded DEF Held, HeldByAll, Grants
<1> QED
  BY <1>2, <1>3

(* Loads and saves leave every account as it was.                          *)
LEMMA FilesInvisible ==
  ASSUME Sound, Registered, OpenWallet \/ OpenSave \/ SpillSave \/ CloseSave, Orderly, Orderly',
         NEW c \in Clients
  PROVE  Held(c)' = Held(c)
<1> USE DEF Orderly
<1>0. /\ WalletTypes /\ job \in Jobs /\ clerk \in Clerks /\ JobLoaded
  BY SoundTypes
<1>1. CASE OpenWallet
  <2>1. /\ clerk.client \in Clients /\ BeingRegistered(clerk.client) /\ wallet' = wallet
        /\ file'[clerk.client] = EmptyFile
        /\ \A e \in Clients : e # clerk.client => file'[e] = file[e]
    BY <1>0, <1>1, OpenWalletDoes DEF OpenWallet, BeingRegistered
  <2>2. file[clerk.client].account = << >>
    BY <2>1 DEF Registered, AccountsAreUsers
  <2>3. Loaded(EmptyFile).account = NoMoney /\ Loaded(file[clerk.client]).account = NoMoney
    BY <1>0, <2>1, <2>2, LoadedIs, FilesAre DEF WalletTypes
  <2> QED
    BY <2>1, <2>3 DEF Held
<1>2. CASE OpenSave
  <2>1. /\ wallet' = wallet /\ job.client \in Clients /\ wallet[job.client] # << >>
        /\ \A e \in Clients : e # job.client => file'[e] = file[e]
    BY <1>0, <1>2, OpenSaveDoes, SavesLoaded
  <2> QED
    BY <2>1 DEF Held
<1>3. CASE SpillSave
  BY <1>0, <1>3, SpillSaveDoes DEF Held
<1>4. CASE CloseSave
  <2>1. /\ job.client \in Clients /\ wallet[job.client] # << >> /\ job.step = "write"
        /\ wallet[job.client][1] \in Wallets
        /\ file'[job.client] = Saved(wallet[job.client][1])
        /\ \A e \in Clients : e # job.client => file'[e] = file[e]
        /\ wallet' = WalletAfterSave /\ job' = AfterSave
    BY <1>0, <1>4, CloseSaveDoes
  <2>2. /\ wallet'[job.client] = wallet[job.client] \/ wallet'[job.client] = << >>
        /\ \A e \in Clients : e # job.client => wallet'[e] = wallet[e]
    BY <1>0, <2>1, WalletAfterSaveIs, SaveGoesOn
  <2>3. Loaded(file'[job.client]).account = wallet[job.client][1].account
    BY <2>1, LoadedSaved
  <2> QED
    BY <2>1, <2>2, <2>3 DEF Held
<1> QED
  BY <1>1, <1>2, <1>3, <1>4

(* A registration that ends well is the grant of the bank.                 *)
LEMMA FillGrants ==
  ASSUME Sound, Sound', Grants, Grants', Registered, FillWallet, Orderly, Orderly'
  PROVE  \E c \in Clients : Books!Grant(c)
<1> DEFINE a == [granted |-> TRUE, trades |-> {}]
<1>0. /\ WalletTypes /\ clerk \in Clerks
  BY SoundTypes
<1>1. PICK c \in Clients :
        /\ c = clerk.client /\ clerk.step = "fillWallet" /\ BeingRegistered(c)
        /\ file'[c] = Saved(NewWallet)
        /\ \A d \in Clients : d # c => file'[d] = file[d]
        /\ UNCHANGED <<wallet, ids>>
  BY <1>0, FillWalletDoes DEF FillWallet, Orderly, BeingRegistered, counterVars
<1>2. wallet[c] = << >> /\ file[c].account = << >>
  BY <1>1 DEF Sound, LoadedOnce, Registered, AccountsAreUsers
<1>3. Held(c) = NoMoney
  BY <1>0, <1>1, <1>2, LoadedIs DEF Held, WalletTypes
<1>4. Loaded(Saved(NewWallet)).account = a
  BY NewWalletIs, LoadedSaved DEF NewWallet
<1>5. Held(c)' = a
  BY <1>1, <1>2, <1>4 DEF Held
<1>6. \A d \in Clients : d # c => Held(d)' = Held(d)
  BY <1>1 DEF Held
<1>7. [NoMoney EXCEPT !.granted = TRUE] = a
  <2>1. \A x \in Account, g \in BOOLEAN :
          [x EXCEPT !.granted = g] = [granted |-> g, trades |-> x.trades]
    BY DEF Account
  <2> QED
    BY <2>1, NoMoneyIs
<1>8. HeldByAll' = [HeldByAll EXCEPT ![c].granted = TRUE]
  <2> DEFINE f == [HeldByAll EXCEPT ![c].granted = TRUE]
  <2>1. f = [HeldByAll EXCEPT ![c] = [HeldByAll[c] EXCEPT !.granted = TRUE]]
    OBVIOUS
  <2>2. HeldByAll[c] = NoMoney
    BY <1>1, <1>3 DEF HeldByAll
  <2>3. f = [HeldByAll EXCEPT ![c] = a]
    BY <1>7, <2>1, <2>2
  <2> HIDE DEF f, a
  <2> QED
    BY <1>1, <1>5, <1>6, <2>3 DEF HeldByAll, f
<1>9. HeldByAll[c] = Books!NoMoney
  BY <1>1, <1>3 DEF HeldByAll, NoMoney, Books!NoMoney
<1> QED
  BY <1>1, <1>8, <1>9 DEF Books!Grant

(* A settlement is a trade of the bank.                                    *)
LEMMA SettleTrades ==
  ASSUME Sound, Grants, NEW c \in Clients, Settle(c)
  PROVE  Books!Trade(c)
<1> DEFINE w == wallet[c][1]
           n == ids + 1
           b == Trading(w, n).account
<1>0. WalletTypes /\ ids \in Nat /\ n \in Nat
  BY SoundTypes
<1>1. wallet[c] # << >> /\ w.account # NoMoney /\ file' = file
  BY DEF Settle
<1>2. /\ w \in Wallets /\ ids' = n
      /\ wallet'[c] # << >> /\ wallet'[c][1] = Trading(w, n)
      /\ \A d \in Clients : d # c => wallet'[d] = wallet[d]
  BY <1>0, SettleDoes
<1>3. Held(c) = w.account /\ Held(c)' = b
  BY <1>1, <1>2 DEF Held
<1>4. \A d \in Clients : d # c => Held(d)' = Held(d)
  BY <1>1, <1>2 DEF Held
<1>5. w.account \in Account
  BY <1>2, Parts
<1>6. w.account.granted
  <2>1. Plain(w.account)
    BY <1>1 DEF Grants
  <2> QED
    BY <1>1, <1>5, <2>1, MoneyIsGranted
<1>7. [w.account EXCEPT !.trades = @ \cup {n}] = b
  <2> DEFINE t == w.account.trades \cup {n}
  <2>1. b = [granted |-> w.account.granted, trades |-> t]
    BY DEF Trading
  <2>2. t \in SUBSET Nat
    BY <1>0, <1>5, Parts
  <2>3. [w.account EXCEPT !.trades = t] = [granted |-> w.account.granted, trades |-> t]
    <3> HIDE DEF t, w
    <3> QED
      BY <1>5, <2>2, Replaced
  <2> QED
    BY <2>1, <2>3
<1>8. HeldByAll' = [HeldByAll EXCEPT ![c].trades = @ \cup {n}]
  <2> DEFINE f == [HeldByAll EXCEPT ![c].trades = @ \cup {n}]
  <2>1. f = [HeldByAll EXCEPT ![c] = [HeldByAll[c] EXCEPT !.trades = @ \cup {n}]]
    OBVIOUS
  <2>2. HeldByAll[c] = w.account
    BY <1>3 DEF HeldByAll
  <2>3. f = [HeldByAll EXCEPT ![c] = b]
    BY <1>7, <2>1, <2>2
  <2> HIDE DEF f, b, w, n
  <2> QED
    BY <1>3, <1>4, <2>3 DEF HeldByAll, f
<1>9. HeldByAll[c].granted
  BY <1>3, <1>6 DEF HeldByAll
<1> QED
  BY <1>2, <1>8, <1>9 DEF Books!Trade

(* Every step without a kill or a failure is a step of the bank.           *)
LEMMA BankSteps ==
  ASSUME Sound, Sound', Grants, Grants', Registered, [Next]_vars, Orderly, Orderly'
  PROVE  [Books!BankNext]_<<HeldByAll, ids>>
<1> USE DEF userVars, walletVars, counterVars, bounds
<1>0. /\ WalletTypes /\ job \in Jobs /\ clerk \in Clerks /\ JobLoaded
  BY SoundTypes
<1>a. ASSUME ids' = ids, \A c \in Clients : Held(c)' = Held(c)
      PROVE  UNCHANGED <<HeldByAll, ids>>
  BY <1>a DEF HeldByAll
<1>1. CASE Start \/ StopServer \/ SaveUsers \/ OpenCounter \/ WriteCounter \/ QueueStopped
           \/ PoolStopped \/ Exit \/ OpenUsers \/ WriteUsers
           \/ (\E c \in Clients : Register(c) \/ DestroySession(c)) \/ UNCHANGED vars
  <2>1. UNCHANGED <<wallet, file, ids>>
    BY <1>1 DEF Start, StopServer, SaveUsers, OpenCounter, WriteCounter, QueueStopped,
       PoolStopped, Exit, OpenUsers, WriteUsers, Register, DestroySession, vars
  <2> QED
    BY <1>a, <2>1 DEF Held
<1>2. CASE Killed
  BY <1>2 DEF Killed, Orderly
<1>3. CASE OpenWallet \/ OpenSave \/ SpillSave \/ CloseSave
  <2>1. ids' = ids
    BY <1>3 DEF OpenWallet, OpenSave, SpillSave, CloseSave
  <2> QED
    BY <1>3, <1>a, <2>1, FilesInvisible
<1>4. CASE FillWallet
  BY <1>4, FillGrants DEF Books!BankNext
<1>5. ASSUME NEW c \in Clients, OpenSession(c) PROVE UNCHANGED <<HeldByAll, ids>>
  <2>1. /\ UNCHANGED <<file, ids>> /\ wallet[c] = << >>
        /\ wallet'[c] # << >> /\ wallet'[c][1] = Loaded(file[c])
        /\ \A e \in Clients : e # c => wallet'[e] = wallet[e]
    BY <1>0, <1>5, OpenSessionDoes DEF OpenSession
  <2> QED
    BY <1>a, <2>1 DEF Held
<1>6. CASE Discard \/ (\E c \in Clients : Refuse(c))
  <2>1. UNCHANGED <<wallet, file>> /\ ids' = ids + 1
    BY <1>6 DEF Discard, Refuse, NewId
  <2>2. HeldByAll' = HeldByAll
    BY <2>1 DEF HeldByAll, Held
  <2> QED
    BY <2>1, <2>2 DEF Books!BankNext, Books!Refuse
<1>7. ASSUME NEW c \in Clients, Settle(c) PROVE Books!BankNext
  BY <1>7, SettleTrades DEF Books!BankNext
<1>8. CASE AddTransaction
  <2>1. /\ job.client \in Clients /\ wallet[job.client] # << >>
        /\ wallet[job.client][1] \in Wallets /\ job.entry \in Entry
        /\ wallet'[job.client] # << >>
        /\ wallet'[job.client][1] = Telling(wallet[job.client][1], job.entry)
        /\ \A e \in Clients : e # job.client => wallet'[e] = wallet[e]
    BY <1>0, <1>8, AddTransactionDoes
  <2>2. UNCHANGED <<file, ids>>
    BY <1>8 DEF AddTransaction
  <2>3. wallet'[job.client][1].account = wallet[job.client][1].account
    BY <2>1, TellingIs
  <2> QED
    BY <1>a, <2>1, <2>2, <2>3 DEF Held
<1> QED
  BY <1>1, <1>2, <1>3, <1>4, <1>5, <1>6, <1>7, <1>8
     DEF Next, Shutdown, Registration, Worker

(* Kills and failures are counted and never forgotten.                     *)
LEMMA OrderlyBefore ==
  ASSUME Sound, [Next]_vars, Orderly'
  PROVE  Orderly
<1> USE DEF userVars, walletVars, counterVars, bounds
<1>1. failures \in Nat /\ kills \in Nat
  BY SoundTypes DEF TypeOK
<1>2. failures' = failures \/ failures' = failures + 1
  BY DEF Next, Shutdown, Registration, Worker, vars, Start, Killed, StopServer, SaveUsers,
         OpenCounter, WriteCounter, QueueStopped, PoolStopped, Exit, DestroySession,
         OpenUsers, WriteUsers, OpenWallet, FillWallet, Register, OpenSession, Discard,
         OpenSave, SpillSave, CloseSave, AddTransaction, Refuse, Settle, Works, Fails
<1>3. kills' = kills \/ kills' = kills + 1
  BY DEF Next, Shutdown, Registration, Worker, vars, Start, Killed, StopServer, SaveUsers,
         OpenCounter, WriteCounter, QueueStopped, PoolStopped, Exit, DestroySession,
         OpenUsers, WriteUsers, OpenWallet, FillWallet, Register, OpenSession, Discard,
         OpenSave, SpillSave, CloseSave, AddTransaction, Refuse, Settle
<1>4. kills = 0 /\ failures = 0
  BY <1>1, <1>2, <1>3 DEF Orderly
<1> QED
  BY <1>4 DEF Orderly

(* The store starts as the bank does: nobody has any money.                *)
LEMMA BankStarts == Init => Books!BankInit
<1> SUFFICES ASSUME Init PROVE Books!BankInit
  OBVIOUS
<1>1. \A c \in Clients : Held(c) = NoMoney
  BY FilesAre, LoadedIs DEF Init, Held
<1> QED
  BY <1>1 DEF Init, HeldByAll, NoMoney, Books!NoMoney, Books!BankInit

(* As long as the process is not killed and no file operation fails,       *)
(* restarts, loads and saves are invisible in the accounts: every step of  *)
(* the store up to the first kill or failure is a step of the bank.        *)
THEOREM BankImplemented == Spec => ImplementsBank
<1>1. Sound /\ Sound' /\ Grants /\ Grants' /\ Registered /\ [Next]_vars
        => [kills' = 0 /\ failures' = 0 => [Books!BankNext]_<<HeldByAll, ids>>]_vars
  <2> SUFFICES ASSUME Sound, Sound', Grants, Grants', Registered, [Next]_vars, Orderly'
               PROVE  [Books!BankNext]_<<HeldByAll, ids>>
    BY DEF Orderly
  <2> QED
    BY OrderlyBefore, BankSteps
<1> QED
  BY <1>1, BankStarts, SoundHolds, GrantsHold, RegisteredHolds, PTL
     DEF Spec, ImplementsBank
=============================================================================
