---------------------------- MODULE WalletStore ----------------------------
(***************************************************************************)
(* What the server keeps on disk and what it finds there when it starts    *)
(* again: users.txt, one wallet file per client and counter.txt, with the  *)
(* registration of src/code/Server.cpp, the loading and saving of          *)
(* src/code/Wallet.cpp and the counter of src/code/Transaction.cpp.        *)
(*                                                                         *)
(* A file is rewritten by opening it, which empties it, and closing it,    *)
(* which writes what the stream has buffered; the process may be killed in *)
(* between.  Three threads write:                                          *)
(*   clerk   the thread holding usersMutex: a registration, or StopServer  *)
(*           saving the users                                              *)
(*   job     the queue's worker settling a transaction, or the destructors *)
(*           of a session and its wallet after the worker is gone          *)
(*   phase   StopServer itself, which saves the counter                    *)
(* An account is named by where its money comes from (see Bank), a line of *)
(* the history by its identifier and status.                               *)
(***************************************************************************)
EXTENDS Integers, Sequences, FiniteSets

CONSTANTS
  Clients,
  BufferLines,   \* how many history lines the stream buffers with the balances
  MaxIds,        \* bound: transaction identifiers made
  MaxStarts,     \* bound: times the server is started
  MaxKills,      \* bound: times the process is killed
  MaxFailures    \* bound: opens and writes that fail

ASSUME StoreAssumption ==
  /\ BufferLines \in Nat \ {0}
  /\ MaxIds \in Nat
  /\ MaxStarts \in Nat
  /\ MaxKills \in Nat
  /\ MaxFailures \in Nat

VARIABLES
  phase,        \* where StartServer, StopServer and ~Server have got to
  users,        \* the map of users
  usersFile,    \* the users listed in users.txt
  clerk,        \* the holder of usersMutex
  wallet,       \* << >> or the loaded account and history of a client
  file,         \* the wallet files
  job,          \* the settlement or destruction in progress
  counter,      \* Transaction::counter (of the last process, when down)
  counterFile,  \* << >> or the number in counter.txt
  ids,          \* identifiers made by all processes: the nanosecond clock
  starts,       \* how often the server was started
  kills,        \* how often it was killed
  failures      \* how many opens and writes have failed

vars == <<phase, users, usersFile, clerk, wallet, file, job, counter,
          counterFile, ids, starts, kills, failures>>

bounds   == <<starts, kills, failures>>
userVars    == <<users, usersFile, clerk>>
walletVars  == <<wallet, file, job>>
counterVars == <<counter, counterFile, ids>>

Account == [granted : BOOLEAN, trades : SUBSET Nat]
NoMoney == [granted |-> FALSE, trades |-> {}]
Entry   == [id : Nat, status : {"COMPLETED", "FAILED", "UNKNOWN"}]

AtMostOne(S) == {s \in Seq(S) : Len(s) <= 1}

Wallets == [account : Account, history : Seq(Entry)]
Files   == [there : BOOLEAN, account : AtMostOne(Account), history : Seq(Entry)]

NoFile    == [there |-> FALSE, account |-> << >>, history |-> << >>]
EmptyFile == [there |-> TRUE, account |-> << >>, history |-> << >>]
Saved(w)  == [there |-> TRUE, account |-> <<w.account>>, history |-> w.history]

(* What a wallet file holds before it is closed: nothing, or what went     *)
(* over the buffer's capacity, cut anywhere.  The last line may be cut in  *)
(* its last field; a line cut earlier is not recognised when it is read.   *)
CutHistories(h) ==
  LET Cut(n) == SubSeq(h, 1, n)
  IN  {Cut(n) : n \in BufferLines .. Len(h) - 1} \cup
      {[Cut(n) EXCEPT ![n].status = "UNKNOWN"] : n \in BufferLines + 1 .. Len(h)}

PartsOf(w) ==
  {EmptyFile} \cup {[Saved(w) EXCEPT !.history = h] : h \in CutHistories(w.history)}

(* loadFromFile.  The loop over the balance lines has read a third line    *)
(* when it notices that it has two balances, and that line is lost.        *)
Loaded(f) ==
  IF f.account = << >>
  THEN [account |-> NoMoney, history |-> << >>]
  ELSE [account |-> f.account[1],
        history |-> IF f.history = << >> THEN << >> ELSE Tail(f.history)]

Idle    == [step |-> "idle"]
Serving == {"up", "savingUsers", "savingCounter", "openCounter", "draining"}

Clerks ==
  {Idle} \cup
  [step : {"openUsers", "writeUsers"}, client : Clients,
   next : {"create", "undone"}] \cup
  [step : {"openUsers", "writeUsers"}, next : {"stop"}] \cup
  [step : {"openWallet", "fillWallet"}, client : Clients]

Jobs ==
  {Idle} \cup
  [step : {"open", "write"}, client : Clients, entry : Entry,
   by : {"worker"}] \cup
  [step : {"append"}, client : Clients, entry : Entry] \cup
  [step : {"open", "write"}, client : Clients, by : {"session", "destructor"}]

TypeOK ==
  /\ phase \in Serving \cup {"down", "joiningPool", "destroying"}
  /\ users \in SUBSET Clients
  /\ usersFile \in SUBSET Clients
  /\ clerk \in Clerks
  /\ wallet \in [Clients -> AtMostOne(Wallets)]
  /\ file \in [Clients -> Files]
  /\ job \in Jobs
  /\ counter \in Nat
  /\ counterFile \in AtMostOne(Nat)
  /\ ids \in Nat
  /\ starts \in Nat
  /\ kills \in Nat
  /\ failures \in Nat

Init ==
  /\ phase = "down"
  /\ users = {}
  /\ usersFile = {}
  /\ clerk = Idle
  /\ wallet = [c \in Clients |-> << >>]
  /\ file = [c \in Clients |-> NoFile]
  /\ job = Idle
  /\ counter = 0
  /\ counterFile = << >>
  /\ ids = 0
  /\ starts = 0
  /\ kills = 0
  /\ failures = 0

-----------------------------------------------------------------------------
(* An open or a write succeeds, or fails.                                  *)

Works == UNCHANGED failures

Fails ==
  /\ failures < MaxFailures
  /\ failures' = failures + 1

-----------------------------------------------------------------------------
(* Starting, and the order in which StopServer and ~Server write.          *)

(* LoadUsersInternal: a missing file reads as one without users.           *)
LoadedUsers == usersFile

(* Mutant: a counter that cannot be read is -1.                             *)
MinusOneWithoutFile == IF counterFile = << >> THEN -1 ELSE counterFile[1]

(* loadCounter: a missing or empty file reads as zero.                     *)
LoadedCounter == IF counterFile = << >> THEN 0 ELSE counterFile[1]

Start ==
  /\ phase = "down"
  /\ starts < MaxStarts
  /\ starts' = starts + 1
  /\ phase' = "up"
  /\ users' = LoadedUsers
  /\ counter' = LoadedCounter
  /\ UNCHANGED <<usersFile, clerk, walletVars, counterFile, ids, kills, failures>>

(* AcceptLoop has left its loop; main destroys the server.                 *)
StopServer ==
  /\ phase = "up"
  /\ phase' = "savingUsers"
  /\ UNCHANGED <<userVars, walletVars, counterVars, bounds>>

SaveUsers ==
  /\ phase = "savingUsers"
  /\ clerk = Idle
  /\ clerk' = [step |-> "openUsers", next |-> "stop"]
  /\ UNCHANGED <<phase, users, usersFile, walletVars, counterVars, bounds>>

OpenCounter ==
  /\ phase = "savingCounter"
  /\ \/ /\ Works
        /\ counterFile' = << >>
        /\ phase' = "openCounter"
     \/ /\ Fails
        /\ phase' = "draining"
        /\ UNCHANGED counterFile
  /\ UNCHANGED <<userVars, walletVars, counter, ids, starts, kills>>

WriteCounter ==
  /\ phase = "openCounter"
  /\ phase' = "draining"
  /\ \/ Works /\ counterFile' = <<counter>>
     \/ Fails /\ UNCHANGED counterFile
  /\ UNCHANGED <<userVars, walletVars, counter, ids, starts, kills>>

(* txQueue.stop() has joined the worker.                                   *)
QueueStopped ==
  /\ phase = "draining"
  /\ job = Idle
  /\ phase' = "joiningPool"
  /\ UNCHANGED <<userVars, walletVars, counterVars, bounds>>

PoolStopped ==
  /\ phase = "joiningPool"
  /\ clerk = Idle
  /\ phase' = "destroying"
  /\ UNCHANGED <<userVars, walletVars, counterVars, bounds>>

(* ~Server destroys activeSessions: each session saves its wallet, and the *)
(* wallet's own destructor saves it again.                                 *)
DestroySession(c) ==
  /\ phase = "destroying"
  /\ job = Idle
  /\ wallet[c] # << >>
  /\ job' = [step |-> "open", client |-> c, by |-> "session"]
  /\ UNCHANGED <<phase, userVars, wallet, file, counterVars, bounds>>

Exit ==
  /\ phase = "destroying"
  /\ job = Idle
  /\ wallet = [c \in Clients |-> << >>]
  /\ phase' = "down"
  /\ users' = {}
  /\ UNCHANGED <<usersFile, clerk, walletVars, counterVars, bounds>>

(* No signal handler is installed: SIGTERM, like SIGKILL, ends the process *)
(* where it stands.                                                        *)
Killed ==
  /\ kills < MaxKills
  /\ kills' = kills + 1
  /\ phase # "down"
  /\ phase' = "down"
  /\ users' = {}
  /\ clerk' = Idle
  /\ job' = Idle
  /\ wallet' = [c \in Clients |-> << >>]
  /\ UNCHANGED <<usersFile, file, counterVars, starts, failures>>

-----------------------------------------------------------------------------
(* processAuthRequest and SaveUsersInternal, under usersMutex.             *)

BeingRegistered(c) == "client" \in DOMAIN clerk /\ clerk.client = c

PoolRuns == phase \in Serving \cup {"joiningPool"}

Register(c) ==
  /\ PoolRuns
  /\ clerk = Idle
  /\ c \notin users
  /\ users' = users \cup {c}
  /\ clerk' = [step |-> "openUsers", client |-> c, next |-> "create"]
  /\ UNCHANGED <<phase, usersFile, walletVars, counterVars, bounds>>

(* Mutant: the wallet file is left to the first session.                   *)
AfterUsersAlone == Idle

AfterUsers ==
  CASE clerk.next = "create" -> [step |-> "openWallet", client |-> clerk.client]
    [] clerk.next \in {"undone", "stop"} -> Idle

PhaseAfterUsers == IF clerk.next = "stop" THEN "savingCounter" ELSE phase

OpenUsers ==
  /\ clerk.step = "openUsers"
  /\ \/ /\ Works
        /\ usersFile' = {}
        /\ clerk' = [clerk EXCEPT !.step = "writeUsers"]
        /\ UNCHANGED phase
     \/ /\ Fails
        /\ clerk' = AfterUsers
        /\ phase' = PhaseAfterUsers
        /\ UNCHANGED usersFile
  /\ UNCHANGED <<users, walletVars, counterVars, starts, kills>>

(* Mutant: what is written was read before the new user was added.         *)
WriteOldUsers ==
  /\ clerk.step = "writeUsers"
  /\ usersFile' = IF clerk.next = "create" THEN users \ {clerk.client} ELSE users
  /\ clerk' = AfterUsers
  /\ phase' = PhaseAfterUsers
  /\ UNCHANGED <<users, walletVars, counterVars, bounds>>

(* A write that fails leaves some of the lines.                            *)
WriteUsers ==
  /\ clerk.step = "writeUsers"
  /\ \/ Works /\ usersFile' = users
     \/ Fails /\ usersFile' \in SUBSET users
  /\ clerk' = AfterUsers
  /\ phase' = PhaseAfterUsers
  /\ UNCHANGED <<users, walletVars, counterVars, starts, kills>>

(* CreateWalletFile.  If the file cannot be opened the user is taken back. *)
OpenWallet ==
  /\ clerk.step = "openWallet"
  /\ \/ /\ Works
        /\ file' = [file EXCEPT ![clerk.client] = EmptyFile]
        /\ clerk' = [clerk EXCEPT !.step = "fillWallet"]
        /\ UNCHANGED users
     \/ /\ Fails
        /\ users' = users \ {clerk.client}
        /\ clerk' = [step |-> "openUsers", client |-> clerk.client, next |-> "undone"]
        /\ UNCHANGED file
  /\ UNCHANGED <<phase, usersFile, wallet, job, counterVars, starts, kills>>

NewWallet == [account |-> [granted |-> TRUE, trades |-> {}], history |-> << >>]

(* The two lines stay in the stream until close, whose failure nobody      *)
(* looks at: the registration succeeds all the same.                       *)
FillWallet ==
  /\ clerk.step = "fillWallet"
  /\ \/ Works /\ file' = [file EXCEPT ![clerk.client] = Saved(NewWallet)]
     \/ Fails /\ UNCHANGED file
  /\ clerk' = Idle
  /\ UNCHANGED <<phase, users, usersFile, wallet, job, counterVars, starts, kills>>

(* Mutant: an active session is not looked for.                            *)
OpenSecondSession(c) ==
  /\ PoolRuns
  /\ c \in users
  /\ ~ BeingRegistered(c)
  /\ wallet' = [wallet EXCEPT ![c] = <<Loaded(file[c])>>]
  /\ UNCHANGED <<phase, userVars, file, job, counterVars, bounds>>

(* HandleClient, once the client is authenticated: a client has at most    *)
(* one session, which lives as long as the process.                        *)
OpenSession(c) ==
  /\ PoolRuns
  /\ c \in users
  /\ ~ BeingRegistered(c)
  /\ wallet[c] = << >>
  /\ wallet' = [wallet EXCEPT ![c] = <<Loaded(file[c])>>]
  /\ UNCHANGED <<phase, userVars, file, job, counterVars, bounds>>

-----------------------------------------------------------------------------
(* The queue's worker: processRequest, as far as the files are concerned.  *)
(* Every request takes an identifier.                                      *)

NewId ==
  /\ phase \in Serving
  /\ job = Idle
  /\ ids < MaxIds
  /\ ids' = ids + 1
  /\ counter' = counter + 1

(* No session, or no valid price: nothing is kept of the transaction.      *)
Discard ==
  /\ NewId
  /\ UNCHANGED <<phase, userVars, walletVars, counterFile, bounds>>

(* The funds do not cover it: only the history in memory is written.       *)
Refuse(c) ==
  /\ NewId
  /\ wallet[c] # << >>
  /\ job' = [step |-> "append", client |-> c,
             entry |-> [id |-> ids', status |-> "FAILED"]]
  /\ UNCHANGED <<phase, userVars, wallet, file, counterFile, bounds>>

(* Mutant: the identifier is the counter alone.                            *)
SettleByCounter(c) ==
  /\ NewId
  /\ wallet[c] # << >>
  /\ wallet[c][1].account # NoMoney
  /\ wallet' = [wallet EXCEPT ![c][1].account.trades = @ \cup {counter'}]
  /\ job' = [step |-> "open", client |-> c, by |-> "worker",
             entry |-> [id |-> counter', status |-> "COMPLETED"]]
  /\ UNCHANGED <<phase, userVars, file, counterFile, bounds>>

(* Mutant: the file is left to the destructor.                             *)
SettleInMemory(c) ==
  /\ NewId
  /\ wallet[c] # << >>
  /\ wallet[c][1].account # NoMoney
  /\ wallet' = [wallet EXCEPT ![c][1].account.trades = @ \cup {ids'}]
  /\ job' = [step |-> "append", client |-> c,
             entry |-> [id |-> ids', status |-> "COMPLETED"]]
  /\ UNCHANGED <<phase, userVars, file, counterFile, bounds>>

(* A wallet without money covers no transaction.                           *)
Settle(c) ==
  /\ NewId
  /\ wallet[c] # << >>
  /\ wallet[c][1].account # NoMoney
  /\ wallet' = [wallet EXCEPT ![c][1].account.trades = @ \cup {ids'}]
  /\ job' = [step |-> "open", client |-> c, by |-> "worker",
             entry |-> [id |-> ids', status |-> "COMPLETED"]]
  /\ UNCHANGED <<phase, userVars, file, counterFile, bounds>>

(* saveToFile, for the worker and for the two destructors.                 *)
AfterSave ==
  CASE job.by = "worker" -> [step |-> "append", client |-> job.client, entry |-> job.entry]
    [] job.by = "session" -> [step |-> "open", client |-> job.client, by |-> "destructor"]
    [] job.by = "destructor" -> Idle

WalletAfterSave ==
  IF job.by = "destructor" THEN [wallet EXCEPT ![job.client] = << >>] ELSE wallet

(* Mutant: if the file cannot be opened the balances are taken back, but    *)
(* the transaction stays completed.                                        *)
OpenSaveOrUndo ==
  /\ job.step = "open"
  /\ \/ /\ Works
        /\ file' = [file EXCEPT ![job.client] = EmptyFile]
        /\ job' = [job EXCEPT !.step = "write"]
        /\ UNCHANGED wallet
     \/ /\ Fails
        /\ job' = AfterSave
        /\ wallet' = IF job.by # "worker" THEN WalletAfterSave
                     ELSE [wallet EXCEPT ![job.client][1].account.trades =
                                            @ \ {job.entry.id}]
        /\ UNCHANGED file
  /\ UNCHANGED <<phase, userVars, counterVars, starts, kills>>

OpenSave ==
  /\ job.step = "open"
  /\ \/ /\ Works
        /\ file' = [file EXCEPT ![job.client] = EmptyFile]
        /\ job' = [job EXCEPT !.step = "write"]
        /\ UNCHANGED wallet
     \/ /\ Fails
        /\ job' = AfterSave
        /\ wallet' = WalletAfterSave
        /\ UNCHANGED file
  /\ UNCHANGED <<phase, userVars, counterVars, starts, kills>>

(* The stream's buffer is full.                                            *)
SpillSave ==
  /\ job.step = "write"
  /\ \E part \in PartsOf(wallet[job.client][1]) :
       /\ Len(part.history) > Len(file[job.client].history)
       /\ file' = [file EXCEPT ![job.client] = part]
  /\ UNCHANGED <<phase, userVars, wallet, job, counterVars, bounds>>

CloseSave ==
  /\ job.step = "write"
  /\ \/ Works /\ file' = [file EXCEPT ![job.client] = Saved(wallet[job.client][1])]
     \/ Fails /\ UNCHANGED file
  /\ job' = AfterSave
  /\ wallet' = WalletAfterSave
  /\ UNCHANGED <<phase, userVars, counterVars, starts, kills>>

AddTransaction ==
  /\ job.step = "append"
  /\ wallet' = [wallet EXCEPT ![job.client][1].history = Append(@, job.entry)]
  /\ job' = Idle
  /\ UNCHANGED <<phase, userVars, file, counterVars, bounds>>

-----------------------------------------------------------------------------
Shutdown ==
  \/ StopServer \/ SaveUsers \/ OpenCounter \/ WriteCounter
  \/ QueueStopped \/ PoolStopped \/ Exit
  \/ \E c \in Clients : DestroySession(c)

Registration ==
  \/ OpenUsers \/ WriteUsers \/ OpenWallet \/ FillWallet
  \/ \E c \in Clients : Register(c) \/ OpenSession(c)

Worker ==
  \/ Discard \/ OpenSave \/ SpillSave \/ CloseSave \/ AddTransaction
  \/ \E c \in Clients : Refuse(c) \/ Settle(c)

Next == Start \/ Killed \/ Shutdown \/ Registration \/ Worker

Spec == Init /\ [][Next]_vars

-----------------------------------------------------------------------------
(* Properties.                                                             *)

BeingSaved(c) == "by" \in DOMAIN job /\ job.client = c

(* The account of a client, in memory if it is loaded and otherwise as it  *)
(* would be loaded.                                                        *)
Held(c) == IF wallet[c] = << >> THEN Loaded(file[c]).account ELSE wallet[c][1].account

CompletedIn(h) == {h[i].id : i \in {j \in 1 .. Len(h) : h[j].status = "COMPLETED"}}

(* While nothing fails, whatever the process has acknowledged survives it  *)
(* being killed: the users in memory are those on disk except during a     *)
(* registration, and the account of a loaded wallet is the one in its file *)
(* except while that file is being written (SaveUsersInternal and          *)
(* saveToFile are called at once, not at shutdown).                        *)
AcknowledgedIsSaved ==
  failures = 0 =>
    /\ phase # "down" /\ clerk = Idle => usersFile = users
    /\ \A c \in Clients :
         wallet[c] # << >> /\ ~ BeingSaved(c) => Held(c) = Loaded(file[c]).account

(* While nothing fails, being killed costs the money of the one client     *)
(* whose wallet file was open: it finds its account as it was or nothing   *)
(* at all, and nobody else notices (saveToFile rewrites in place).         *)
KilledCostsOneWallet ==
  [][ failures = 0 /\ phase # "down" /\ phase' = "down" =>
        \A c \in Clients :
          Held(c)' # Held(c) => BeingSaved(c) /\ job.step \in {"open", "write"} ]_vars

(* No history, in memory or on disk, tells of a completed transaction that *)
(* the account next to it does not contain, however the process was killed *)
(* or writes failed: balances are written before the history, and the      *)
(* transaction enters the history after the balances were saved.           *)
HistoryIsBacked ==
  \A c \in Clients :
    /\ wallet[c] # << >> =>
         CompletedIn(wallet[c][1].history) \subseteq wallet[c][1].account.trades
    /\ file[c].account # << >> =>
         CompletedIn(file[c].history) \subseteq file[c].account[1].trades

(* Histories stay in the order of execution and never hold a transaction   *)
(* twice, over any number of restarts, although the counter in the         *)
(* identifiers starts again from an old value.                             *)
Increasing(h) == \A i \in 1 .. Len(h) - 1 : h[i].id < h[i + 1].id

HistoryIncreases ==
  \A c \in Clients :
    /\ wallet[c] # << >> => Increasing(wallet[c][1].history)
    /\ Increasing(file[c].history)

(* Every user has a wallet file, registration being all or nothing under   *)
(* usersMutex (processAuthRequest), as long as the process is not killed   *)
(* and no file operation fails.                                            *)
UsersHaveWallets ==
  kills = 0 /\ failures = 0 =>
    \A c \in (users \cup usersFile) : BeingRegistered(c) \/ file[c].there

(* As long as the process is not killed and no file operation fails,       *)
(* restarts, loads and saves are invisible in the accounts: the store is   *)
(* the bank, whose every step is the one grant of a client or a trade.     *)
HeldByAll == [c \in Clients |-> Held(c)]
Books == INSTANCE Bank WITH held <- HeldByAll
ImplementsBank ==
  /\ Books!BankInit
  /\ [][kills' = 0 /\ failures' = 0 => [Books!BankNext]_<<HeldByAll, ids>>]_vars

-----------------------------------------------------------------------------
(* What comments of the code say and the code does not do.                 *)

(* Wallet.cpp, before the loop over the balances: "Limite la boucle aux 2  *)
(* premières lignes pour les soldes", after it "Lecture de l'historique    *)
(* des transactions": the history of the file is the history loaded.       *)
HistorySurvivesLoad ==
  [][ \A c \in Clients :
        wallet[c] = << >> /\ wallet'[c] # << >> =>
          wallet'[c][1].history = file[c].history ]_vars
=============================================================================
