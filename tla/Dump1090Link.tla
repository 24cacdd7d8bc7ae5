---------------------------- MODULE Dump1090Link ----------------------------
(***************************************************************************)
(* The connection to dump1090 (class dump1090, dump1090.cpp): the main     *)
(* thread connects, retries with a back-off and disconnects; the receive   *)
(* thread reads until the connection ends.  They share the atomic `fd` and *)
(* the process's descriptor table, in which the other parts of the         *)
(* process open and close descriptors too, reusing freed numbers.          *)
(* The messages themselves are left to the modules behind the callback.    *)
(***************************************************************************)
EXTENDS Integers, Sequences, FiniteSets

CONSTANTS
  Descriptor,   (* descriptor numbers                                      *)
  NoFd,         (* -1                                                      *)
  Candidate,    (* the addresses the host name stands for                  *)
  Candidates,   (* the list resolve_candidates() makes of them             *)
  DelayStart,   (* retry_delay_start                                       *)
  DelayCap,     (* retry_delay_cap                                         *)
  RetryBound    (* bound of the model: retries counted                     *)

ASSUME DescriptorAssumption == NoFd \notin Descriptor
ASSUME CandidateAssumption == Candidates \in Seq(Candidate)
ASSUME DelayAssumption ==
  /\ DelayStart \in Nat \ {0} /\ DelayCap \in Nat
  /\ DelayStart <= DelayCap
ASSUME RetryBoundAssumption ==
  RetryBound \in Nat /\ DelayStart * 2 ^ RetryBound >= DelayCap
(* What the proof about the back-off needs to know of powers. *)
ASSUME PowersOfTwo ==
  2 ^ 0 = 1 /\ \A n \in 0..RetryBound : 2 ^ n \in Nat /\ 2 ^ (n + 1) = 2 * 2 ^ n

VARIABLES
  fd,         (* dump1090::fd                                               *)
  table,      (* who holds each descriptor number: "free", "link", "other"   *)
  peer,       (* the link's connection: "up", "silent", "ended", "shut"      *)
  rpc,        (* the receive thread's place in processMessages()            *)
  cur,        (* its local `cur`                                            *)
  owned,      (* its local `owned`                                          *)
  joinable,   (* recv_thread.joinable()                                     *)
  mpc,        (* the main thread's place                                    *)
  untried,    (* the candidates connect_to_dump1090() has not tried yet     *)
  newFd,      (* connect_candidate()'s new_fd                               *)
  taken,      (* disconnect()'s `cur`                                       *)
  elapsed,    (* the monotonic clock minus last_tried, up to DelayCap + 1   *)
  delay,      (* retry_delay                                                *)
  retries,    (* retries since the link was up last, up to RetryBound       *)
  running,    (* the flag sigIntHandler() clears                            *)
  destroying, (* main() has returned and ~dump1090() runs                   *)
  accepting,  (* the candidates that accept connections                     *)
  resolving   (* name resolution works                                      *)

recvVars == <<rpc, cur, owned>>
backoffVars == <<elapsed, delay, retries>>
connectVars == <<untried, newFd>>
stopVars == <<taken, destroying>>
hostVars == <<accepting, resolving>>
vars == <<fd, table, peer, recvVars, joinable, mpc, connectVars, backoffVars,
          stopVars, running, hostVars>>

(* No difference of two times longer than this is told apart. *)
LongAgo == DelayCap + 1

(* The constructor enters connect_to_dump1090() directly; last_tried is 0, *)
(* so `elapsed` is how long the host has been up.                          *)
Init ==
  /\ fd = NoFd
  /\ table \in [Descriptor -> {"free", "other"}]
  /\ peer = "ended"
  /\ rpc = "exited" /\ cur = NoFd /\ owned = NoFd /\ joinable = FALSE
  /\ mpc = "join" /\ untried = <<>> /\ newFd = NoFd
  /\ elapsed \in 0..LongAgo /\ delay = DelayStart /\ retries = 0
  /\ taken = NoFd /\ destroying = FALSE
  /\ running = TRUE
  /\ accepting \in SUBSET Candidate /\ resolving \in BOOLEAN

-----------------------------------------------------------------------------
(* The environment. *)

Tick ==
  /\ elapsed < LongAgo
  /\ elapsed' = elapsed + 1
  /\ UNCHANGED <<fd, table, peer, recvVars, joinable, mpc, connectVars, delay,
                 retries, stopVars, running, hostVars>>

Signal ==
  /\ running
  /\ running' = FALSE
  /\ UNCHANGED <<fd, table, peer, recvVars, joinable, mpc, connectVars,
                 backoffVars, stopVars, hostVars>>

(* The host comes and goes. *)
HostChanges ==
  /\ \/ accepting' \in SUBSET Candidate /\ UNCHANGED resolving
     \/ resolving' = ~resolving /\ UNCHANGED accepting
  /\ UNCHANGED <<fd, table, peer, recvVars, joinable, mpc, connectVars,
                 backoffVars, stopVars, running>>

(* The peer closes or resets the connection (what it sent before that has  *)
(* been read), or vanishes without a word.                                 *)
PeerLeaves ==
  /\ peer = "up"
  /\ peer' \in {"ended", "silent"}
  /\ UNCHANGED <<fd, table, recvVars, joinable, mpc, connectVars, backoffVars,
                 stopVars, running, hostVars>>

(* The keepalive probes set up in connect_candidate() go unanswered. *)
KeepaliveExpires ==
  /\ peer = "silent"
  /\ peer' = "ended"
  /\ UNCHANGED <<fd, table, recvVars, joinable, mpc, connectVars, backoffVars,
                 stopVars, running, hostVars>>

(* The rest of the process opens and closes descriptors of its own. *)
OthersUseTable ==
  /\ \E f \in Descriptor :
       \/ table[f] = "free" /\ table' = [table EXCEPT ![f] = "other"]
       \/ table[f] = "other" /\ table' = [table EXCEPT ![f] = "free"]
  /\ UNCHANGED <<fd, peer, recvVars, joinable, mpc, connectVars, backoffVars,
                 stopVars, running, hostVars>>

-----------------------------------------------------------------------------
(* The receive thread: processMessages(). *)

ReadFd ==
  /\ rpc = "check"
  /\ cur' = fd
  /\ rpc' = IF fd = NoFd THEN "exited" ELSE "recv"
  /\ UNCHANGED <<fd, table, peer, owned, joinable, mpc, connectVars,
                 backoffVars, stopVars, running, hostVars>>

(* recv() returns data: the peer's, or what was buffered when the socket   *)
(* was shut down.  The lines are handled without a look at the connection. *)
RecvData ==
  /\ rpc = "recv"
  /\ peer \in {"up", "shut"}
  /\ rpc' = "lines"
  /\ UNCHANGED <<fd, table, peer, cur, owned, joinable, mpc, connectVars,
                 backoffVars, stopVars, running, hostVars>>

HandleLines ==
  /\ rpc = "lines"
  /\ rpc' = "check"
  /\ UNCHANGED <<fd, table, peer, cur, owned, joinable, mpc, connectVars,
                 backoffVars, stopVars, running, hostVars>>

(* recv() returns 0 or an error. *)
RecvEnds ==
  /\ rpc = "recv"
  /\ peer \in {"ended", "shut"}
  /\ rpc' = "drop"
  /\ UNCHANGED <<fd, table, peer, cur, owned, joinable, mpc, connectVars,
                 backoffVars, stopVars, running, hostVars>>

(* Mutant: not an exchange; the thread closes the descriptor it read. *)
DropWithoutExchange ==
  /\ rpc = "drop"
  /\ owned' = cur
  /\ fd' = NoFd
  /\ rpc' = "close"
  /\ UNCHANGED <<table, peer, cur, joinable, mpc, connectVars, backoffVars,
                 stopVars, running, hostVars>>

(* fd.exchange(-1): whoever gets the descriptor closes it. *)
DropTakesFd ==
  /\ rpc = "drop"
  /\ owned' = fd
  /\ fd' = NoFd
  /\ rpc' = IF fd = NoFd THEN "exited" ELSE "close"
  /\ UNCHANGED <<table, peer, cur, joinable, mpc, connectVars, backoffVars,
                 stopVars, running, hostVars>>

CloseOwned ==
  /\ rpc = "close"
  /\ table' = [table EXCEPT ![owned] = "free"]
  /\ rpc' = "exited"
  /\ UNCHANGED <<fd, peer, cur, owned, joinable, mpc, connectVars, backoffVars,
                 stopVars, running, hostVars>>

-----------------------------------------------------------------------------
(* The main thread: its loop, and reconnect(). *)

TestRunning ==
  /\ mpc = "loop"
  /\ mpc' = IF running THEN "reconnect" ELSE "exchange"
  /\ UNCHANGED <<fd, table, peer, recvVars, joinable, connectVars, backoffVars,
                 stopVars, running, hostVars>>

(* reconnect() while the link is up, or while it is too early to retry. *)
NoRetry ==
  /\ mpc = "reconnect"
  /\ fd # NoFd \/ elapsed <= delay
  /\ mpc' = "loop"
  /\ UNCHANGED <<fd, table, peer, recvVars, joinable, connectVars, backoffVars,
                 stopVars, running, hostVars>>

(* Mutant: the delay is doubled without a cap. *)
DoubledUncapped(d) == 2 * d

Doubled(d) == IF 2 * d < DelayCap THEN 2 * d ELSE DelayCap

(* The delay is doubled before the attempt, whose success resets it. *)
Retry ==
  /\ mpc = "reconnect"
  /\ fd = NoFd /\ elapsed > delay
  /\ delay' = Doubled(delay)
  /\ elapsed' = 0
  /\ retries' = IF retries < RetryBound THEN retries + 1 ELSE retries
  /\ mpc' = "join"
  /\ UNCHANGED <<fd, table, peer, recvVars, joinable, connectVars, stopVars,
                 running, hostVars>>

-----------------------------------------------------------------------------
(* The main thread: connect_to_dump1090(). *)

(* Mutant: the old receive thread is not joined. *)
NoJoinOld ==
  /\ mpc = "join"
  /\ mpc' = "resolve"
  /\ UNCHANGED <<fd, table, peer, recvVars, joinable, connectVars, backoffVars,
                 stopVars, running, hostVars>>

JoinOld ==
  /\ mpc = "join"
  /\ joinable => rpc = "exited"
  /\ joinable' = FALSE
  /\ mpc' = "resolve"
  /\ UNCHANGED <<fd, table, peer, recvVars, connectVars, backoffVars,
                 stopVars, running, hostVars>>

Resolve ==
  /\ mpc = "resolve"
  /\ untried' = IF resolving THEN Candidates ELSE <<>>
  /\ mpc' = "try"
  /\ UNCHANGED <<fd, table, peer, recvVars, joinable, newFd, backoffVars,
                 stopVars, running, hostVars>>

(* connect_candidate()'s socket(). *)
OpenSocket ==
  /\ mpc = "try" /\ untried # <<>>
  /\ \E f \in Descriptor :
       /\ table[f] = "free"
       /\ newFd' = f
       /\ table' = [table EXCEPT ![f] = "link"]
  /\ mpc' = "connect"
  /\ UNCHANGED <<fd, peer, recvVars, joinable, untried, backoffVars,
                 stopVars, running, hostVars>>

(* No descriptor is left: socket() fails and the next candidate is tried. *)
NoSocket ==
  /\ mpc = "try" /\ untried # <<>>
  /\ \A f \in Descriptor : table[f] # "free"
  /\ untried' = Tail(untried)
  /\ UNCHANGED <<fd, table, peer, recvVars, joinable, mpc, newFd, backoffVars,
                 stopVars, running, hostVars>>

(* Mutant: only the first candidate is tried. *)
ConnectFailsForAll ==
  /\ mpc = "connect"
  /\ Head(untried) \notin accepting
  /\ table' = [table EXCEPT ![newFd] = "free"]
  /\ newFd' = NoFd
  /\ untried' = <<>>
  /\ mpc' = "try"
  /\ UNCHANGED <<fd, peer, recvVars, joinable, backoffVars, stopVars, running,
                 hostVars>>

(* The candidate refuses, is unreachable or lets connect_timeout_ms pass; the *)
(* other failing returns of connect_candidate() end in the same way.         *)
ConnectFails ==
  /\ mpc = "connect"
  /\ Head(untried) \notin accepting
  /\ table' = [table EXCEPT ![newFd] = "free"]
  /\ newFd' = NoFd
  /\ untried' = Tail(untried)
  /\ mpc' = "try"
  /\ UNCHANGED <<fd, peer, recvVars, joinable, backoffVars, stopVars, running,
                 hostVars>>

(* Mutant: a success leaves the delay where the retries took it. *)
ConnectedNoReset ==
  /\ mpc = "connect"
  /\ Head(untried) \in accepting
  /\ fd' = newFd /\ newFd' = NoFd /\ untried' = <<>>
  /\ retries' = 0
  /\ peer' = "up"
  /\ joinable' = TRUE /\ rpc' = "check"
  /\ mpc' = "loop"
  /\ UNCHANGED <<table, cur, owned, elapsed, delay, stopVars, running, hostVars>>

(* The new descriptor is published before the receive thread is spawned. *)
Connected ==
  /\ mpc = "connect"
  /\ Head(untried) \in accepting
  /\ fd' = newFd /\ newFd' = NoFd /\ untried' = <<>>
  /\ delay' = DelayStart /\ retries' = 0
  /\ peer' = "up"
  /\ joinable' = TRUE /\ rpc' = "check"
  /\ mpc' = "loop"
  /\ UNCHANGED <<table, cur, owned, elapsed, stopVars, running, hostVars>>

(* No candidate is left, or name resolution gave none. *)
AttemptFails ==
  /\ mpc = "try" /\ untried = <<>>
  /\ mpc' = "loop"
  /\ UNCHANGED <<fd, table, peer, recvVars, joinable, connectVars, backoffVars,
                 stopVars, running, hostVars>>

-----------------------------------------------------------------------------
(* The main thread: disconnect(), at the end of main() and then once more  *)
(* in the destructor.                                                      *)

DisconnectTakesFd ==
  /\ mpc = "exchange"
  /\ taken' = fd
  /\ fd' = NoFd
  /\ mpc' = IF fd = NoFd THEN "join_last" ELSE "shutdown"
  /\ UNCHANGED <<table, peer, recvVars, joinable, connectVars, backoffVars,
                 destroying, running, hostVars>>

(* Mutant: the descriptor is closed at once, which wakes no recv(). *)
CloseInsteadOfShutdown ==
  /\ mpc = "shutdown"
  /\ table' = [table EXCEPT ![taken] = "free"]
  /\ taken' = NoFd
  /\ mpc' = "join_last"
  /\ UNCHANGED <<fd, peer, recvVars, joinable, connectVars, backoffVars,
                 destroying, running, hostVars>>

(* Wakes the receive thread if it is blocked in recv(). *)
ShutdownSocket ==
  /\ mpc = "shutdown"
  /\ peer' = "shut"
  /\ mpc' = "join_last"
  /\ UNCHANGED <<fd, table, recvVars, joinable, connectVars, backoffVars,
                 stopVars, running, hostVars>>

(* Mutant: the receive thread is not joined. *)
NoJoinLast ==
  /\ mpc = "join_last"
  /\ mpc' = IF taken = NoFd THEN "stopped" ELSE "close"
  /\ UNCHANGED <<fd, table, peer, recvVars, joinable, connectVars, backoffVars,
                 stopVars, running, hostVars>>

JoinLast ==
  /\ mpc = "join_last"
  /\ joinable => rpc = "exited"
  /\ joinable' = FALSE
  /\ mpc' = IF taken = NoFd THEN "stopped" ELSE "close"
  /\ UNCHANGED <<fd, table, peer, recvVars, connectVars, backoffVars, stopVars,
                 running, hostVars>>

CloseTaken ==
  /\ mpc = "close"
  /\ table' = [table EXCEPT ![taken] = "free"]
  /\ taken' = NoFd
  /\ mpc' = "stopped"
  /\ UNCHANGED <<fd, peer, recvVars, joinable, connectVars, backoffVars,
                 destroying, running, hostVars>>

Destroy ==
  /\ mpc = "stopped"
  /\ destroying' = TRUE
  /\ mpc' = IF destroying THEN "done" ELSE "exchange"
  /\ UNCHANGED <<fd, table, peer, recvVars, joinable, connectVars, backoffVars,
                 taken, running, hostVars>>

-----------------------------------------------------------------------------
Environment ==
  \/ Tick \/ Signal \/ HostChanges \/ PeerLeaves \/ KeepaliveExpires
  \/ OthersUseTable \/ RecvData

ReceiveThread ==
  \/ ReadFd \/ HandleLines \/ RecvEnds \/ DropTakesFd \/ CloseOwned

MainThread ==
  \/ TestRunning \/ NoRetry \/ Retry
  \/ JoinOld \/ Resolve \/ OpenSocket \/ NoSocket
  \/ ConnectFails \/ Connected \/ AttemptFails
  \/ DisconnectTakesFd \/ ShutdownSocket \/ JoinLast \/ CloseTaken \/ Destroy

Next == Environment \/ ReceiveThread \/ MainThread

SafeSpec == Init /\ [][Next]_vars

(* Both threads keep running -- a connect ends, at the latest when poll()  *)
(* times out -- time passes, and a dead peer's keepalive probes run out.   *)
(* That a peer which is up sends anything is not assumed.                  *)
Spec == /\ SafeSpec
        /\ WF_vars(ReceiveThread) /\ WF_vars(MainThread)
        /\ WF_vars(Tick) /\ WF_vars(KeepaliveExpires)

-----------------------------------------------------------------------------
(* Type invariant: every variable, and both threads' places. *)
TypeOK ==
  /\ fd \in Descriptor \cup {NoFd}
  /\ table \in [Descriptor -> {"free", "link", "other"}]
  /\ peer \in {"up", "silent", "ended", "shut"}
  /\ rpc \in {"check", "recv", "lines", "drop", "close", "exited"}
  /\ cur \in Descriptor \cup {NoFd} /\ owned \in Descriptor \cup {NoFd}
  /\ joinable \in BOOLEAN
  /\ mpc \in {"loop", "reconnect", "join", "resolve", "try", "connect",
              "exchange", "shutdown", "join_last", "close", "stopped", "done"}
  /\ untried \in Seq(Candidate)
  /\ newFd \in Descriptor \cup {NoFd} /\ taken \in Descriptor \cup {NoFd}
  /\ elapsed \in 0..LongAgo /\ delay \in DelayStart..DelayCap
  /\ retries \in 0..RetryBound
  /\ running \in BOOLEAN /\ destroying \in BOOLEAN
  /\ accepting \subseteq Candidate /\ resolving \in BOOLEAN

(* Whatever a thread hands to recv(), shutdown() or close() is the link's   *)
(* own open socket, never a number that was closed and that another part   *)
(* of the process has got since (comment in dump1090::disconnect).         *)
UsesOwnSocket ==
  /\ rpc \in {"recv", "lines", "drop"} => cur # NoFd /\ table[cur] = "link"
  /\ rpc = "close" => owned # NoFd /\ table[owned] = "link"
  /\ mpc = "connect" => newFd # NoFd /\ table[newFd] = "link"
  /\ mpc = "shutdown" => taken # NoFd
  /\ taken # NoFd => table[taken] = "link"

(* The places responsible for closing descriptor f. *)
Holders(f) ==
  {h \in {"fd", "owned", "newFd", "taken"} :
     \/ h = "fd" /\ fd = f
     \/ h = "owned" /\ rpc = "close" /\ owned = f
     \/ h = "newFd" /\ newFd = f
     \/ h = "taken" /\ taken = f}

(* Exactly one place is responsible for closing each open socket, and at   *)
(* most one socket is open: no drop leaks a descriptor, and none is closed *)
(* twice (comments in processMessages() and disconnect()).                 *)
OneOwner ==
  /\ \A f \in Descriptor : Cardinality(Holders(f)) = IF table[f] = "link" THEN 1 ELSE 0
  /\ \A f, g \in Descriptor : table[f] = "link" /\ table[g] = "link" => f = g

(* A receive thread is spawned only when the previous one was joined:       *)
(* assigning to a joinable std::thread would end the process (comment in   *)
(* connect_to_dump1090()), and the old one would read the new connection.  *)
JoinedBeforeSpawn == mpc \in {"try", "connect"} => ~joinable /\ rpc = "exited"

(* The pause before the next retry: doubled by each since the last success. *)
Wait(n) == IF DelayStart * 2 ^ n < DelayCap THEN DelayStart * 2 ^ n ELSE DelayCap

(* A retry is made exactly when the back-off says so, however long the      *)
(* attempts before it took: later by a factor of two after each attempt    *)
(* that did not succeed, up to the cap, and from the start after a success.*)
BackoffSchedule ==
  [][mpc = "reconnect" /\ mpc' # mpc =>
       (mpc' = "join" <=> fd = NoFd /\ elapsed > Wait(retries))]_vars

(* Over however many connections, drops and retries, the link is one feed  *)
(* of data to whoever uses it: disconnect() waits for the chunk in hand,   *)
(* lets at most one more begin, and returns; afterwards, in the            *)
(* destructor's second call too, nothing is handled (main()'s teardown:    *)
(* "stop ingestion, no more pushes").                                      *)
Disconnecting ==
  IF destroying \/ mpc \in {"close", "stopped", "done"} THEN "closed"
  ELSE IF mpc \in {"shutdown", "join_last"} THEN "closing"
  ELSE "open"
Reading ==
  IF rpc = "lines" THEN "handling"
  ELSE IF Disconnecting = "open" \/ rpc = "recv" THEN "waiting"
  ELSE "gone"

Feed == INSTANCE DataFeed WITH reader <- Reading, phase <- Disconnecting
ProvidesFeed == Feed!Spec

(* While the program runs and one of the host's addresses stays reachable, *)
(* the link is up again and again, however often it is lost, and whichever *)
(* address that is.                                                        *)
Recovers ==
  (\E c \in Candidate : <>[](resolving /\ c \in accepting /\ running
                            /\ \E f \in Descriptor : table[f] # "other"))
    => []<>(fd # NoFd /\ peer = "up")

(* A signal ends in a finished main thread, a joined receive thread and no *)
(* open socket, wherever the link was.                                     *)
LinkStops ==
  ~running ~> /\ mpc = "done" /\ rpc = "exited" /\ ~joinable
              /\ \A f \in Descriptor : table[f] # "link"
=============================================================================
