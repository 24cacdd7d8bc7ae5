------------------------- MODULE Dump1090LinkProofs -------------------------
(***************************************************************************)
(* What holds of the dump1090 link for every number of descriptors and     *)
(* addresses and every back-off: who owns a socket, who may use it, and    *)
(* when a retry is due.                                                    *)
(***************************************************************************)
EXTENDS Dump1090Link, FiniteSetTheorems, TLAPS

(* A receive thread that runs was spawned and is joinable; from the join   *)
(* to the spawn, and from the last join on, there is none.                 *)
Threads ==
  /\ rpc # "exited" => joinable
  /\ mpc \in {"resolve", "try", "connect", "close"} => ~joinable
  /\ mpc \in {"join", "resolve", "try", "connect"} => fd = NoFd
  /\ mpc = "connect" => untried # <<>>

(* When each place holds a descriptor, and that no two of them do at once. *)
Places ==
  /\ newFd # NoFd <=> mpc = "connect"
  /\ mpc \in {"shutdown", "close"} => taken # NoFd
  /\ taken # NoFd => mpc \in {"shutdown", "join_last", "close"} /\ fd = NoFd
  /\ fd # NoFd => mpc \in {"loop", "reconnect", "exchange"}
  /\ rpc = "close" => owned # NoFd /\ fd = NoFd /\ taken = NoFd

(* The link's open sockets are the descriptors those places hold.          *)
Held(f) == fd = f \/ newFd = f \/ taken = f \/ (rpc = "close" /\ owned = f)

Sockets == \A f \in Descriptor : table[f] = "link" <=> Held(f)

(* The receive thread reads from the link's descriptor, or from the one    *)
(* disconnect() took and will not close before it has joined the thread.   *)
Reads ==
  rpc \in {"recv", "lines", "drop"} => cur # NoFd /\ (cur = fd \/ cur = taken)

(* The link's descriptor and its reader come and go together: who reads    *)
(* has a connection, lost or taken perhaps, and a connection has a reader. *)
(* The one the last join waits for was woken.                              *)
Active == {"check", "recv", "lines", "drop"}

Attended ==
  /\ fd # NoFd => rpc \in Active
  /\ rpc \in Active => fd # NoFd \/ taken # NoFd
  /\ mpc = "join_last" /\ taken # NoFd => peer = "shut"

(* After disconnect(), and in the destructor's, there is nothing left.     *)
Stops ==
  /\ destroying => mpc \in {"exchange", "join_last", "stopped", "done"}
  /\ destroying \/ mpc \in {"close", "stopped", "done"} =>
       rpc = "exited" /\ ~joinable /\ fd = NoFd
  /\ destroying \/ mpc \in {"stopped", "done"} => taken = NoFd

LinkInv == TypeOK /\ Threads /\ Places /\ Sockets /\ Reads /\ Attended /\ Stops

LEMMA InitLinkInv == Init => LinkInv
<1> SUFFICES ASSUME Init PROVE LinkInv
  OBVIOUS
<1>1. TypeOK
  <2>1. table \in [Descriptor -> {"free", "link", "other"}]
    BY DEF Init
  <2>2. untried \in Seq(Candidate)
    BY DEF Init
  <2>3. delay \in DelayStart..DelayCap /\ retries \in 0..RetryBound
    BY DelayAssumption, RetryBoundAssumption DEF Init
  <2>4. joinable \in BOOLEAN /\ running \in BOOLEAN /\ destroying \in BOOLEAN
    BY DEF Init
  <2> QED BY <2>1, <2>2, <2>3, <2>4 DEF Init, TypeOK
<1>2. Threads /\ Places /\ Reads /\ Attended /\ Stops
  BY DEF Init, Threads, Places, Reads, Active, Attended, Stops
<1>3. Sockets
  BY DescriptorAssumption DEF Init, Sockets, Held
<1> QED BY <1>1, <1>2, <1>3 DEF LinkInv

(* Every step keeps the types. *)
LEMMA StepTypes ==
  ASSUME LinkInv, [Next]_vars
  PROVE  TypeOK'
<1> USE DEF LinkInv, TypeOK
<1>1. CASE Tick
  BY <1>1, DelayAssumption DEF Tick, LongAgo, recvVars, backoffVars, connectVars, stopVars, hostVars
<1>2. CASE Signal
  <2>1. running' \in BOOLEAN
    BY <1>2 DEF Signal
  <2> QED BY <1>2, <2>1 DEF Signal, recvVars, backoffVars, connectVars, stopVars, hostVars
<1>3. CASE HostChanges
  <2>1. resolving' \in BOOLEAN /\ accepting' \subseteq Candidate
    BY <1>3 DEF HostChanges
  <2> QED BY <1>3, <2>1 DEF HostChanges, recvVars, backoffVars, connectVars, stopVars, hostVars
<1>4. CASE PeerLeaves
  BY <1>4 DEF PeerLeaves, recvVars, backoffVars, connectVars, stopVars, hostVars
<1>5. CASE KeepaliveExpires
  BY <1>5 DEF KeepaliveExpires, recvVars, backoffVars, connectVars, stopVars, hostVars
<1>6. CASE OthersUseTable
  BY <1>6 DEF OthersUseTable, recvVars, backoffVars, connectVars, stopVars, hostVars
<1>7. CASE RecvData
  BY <1>7 DEF RecvData, recvVars, backoffVars, connectVars, stopVars, hostVars
<1>8. CASE ReadFd
  BY <1>8 DEF ReadFd, recvVars, backoffVars, connectVars, stopVars, hostVars
<1>9. CASE HandleLines
  BY <1>9 DEF HandleLines, recvVars, backoffVars, connectVars, stopVars, hostVars
<1>10. CASE RecvEnds
  BY <1>10 DEF RecvEnds, recvVars, backoffVars, connectVars, stopVars, hostVars
<1>11. CASE DropTakesFd
  BY <1>11 DEF DropTakesFd, recvVars, backoffVars, connectVars, stopVars, hostVars
<1>12. CASE CloseOwned
  <2>1. table' \in [Descriptor -> {"free", "link", "other"}]
    BY <1>12 DEF CloseOwned
  <2> QED BY <1>12, <2>1 DEF CloseOwned, recvVars, backoffVars, connectVars, stopVars, hostVars
<1>13. CASE TestRunning
  BY <1>13 DEF TestRunning, recvVars, backoffVars, connectVars, stopVars, hostVars
<1>14. CASE NoRetry
  BY <1>14 DEF NoRetry, recvVars, backoffVars, connectVars, stopVars, hostVars
<1>15. CASE Retry
  BY <1>15, DelayAssumption, RetryBoundAssumption DEF Retry, Doubled, LongAgo, recvVars, backoffVars, connectVars, stopVars, hostVars
<1>16. CASE JoinOld
  <2>1. joinable' \in BOOLEAN
    BY <1>16 DEF JoinOld
  <2> QED BY <1>16, <2>1 DEF JoinOld, recvVars, backoffVars, connectVars, stopVars, hostVars
<1>17. CASE Resolve
  BY <1>17, CandidateAssumption DEF Resolve, recvVars, backoffVars, connectVars, stopVars, hostVars
<1>18. CASE OpenSocket
  BY <1>18 DEF OpenSocket, recvVars, backoffVars, connectVars, stopVars, hostVars
<1>19. CASE NoSocket
  BY <1>19 DEF NoSocket, recvVars, backoffVars, connectVars, stopVars, hostVars
<1>20. CASE ConnectFails
  <2>1. table' \in [Descriptor -> {"free", "link", "other"}]
    BY <1>20 DEF ConnectFails
  <2>2. untried' \in Seq(Candidate)
    BY <1>20 DEF ConnectFails, Threads
  <2> QED BY <1>20, <2>1, <2>2 DEF ConnectFails, recvVars, backoffVars, connectVars, stopVars, hostVars
<1>21. CASE Connected
  <2>1. joinable' \in BOOLEAN
    BY <1>21 DEF Connected
  <2>2. untried' \in Seq(Candidate)
    BY <1>21 DEF Connected
  <2>3. delay' \in DelayStart..DelayCap /\ retries' \in 0..RetryBound
    BY <1>21, DelayAssumption, RetryBoundAssumption DEF Connected
  <2> QED BY <1>21, <2>1, <2>2, <2>3 DEF Connected, recvVars, backoffVars, connectVars, stopVars, hostVars
<1>22. CASE AttemptFails
  BY <1>22 DEF AttemptFails, recvVars, backoffVars, connectVars, stopVars, hostVars
<1>23. CASE DisconnectTakesFd
  BY <1>23 DEF DisconnectTakesFd, recvVars, backoffVars, connectVars, stopVars, hostVars
<1>24. CASE ShutdownSocket
  BY <1>24 DEF ShutdownSocket, recvVars, backoffVars, connectVars, stopVars, hostVars
<1>25. CASE JoinLast
  <2>1. joinable' \in BOOLEAN
    BY <1>25 DEF JoinLast
  <2> QED BY <1>25, <2>1 DEF JoinLast, recvVars, backoffVars, connectVars, stopVars, hostVars
<1>26. CASE CloseTaken
  <2>1. table' \in [Descriptor -> {"free", "link", "other"}]
    BY <1>26 DEF CloseTaken
  <2> QED BY <1>26, <2>1 DEF CloseTaken, recvVars, backoffVars, connectVars, stopVars, hostVars
<1>27. CASE Destroy
  BY <1>27 DEF Destroy, recvVars, backoffVars, connectVars, stopVars, hostVars
<1>28. CASE UNCHANGED vars
  BY <1>28 DEF vars, recvVars, backoffVars, connectVars, stopVars, hostVars
<1> QED BY <1>1, <1>2, <1>3, <1>4, <1>5, <1>6, <1>7, <1>8, <1>9, <1>10, <1>11, <1>12, <1>13, <1>14, <1>15, <1>16, <1>17, <1>18, <1>19, <1>20, <1>21, <1>22, <1>23, <1>24, <1>25, <1>26, <1>27, <1>28
       DEF Next, Environment, ReceiveThread, MainThread

(* Every step keeps who holds and who uses which descriptor. *)
LEMMA StepOwnership ==
  ASSUME LinkInv, [Next]_vars
  PROVE  Threads' /\ Places' /\ Sockets' /\ Reads'
<1> USE DescriptorAssumption DEF LinkInv, TypeOK, Threads, Places, Sockets, Held, Reads
<1>1. CASE Tick
  BY <1>1 DEF Tick, recvVars, backoffVars, connectVars, stopVars, hostVars
<1>2. CASE Signal
  BY <1>2 DEF Signal, recvVars, backoffVars, connectVars, stopVars, hostVars
<1>3. CASE HostChanges
  BY <1>3 DEF HostChanges, recvVars, backoffVars, connectVars, stopVars, hostVars
<1>4. CASE PeerLeaves
  BY <1>4 DEF PeerLeaves, recvVars, backoffVars, connectVars, stopVars, hostVars
<1>5. CASE KeepaliveExpires
  BY <1>5 DEF KeepaliveExpires, recvVars, backoffVars, connectVars, stopVars, hostVars
<1>6. CASE OthersUseTable
  BY <1>6 DEF OthersUseTable, recvVars, backoffVars, connectVars, stopVars, hostVars
<1>7. CASE RecvData
  BY <1>7 DEF RecvData, recvVars, backoffVars, connectVars, stopVars, hostVars
<1>8. CASE ReadFd
  BY <1>8 DEF ReadFd, recvVars, backoffVars, connectVars, stopVars, hostVars
<1>9. CASE HandleLines
  BY <1>9 DEF HandleLines, recvVars, backoffVars, connectVars, stopVars, hostVars
<1>10. CASE RecvEnds
  BY <1>10 DEF RecvEnds, recvVars, backoffVars, connectVars, stopVars, hostVars
<1>11. CASE DropTakesFd
  BY <1>11 DEF DropTakesFd, recvVars, backoffVars, connectVars, stopVars, hostVars
<1>12. CASE CloseOwned
  BY <1>12 DEF CloseOwned, recvVars, backoffVars, connectVars, stopVars, hostVars
<1>13. CASE TestRunning
  BY <1>13 DEF TestRunning, recvVars, backoffVars, connectVars, stopVars, hostVars
<1>14. CASE NoRetry
  BY <1>14 DEF NoRetry, recvVars, backoffVars, connectVars, stopVars, hostVars
<1>15. CASE Retry
  BY <1>15 DEF Retry, recvVars, backoffVars, connectVars, stopVars, hostVars
<1>16. CASE JoinOld
  BY <1>16 DEF JoinOld, recvVars, backoffVars, connectVars, stopVars, hostVars
<1>17. CASE Resolve
  BY <1>17 DEF Resolve, recvVars, backoffVars, connectVars, stopVars, hostVars
<1>18. CASE OpenSocket
  BY <1>18 DEF OpenSocket, recvVars, backoffVars, connectVars, stopVars, hostVars
<1>19. CASE NoSocket
  BY <1>19 DEF NoSocket, recvVars, backoffVars, connectVars, stopVars, hostVars
<1>20. CASE ConnectFails
  BY <1>20 DEF ConnectFails, recvVars, backoffVars, connectVars, stopVars, hostVars
<1>21. CASE Connected
  BY <1>21 DEF Connected, recvVars, backoffVars, connectVars, stopVars, hostVars
<1>22. CASE AttemptFails
  BY <1>22 DEF AttemptFails, recvVars, backoffVars, connectVars, stopVars, hostVars
<1>23. CASE DisconnectTakesFd
  BY <1>23 DEF DisconnectTakesFd, recvVars, backoffVars, connectVars, stopVars, hostVars
<1>24. CASE ShutdownSocket
  BY <1>24 DEF ShutdownSocket, recvVars, backoffVars, connectVars, stopVars, hostVars
<1>25. CASE JoinLast
  BY <1>25 DEF JoinLast, recvVars, backoffVars, connectVars, stopVars, hostVars
<1>26. CASE CloseTaken
  BY <1>26 DEF CloseTaken, recvVars, backoffVars, connectVars, stopVars, hostVars
<1>27. CASE Destroy
  BY <1>27 DEF Destroy, recvVars, backoffVars, connectVars, stopVars, hostVars
<1>28. CASE UNCHANGED vars
  BY <1>28 DEF vars, recvVars, backoffVars, connectVars, stopVars, hostVars
<1> QED BY <1>1, <1>2, <1>3, <1>4, <1>5, <1>6, <1>7, <1>8, <1>9, <1>10, <1>11, <1>12, <1>13, <1>14, <1>15, <1>16, <1>17, <1>18, <1>19, <1>20, <1>21, <1>22, <1>23, <1>24, <1>25, <1>26, <1>27, <1>28
       DEF Next, Environment, ReceiveThread, MainThread

(* Every step keeps descriptor and reader together, and stays stopped. *)
LEMMA StepAttendance ==
  ASSUME LinkInv, [Next]_vars
  PROVE  Attended' /\ Stops'
<1> USE DescriptorAssumption
    DEF LinkInv, TypeOK, Threads, Places, Reads, Active, Attended, Stops,
        recvVars, backoffVars, connectVars, stopVars, hostVars
<1>1. CASE Tick \/ Signal \/ HostChanges
  BY <1>1 DEF Tick, Signal, HostChanges
<1>2. CASE PeerLeaves \/ KeepaliveExpires \/ OthersUseTable
  BY <1>2 DEF PeerLeaves, KeepaliveExpires, OthersUseTable
<1>3. CASE RecvData
  BY <1>3 DEF RecvData
<1>4. CASE ReadFd
  BY <1>4 DEF ReadFd
<1>5. CASE HandleLines \/ RecvEnds
  BY <1>5 DEF HandleLines, RecvEnds
<1>6. CASE DropTakesFd
  BY <1>6 DEF DropTakesFd
<1>7. CASE CloseOwned
  BY <1>7 DEF CloseOwned
<1>8. CASE TestRunning \/ NoRetry \/ Retry
  BY <1>8 DEF TestRunning, NoRetry, Retry
<1>9. CASE JoinOld
  BY <1>9 DEF JoinOld
<1>10. CASE Resolve \/ OpenSocket \/ NoSocket
  BY <1>10 DEF Resolve, OpenSocket, NoSocket
<1>11. CASE ConnectFails \/ AttemptFails
  BY <1>11 DEF ConnectFails, AttemptFails
<1>12. CASE Connected
  BY <1>12 DEF Connected
<1>13. CASE DisconnectTakesFd
  BY <1>13 DEF DisconnectTakesFd
<1>14. CASE ShutdownSocket
  BY <1>14 DEF ShutdownSocket
<1>15. CASE JoinLast
  BY <1>15 DEF JoinLast
<1>16. CASE CloseTaken
  BY <1>16 DEF CloseTaken
<1>17. CASE Destroy
  BY <1>17 DEF Destroy
<1>18. CASE UNCHANGED vars
  BY <1>18 DEF vars
<1> QED BY <1>1, <1>2, <1>3, <1>4, <1>5, <1>6, <1>7, <1>8, <1>9, <1>10,
           <1>11, <1>12, <1>13, <1>14, <1>15, <1>16, <1>17, <1>18
        DEF Next, Environment, ReceiveThread, MainThread

LEMMA LinkInvariant == SafeSpec => []LinkInv
<1>1. LinkInv /\ [Next]_vars => LinkInv'
  BY StepTypes, StepOwnership, StepAttendance DEF LinkInv
<1> QED BY <1>1, InitLinkInv, PTL DEF SafeSpec

-----------------------------------------------------------------------------
(* Every variable and both threads' places stay well formed; in particular *)
(* the retry delay never exceeds its cap.                                  *)
THEOREM LinkTypes == SafeSpec => []TypeOK
<1>1. LinkInv => TypeOK
  BY DEF LinkInv
<1> QED BY <1>1, LinkInvariant, PTL

(* recv(), shutdown() and close() are only ever given the link's own open  *)
(* socket, whatever numbers the rest of the process uses.                  *)
THEOREM OwnSocketOnly == SafeSpec => []UsesOwnSocket
<1>1. LinkInv => UsesOwnSocket
  BY DescriptorAssumption
     DEF LinkInv, TypeOK, Threads, Places, Sockets, Held, Reads, UsesOwnSocket
<1> QED BY <1>1, LinkInvariant, PTL

(* No receive thread is ever spawned over one that was not joined.         *)
THEOREM SpawnsAfterJoin == SafeSpec => []JoinedBeforeSpawn
<1>1. LinkInv => JoinedBeforeSpawn
  BY DEF LinkInv, Threads, JoinedBeforeSpawn
<1> QED BY <1>1, LinkInvariant, PTL

(* Every open socket will be closed by exactly one place, and there is at  *)
(* most one: nothing leaks and nothing is closed twice.                    *)
THEOREM OwnedOnce == SafeSpec => []OneOwner
<1>1. LinkInv => OneOwner
  <2> SUFFICES ASSUME LinkInv PROVE OneOwner
    OBVIOUS
  <2> USE DescriptorAssumption DEF LinkInv, TypeOK, Threads, Places, Sockets, Held
  <2>1. ASSUME NEW f \in Descriptor, table[f] # "link"
        PROVE  Cardinality(Holders(f)) = 0
    <3>1. Holders(f) = {}
      BY <2>1 DEF Holders
    <3> QED BY <3>1, FS_EmptySet
  <2>2. ASSUME NEW f \in Descriptor, table[f] = "link"
        PROVE  Cardinality(Holders(f)) = 1
    <3>1. PICK h \in {"fd", "owned", "newFd", "taken"} : Holders(f) = {h}
      <4>1. CASE fd = f
        BY <2>2, <4>1 DEF Holders
      <4>2. CASE newFd = f
        BY <2>2, <4>2 DEF Holders
      <4>3. CASE taken = f
        BY <2>2, <4>3 DEF Holders
      <4>4. CASE rpc = "close" /\ owned = f
        BY <2>2, <4>4 DEF Holders
      <4> QED BY <2>2, <4>1, <4>2, <4>3, <4>4
    <3> QED BY <3>1, FS_Singleton
  <2>3. \A f, g \in Descriptor : table[f] = "link" /\ table[g] = "link" => f = g
    OBVIOUS
  <2> QED BY <2>1, <2>2, <2>3 DEF OneOwner
<1> QED BY <1>1, LinkInvariant, PTL

-----------------------------------------------------------------------------
(* reconnect() may take fd # -1 for "connected": while fd is set its        *)
(* receive thread is there to notice a loss (reconnect() would never retry *)
(* over an fd that nobody reads).                                          *)
LinkAttended == fd # NoFd => rpc \in Active /\ joinable

THEOREM UpMeansAttended == SafeSpec => []LinkAttended
<1>1. LinkInv => LinkAttended
  BY DEF LinkInv, Threads, Attended, Active, LinkAttended
<1> QED BY <1>1, LinkInvariant, PTL

(* No join waits for data: the main loop's only ever for a thread that has *)
(* left recv() and gone past its exchange, the last one for a thread whose *)
(* recv() was ended by shutdown() (comment in disconnect(): a bare close() *)
(* would leave the join hanging).                                          *)
JoinsReturn ==
  /\ mpc = "join" => rpc \in {"close", "exited"}
  /\ mpc = "join_last" /\ rpc = "recv" => peer = "shut"

THEOREM NoJoinHangs == SafeSpec => []JoinsReturn
<1>1. LinkInv => JoinsReturn
  BY DescriptorAssumption
     DEF LinkInv, TypeOK, Threads, Places, Reads, Attended, Active, JoinsReturn
<1> QED BY <1>1, LinkInvariant, PTL

(* Whenever disconnect() has returned, wherever the signal met the link:    *)
(* no thread, no descriptor, no open socket.                               *)
NothingLeft ==
  mpc \in {"stopped", "done"} =>
    /\ rpc = "exited" /\ ~joinable /\ fd = NoFd
    /\ \A f \in Descriptor : table[f] # "link"

THEOREM DisconnectIsClean == SafeSpec => []NothingLeft
<1>1. LinkInv => NothingLeft
  BY DescriptorAssumption
     DEF LinkInv, TypeOK, Places, Sockets, Held, Stops, NothingLeft
<1> QED BY <1>1, LinkInvariant, PTL

-----------------------------------------------------------------------------
(* Every step of the link is a step of the feed, or leaves it alone.       *)
LEMMA StepFeeds ==
  ASSUME LinkInv, [Next]_vars
  PROVE  [Feed!Next]_Feed!vars
<1> USE DescriptorAssumption
    DEF LinkInv, TypeOK, Threads, Places, Attended, Active, Stops, Reading, Disconnecting,
        Feed!vars, recvVars, backoffVars, connectVars, stopVars, hostVars
<1>1. CASE UNCHANGED <<rpc, mpc, destroying>>
  BY <1>1
<1>2. CASE ReadFd
  BY <1>2 DEF ReadFd
<1>3. CASE RecvData
  BY <1>3 DEF RecvData, Feed!Next, Feed!BeginChunk
<1>4. CASE HandleLines
  BY <1>4 DEF HandleLines, Feed!Next, Feed!FinishChunk
<1>5. CASE RecvEnds
  BY <1>5 DEF RecvEnds, Feed!Next, Feed!Leave
<1>6. CASE DropTakesFd \/ CloseOwned
  BY <1>6 DEF DropTakesFd, CloseOwned
<1>7. CASE TestRunning \/ NoRetry \/ Retry
  BY <1>7 DEF TestRunning, NoRetry, Retry
<1>8. CASE JoinOld \/ Resolve \/ OpenSocket \/ NoSocket
  BY <1>8 DEF JoinOld, Resolve, OpenSocket, NoSocket
<1>9. CASE ConnectFails \/ AttemptFails
  BY <1>9 DEF ConnectFails, AttemptFails
<1>10. CASE Connected
  BY <1>10 DEF Connected
<1>11. CASE DisconnectTakesFd
  BY <1>11 DEF DisconnectTakesFd, Feed!Next, Feed!Close
<1>12. CASE ShutdownSocket
  BY <1>12 DEF ShutdownSocket
<1>13. CASE JoinLast
  BY <1>13 DEF JoinLast, Feed!Next, Feed!Closed
<1>14. CASE CloseTaken \/ Destroy
  BY <1>14 DEF CloseTaken, Destroy
<1>15. CASE Environment
  BY <1>1, <1>3, <1>15 DEF Environment, Tick, Signal, HostChanges, PeerLeaves,
     KeepaliveExpires, OthersUseTable
<1>16. CASE UNCHANGED vars
  BY <1>16 DEF vars
<1> QED BY <1>2, <1>4, <1>5, <1>6, <1>7, <1>8, <1>9, <1>10, <1>11, <1>12, <1>13,
           <1>14, <1>15, <1>16
        DEF Next, ReceiveThread, MainThread

(* Whatever becomes of its connections, the link is the one feed of data   *)
(* that DataFeed describes, and silent once disconnect() has returned: the *)
(* safety half of ProvidesFeed.                                            *)
THEOREM LinkProvidesFeed == SafeSpec => Feed!SafeSpec
<1>1. Init => Feed!Init
  BY DEF Init, Reading, Disconnecting, Feed!Init
<1>2. LinkInv /\ [Next]_vars => [Feed!Next]_Feed!vars
  BY StepFeeds
<1> QED BY <1>1, <1>2, LinkInvariant, PTL DEF SafeSpec, Feed!SafeSpec

-----------------------------------------------------------------------------
(* The delay is the one the back-off prescribes. *)
DelayIsDue == delay = Wait(retries)

LEMMA WaitIsNat == ASSUME NEW n \in 0..RetryBound PROVE Wait(n) \in Nat
<1>1. DelayStart * 2 ^ n \in Nat
  BY DelayAssumption, PowersOfTwo
<1> QED BY <1>1, DelayAssumption DEF Wait

LEMMA WaitDoubles ==
  ASSUME NEW n \in 0..RetryBound
  PROVE  Doubled(Wait(n)) = Wait(IF n < RetryBound THEN n + 1 ELSE n)
<1> DEFINE d == DelayStart * 2 ^ n
<1>1. d \in Nat /\ Wait(n) = IF d < DelayCap THEN d ELSE DelayCap
  BY DelayAssumption, PowersOfTwo DEF Wait
<1>2. Doubled(Wait(n)) = IF 2 * d < DelayCap THEN 2 * d ELSE DelayCap
  <2> HIDE DEF d
  <2> QED BY <1>1, DelayAssumption DEF Doubled
<1>3. DelayStart * 2 ^ (n + 1) = 2 * d
  <2>1. 2 ^ n \in Nat /\ 2 ^ (n + 1) = 2 * 2 ^ n
    BY PowersOfTwo
  <2>2. \A p \in Nat : DelayStart * (2 * p) = 2 * (DelayStart * p)
    BY DelayAssumption
  <2> QED BY <2>1, <2>2
<1>4. CASE n < RetryBound
  BY <1>2, <1>3, <1>4 DEF Wait
<1>5. CASE n = RetryBound
  <2>1. d >= DelayCap
    BY <1>5, RetryBoundAssumption
  <2> HIDE DEF d
  <2> QED BY <1>1, <1>2, <1>5, <2>1, DelayAssumption
<1> QED BY <1>4, <1>5, RetryBoundAssumption

LEMMA StepDelayIsDue == TypeOK /\ DelayIsDue /\ [Next]_vars => DelayIsDue'
<1> SUFFICES ASSUME TypeOK, DelayIsDue, [Next]_vars PROVE DelayIsDue'
  OBVIOUS
<1>1. CASE UNCHANGED <<delay, retries>>
  BY <1>1 DEF DelayIsDue
<1>2. CASE Retry
  BY <1>2, WaitDoubles DEF Retry, TypeOK, DelayIsDue
<1>3. CASE Connected
  <2>1. Wait(0) = DelayStart
    BY PowersOfTwo, DelayAssumption DEF Wait
  <2> QED BY <1>3, <2>1 DEF Connected, DelayIsDue
<1>4. Retry \/ Connected \/ UNCHANGED <<delay, retries>>
  BY DEF Next, Environment, ReceiveThread, MainThread, vars, Tick, Signal, HostChanges,
     PeerLeaves, KeepaliveExpires, OthersUseTable, ReadFd, RecvData, HandleLines, RecvEnds,
     DropTakesFd, CloseOwned, TestRunning, NoRetry, JoinOld, Resolve, OpenSocket, NoSocket,
     ConnectFails, AttemptFails, DisconnectTakesFd, ShutdownSocket, JoinLast, CloseTaken,
     Destroy, recvVars, backoffVars, connectVars, stopVars, hostVars
<1> QED BY <1>1, <1>2, <1>3, <1>4

(* reconnect() retries exactly when the link is down and the delay that    *)
(* the retries since the last success call for has passed.                 *)
THEOREM BackoffKept == SafeSpec => BackoffSchedule
<1> DEFINE Due == mpc = "reconnect" /\ mpc' # mpc =>
                    (mpc' = "join" <=> fd = NoFd /\ elapsed > Wait(retries))
<1>1. Init => DelayIsDue
  BY PowersOfTwo, DelayAssumption DEF Init, DelayIsDue, Wait
<1>2. TypeOK /\ DelayIsDue /\ [Next]_vars => [Due]_vars
  <2> SUFFICES ASSUME TypeOK, DelayIsDue, Next, mpc = "reconnect", mpc' # mpc
               PROVE  mpc' = "join" <=> fd = NoFd /\ elapsed > Wait(retries)
    OBVIOUS
  <2>1. NoRetry \/ Retry
    BY DEF Next, Environment, ReceiveThread, MainThread, vars, Tick, Signal, HostChanges,
       PeerLeaves, KeepaliveExpires, OthersUseTable, ReadFd, RecvData, HandleLines, RecvEnds,
       DropTakesFd, CloseOwned, TestRunning, NoRetry, JoinOld, Resolve, OpenSocket, NoSocket,
       ConnectFails, Connected, AttemptFails, DisconnectTakesFd, ShutdownSocket, JoinLast,
       CloseTaken, Destroy
  <2>2. elapsed \in Int /\ delay \in Int
    BY DelayAssumption DEF TypeOK, LongAgo
  <2> QED BY <2>1, <2>2 DEF NoRetry, Retry, DelayIsDue
<1>3. SafeSpec => []DelayIsDue
  BY <1>1, StepDelayIsDue, LinkTypes, PTL DEF SafeSpec
<1> QED BY <1>2, <1>3, LinkTypes, PTL DEF SafeSpec, BackoffSchedule

-----------------------------------------------------------------------------
(* What Recovers rests on besides the schedule of the retries: no attempt  *)
(* passes over an address that accepts (connect_to_dump1090()'s comment on *)
(* hosts whose preferred family is configured and unroutable).  As long as *)
(* one of the addresses not yet tried accepts and the rest of the process  *)
(* leaves a descriptor, the attempt goes on, or ends with a connection.    *)
Attempting == mpc \in {"try", "connect"}
Untried(c) == \E i \in 1..Len(untried) : untried[i] = c

NonePassedOver ==
  [][\A c \in accepting :
       Attempting /\ Untried(c) /\ (\E f \in Descriptor : table[f] # "other")
         => \/ Attempting' /\ Untried(c)'
            \/ mpc' = "loop" /\ fd' # NoFd /\ peer' = "up"]_vars

(* An attempt that can go on does so: each of its steps opens a socket or  *)
(* is the last one or leaves fewer addresses to try.                       *)
AttemptShrinks ==
  [][Attempting =>
       \/ UNCHANGED <<mpc, untried>>
       \/ mpc = "try" /\ mpc' = "connect" /\ UNCHANGED untried
       \/ mpc' = "try" /\ Len(untried') \in 0 .. Len(untried) - 1
       \/ mpc' = "loop"]_vars

(* The steps there are while connect_to_dump1090() tries the addresses. *)
LEMMA AttemptSteps ==
  ASSUME Next, Attempting
  PROVE  \/ OpenSocket \/ NoSocket \/ ConnectFails \/ Connected \/ AttemptFails
         \/ UNCHANGED <<mpc, untried>>
BY DEF Attempting, Next, Environment, ReceiveThread, MainThread, Tick, Signal, HostChanges,
   PeerLeaves, KeepaliveExpires, OthersUseTable, ReadFd, RecvData, HandleLines, RecvEnds, DropTakesFd,
   CloseOwned, TestRunning, NoRetry, Retry, JoinOld, Resolve, DisconnectTakesFd,
   ShutdownSocket, JoinLast, CloseTaken, Destroy, connectVars

(* Trying the first address leaves the others. *)
LEMMA OthersUntried ==
  ASSUME NEW S, NEW s \in Seq(S), s # <<>>
  PROVE  /\ Tail(s) \in Seq(S) /\ Len(Tail(s)) \in 0 .. Len(s) - 1
         /\ \A c : (\E i \in 1..Len(s) : s[i] = c) =>
                  c = Head(s) \/ \E i \in 1..Len(Tail(s)) : Tail(s)[i] = c
<1>1. /\ Tail(s) \in Seq(S) /\ Len(Tail(s)) = Len(s) - 1 /\ Len(s) \in Nat \ {0}
      /\ Head(s) = s[1]
      /\ \A i \in 1..Len(Tail(s)) : Tail(s)[i] = s[i + 1]
  OBVIOUS
<1>2. ASSUME NEW c, NEW i \in 1..Len(s), s[i] = c, c # Head(s)
      PROVE  \E j \in 1..Len(Tail(s)) : Tail(s)[j] = c
  <2>1. i - 1 \in 1..Len(Tail(s)) /\ Tail(s)[i - 1] = s[i]
    BY <1>1, <1>2
  <2> QED BY <1>2, <2>1
<1> QED BY <1>1, <1>2

(* Whichever address accepts, the attempt reaches it.                      *)
THEOREM EveryAddressTried == SafeSpec => NonePassedOver
<1> DEFINE Reached == \A c \in accepting :
       Attempting /\ Untried(c) /\ (\E f \in Descriptor : table[f] # "other")
         => \/ Attempting' /\ Untried(c)'
            \/ mpc' = "loop" /\ fd' # NoFd /\ peer' = "up"
<1>1. LinkInv /\ [Next]_vars => [Reached]_vars
  <2> SUFFICES ASSUME LinkInv, Next, NEW c \in accepting, Attempting,
                      Untried(c), NEW f \in Descriptor, table[f] # "other"
               PROVE  \/ Attempting' /\ Untried(c)'
                      \/ mpc' = "loop" /\ fd' # NoFd /\ peer' = "up"
    OBVIOUS
  <2>1. untried \in Seq(Candidate) /\ untried # <<>>
    BY DEF LinkInv, TypeOK, Untried
  <2>2. mpc = "try" => table[f] = "free"
    BY DescriptorAssumption
       DEF LinkInv, TypeOK, Threads, Places, Sockets, Held, Attended, Active, Attempting
  <2>3. CASE NoSocket
    BY <2>2, <2>3 DEF NoSocket
  <2>4. CASE ConnectFails
    <3>1. c # Head(untried) /\ untried' = Tail(untried) /\ mpc' = "try"
      BY <2>4 DEF ConnectFails
    <3>2. \E i \in 1..Len(Tail(untried)) : Tail(untried)[i] = c
      BY <2>1, <3>1, OthersUntried DEF Untried
    <3> QED BY <3>1, <3>2 DEF Untried, Attempting
  <2>5. CASE Connected
    BY <2>5 DEF Connected, LinkInv, Places
  <2>6. CASE OpenSocket
    BY <2>6 DEF OpenSocket, Untried, Attempting
  <2>7. CASE UNCHANGED <<mpc, untried>>
    BY <2>7 DEF Untried, Attempting
  <2> QED BY <2>1, <2>3, <2>4, <2>5, <2>6, <2>7, AttemptSteps DEF AttemptFails
<1>2. SafeSpec => [][Reached]_vars
  BY <1>1, LinkInvariant, PTL DEF SafeSpec
<1> QED BY <1>2 DEF NonePassedOver

(* An attempt takes two steps for each address at most.                    *)
THEOREM AttemptEnds == SafeSpec => AttemptShrinks
<1> DEFINE Shrinks == Attempting =>
       \/ UNCHANGED <<mpc, untried>>
       \/ mpc = "try" /\ mpc' = "connect" /\ UNCHANGED untried
       \/ mpc' = "try" /\ Len(untried') \in 0 .. Len(untried) - 1
       \/ mpc' = "loop"
<1>1. LinkInv /\ [Next]_vars => [Shrinks]_vars
  <2> SUFFICES ASSUME LinkInv, Next, Attempting PROVE Shrinks
    OBVIOUS
  <2>1. untried # <<>> => Len(Tail(untried)) \in 0 .. Len(untried) - 1
    BY OthersUntried DEF LinkInv, TypeOK
  <2>2. CASE NoSocket \/ ConnectFails
    BY <2>1, <2>2 DEF NoSocket, ConnectFails, LinkInv, Threads
  <2>3. CASE OpenSocket \/ Connected \/ AttemptFails
    BY <2>3 DEF OpenSocket, Connected, AttemptFails
  <2> QED BY <2>2, <2>3, AttemptSteps
<1>2. SafeSpec => [][Shrinks]_vars
  BY <1>1, LinkInvariant, PTL DEF SafeSpec
<1> QED BY <1>2 DEF AttemptShrinks
=============================================================================
