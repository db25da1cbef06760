----------------------------- MODULE Attendance -----------------------------
(***************************************************************************)
(* Who is shown to be present on a pane: the system.participant.joined and *)
(* .left rows of its log, written by the WebSocket handler                 *)
(* (packages/relay/src/ws/handler.ts) and, at the start of a process, by   *)
(* core/reconcile.ts.                                                      *)
(*                                                                         *)
(* A socket that is accepted writes a joined row before its close listener *)
(* is attached; the left row is written by that listener, with nobody      *)
(* waiting.  Either may fail, and the process may die between them.  The   *)
(* next process writes a left row for every joined row without one, author *)
(* by author, from what it has read.                                       *)
(***************************************************************************)
EXTENDS Naturals, Integers, FiniteSets

CONSTANTS
    Relays,       \* the processes that share the database
    Visitors,     \* authors: the agent, the owner, participants
    Sockets,
    MaxRows       \* bound of the model: joined rows

ASSUME AttendanceAssumption ==
    MaxRows \in Nat /\ IsFiniteSet(Relays) /\ IsFiniteSet(Sockets)

VARIABLES
    relay,        \* per process: down, starting or up
    surplus,      \* per process: the left rows its reconciliation has still to write
    wire,         \* per socket: state, process and author
    joined, left  \* per author: rows of the log

attendVars == <<relay, surplus, wire, joined, left>>

WireStates == {"off", "registered", "deaf", "live", "leaving"}
NoWire == [state |-> "off"]
WireRow == [state : WireStates \ {"off"}, on : Relays, by : Visitors]
Wires == {NoWire} \cup WireRow

Net(a) == joined[a] - left[a]

AttendTypeOK ==
    /\ relay \in [Relays -> {"down", "starting", "up"}]
    /\ surplus \in [Relays -> [Visitors -> Nat]]
    /\ wire \in [Sockets -> Wires]
    /\ \A s \in Sockets : wire[s] # NoWire => relay[wire[s].on] = "up"
    /\ joined \in [Visitors -> Nat] /\ left \in [Visitors -> Nat]

AttendInit ==
    /\ relay = [r \in Relays |-> "down"]
    /\ surplus = [r \in Relays |-> [a \in Visitors |-> 0]]
    /\ wire = [s \in Sockets |-> NoWire]
    /\ joined = [a \in Visitors |-> 0] /\ left = [a \in Visitors |-> 0]

-----------------------------------------------------------------------------
(* A socket.                                                               *)

\* handleConnection registers the socket in the presence registry.
Accept(s) ==
    /\ wire[s] = NoWire
    /\ \E r \in Relays, a \in Visitors :
           /\ relay[r] = "up"
           /\ wire' = [wire EXCEPT ![s] = [state |-> "registered", on |-> r, by |-> a]]
    /\ UNCHANGED <<relay, surplus, joined, left>>

\* ... and appends the joined row. If the insert fails the handshake goes no
\* further: the socket stays open with no close listener.
WriteJoined(s) ==
    /\ wire[s].state = "registered"
    /\ joined[wire[s].by] < MaxRows
    /\ joined' = [joined EXCEPT ![wire[s].by] = @ + 1]
    /\ wire' = [wire EXCEPT ![s].state = "deaf"]
    /\ UNCHANGED <<relay, surplus, left>>

JoinFails(s) ==
    /\ wire[s].state = "registered"
    /\ wire' = [wire EXCEPT ![s] = NoWire]
    /\ UNCHANGED <<relay, surplus, joined, left>>

\* The replays are sent and ws.on("close") is attached.
AttachListener(s) ==
    /\ wire[s].state = "deaf"
    /\ wire' = [wire EXCEPT ![s].state = "live"]
    /\ UNCHANGED <<relay, surplus, joined, left>>

\* The socket closes before that: nothing is written.
DieUnheard(s) ==
    /\ wire[s].state = "deaf"
    /\ wire' = [wire EXCEPT ![s] = NoWire]
    /\ UNCHANGED <<relay, surplus, joined, left>>

\* The close listener deregisters the socket and goes on in the background.
BeginLeave(s) ==
    /\ wire[s].state = "live"
    /\ wire' = [wire EXCEPT ![s].state = "leaving"]
    /\ UNCHANGED <<relay, surplus, joined, left>>

\* Seeded bug: the error path writes the row once more.
WriteLeftRetried(s) ==
    /\ wire[s].state = "leaving"
    /\ left' = [left EXCEPT ![wire[s].by] = @ + 1]
    /\ wire' \in {wire, [wire EXCEPT ![s] = NoWire]}
    /\ UNCHANGED <<relay, surplus, joined>>

\* The left row, or a warning that it could not be written.
WriteLeft(s) ==
    /\ wire[s].state = "leaving"
    /\ left' \in {left, [left EXCEPT ![wire[s].by] = @ + 1]}
    /\ wire' = [wire EXCEPT ![s] = NoWire]
    /\ UNCHANGED <<relay, surplus, joined>>

-----------------------------------------------------------------------------
(* A process.                                                              *)

\* What a read of the log finds unpaired.
UnpairedOnce == [a \in Visitors |-> IF Net(a) > 0 THEN 1 ELSE 0]

Unpaired == [a \in Visitors |-> IF Net(a) > 0 THEN Net(a) ELSE 0]

\* main: reconcileOrphanedParticipants reads the rows before the port is bound.
StartProcess(r) ==
    /\ relay[r] = "down"
    /\ relay' = [relay EXCEPT ![r] = "starting"]
    /\ surplus' = [surplus EXCEPT ![r] = Unpaired]
    /\ UNCHANGED <<wire, joined, left>>

\* One synthetic left row.
WriteSynthetic(r) ==
    /\ relay[r] = "starting"
    /\ \E a \in Visitors :
           /\ surplus[r][a] > 0
           /\ surplus' = [surplus EXCEPT ![r][a] = @ - 1]
           /\ left' = [left EXCEPT ![a] = @ + 1]
    /\ UNCHANGED <<relay, wire, joined>>

\* All are written.
Listen(r) ==
    /\ relay[r] = "starting" /\ \A a \in Visitors : surplus[r][a] = 0
    /\ relay' = [relay EXCEPT ![r] = "up"]
    /\ UNCHANGED <<surplus, wire, joined, left>>

\* A database error ends the reconciliation, not the start.
GiveUp(r) ==
    /\ relay[r] = "starting" /\ \E a \in Visitors : surplus[r][a] > 0
    /\ relay' = [relay EXCEPT ![r] = "up"]
    /\ surplus' = [surplus EXCEPT ![r] = [a \in Visitors |-> 0]]
    /\ UNCHANGED <<wire, joined, left>>

\* Seeded bug: the sockets of the dead process are remembered.
DieProcessAlone(r) ==
    /\ relay[r] # "down"
    /\ relay' = [relay EXCEPT ![r] = "down"]
    /\ surplus' = [surplus EXCEPT ![r] = [a \in Visitors |-> 0]]
    /\ UNCHANGED <<wire, joined, left>>

\* The process ends, with its sockets and the rows it was about to write.
DieProcess(r) ==
    /\ relay[r] # "down"
    /\ relay' = [relay EXCEPT ![r] = "down"]
    /\ surplus' = [surplus EXCEPT ![r] = [a \in Visitors |-> 0]]
    /\ wire' = [s \in Sockets |->
           IF wire[s] # NoWire /\ wire[s].on = r THEN NoWire ELSE wire[s]]
    /\ UNCHANGED <<joined, left>>

AttendNext ==
    \/ \E s \in Sockets :
           Accept(s) \/ WriteJoined(s) \/ JoinFails(s) \/ AttachListener(s)
               \/ DieUnheard(s) \/ BeginLeave(s) \/ WriteLeft(s)
    \/ \E r \in Relays :
           StartProcess(r) \/ WriteSynthetic(r) \/ Listen(r) \/ GiveUp(r) \/ DieProcess(r)

AttendSpec == AttendInit /\ [][AttendNext]_attendVars

-----------------------------------------------------------------------------
(* Properties.                                                             *)

Present(a) == {s \in Sockets : wire[s].state \in {"deaf", "live"} /\ wire[s].by = a}

\* With one process, nobody who is connected is shown to have left: an author has
\* at least as many unpaired joined rows as open sockets, and never a left row too
\* many (reconcile.ts:42-114, handler.ts:898-935).
PresentAreShown ==
    Cardinality(Relays) = 1 =>
        \A a \in Visitors : Net(a) >= Cardinality(Present(a))

\* A process that starts without an error leaves nobody shown who is not there,
\* whatever died before it (reconcile.ts:76-101, index.ts:254-258).
StartClears ==
    [][\A r \in Relays :
          (/\ Cardinality(Relays) = 1
           /\ relay[r] = "starting" /\ relay'[r] = "up"
           /\ \A a \in Visitors : surplus[r][a] = 0)
          => \A a \in Visitors : Net(a) = 0]_attendVars

\* Not a property: "at process startup there are, by definition, zero live
\* WebSocket connections" (reconcile.ts:11-14), since another replica, or the
\* process a rolling deployment replaces, has its own.
StartFindsNobody ==
    \A r \in Relays : relay[r] = "starting" => \A s \in Sockets : wire[s] = NoWire

(* The trail of joined and left rows never takes away who is there.        *)
AttendInv == AttendTypeOK /\ PresentAreShown
=============================================================================
