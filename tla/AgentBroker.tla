---------------------------- MODULE AgentBroker ----------------------------
(***************************************************************************)
(* The agent broker (UC-16, crates/blindkey-agent) and the handle store    *)
(* agent-handles.json, which `agent allow' and `agent revoke' change too.  *)
(*                                                                         *)
(* The broker serves every connection in a thread of its own.  A thread    *)
(* loads the whole store, asks the operator on the broker's terminal,      *)
(* spawns the destination with the secret, waits for it to end, and then   *)
(* saves the store it loaded with one use less.  The commands load and     *)
(* save the whole store as well, and nobody holds a lock.  All write the   *)
(* temporary agent-handles.tmp (TempRename).                               *)
(*                                                                         *)
(* The operator types one line per prompt, for the last one on the screen  *)
(* that has none yet; stdin gives it to the thread that is reading.        *)
(***************************************************************************)
EXTENDS Integers, Sequences, FiniteSets, TempRename

CONSTANTS
  Cmd,        \* the processes that are commands; the others are connections
  Handle,     \* handle ids, random, never drawn twice
  Budget,     \* uses a new handle has (10 in the code)
  Gone,       \* no such handle in a store
  None,       \* no value
  MaxFaults   \* bound on crashes and I/O errors

Conn   == Proc \ Cmd
Stores == [Handle -> 0 .. Budget \cup {Gone}]
Op     == [kind : {"allow", "revoke", "use"}, handle : Handle]

ASSUME CmdAssumption    == Cmd \subseteq Proc
ASSUME BudgetAssumption == Budget \in Nat \ {0} /\ Gone \notin Nat
ASSUME MarkerAssumption ==
  Torn # Absent /\ Torn \notin Stores /\ Absent \notin Stores /\ None \notin Op \cup Proc
ASSUME FaultsAssumption == MaxFaults \in Nat

VARIABLES
  pc, op,     \* per process: where it is, and what it does to which handle
  snap,       \* per process: the store it loaded, then the one it will save
  shown,      \* prompts on the terminal that the operator has not answered
  reader,     \* the thread that holds the lock of stdin
  expired,    \* handles whose hour is over
  fresh,      \* ids not drawn yet
  ledger,     \* history: the store that atomic operations would have made
  meant,      \* history: connections whose own prompt was answered with yes
  delivered,  \* history: connections whose destination was spawned
  crowded,    \* history: two prompts waited at the same time
  overlapped, \* history: a process loaded the store while another held it
  faults      \* what went wrong so far

terminal == <<shown, reader, meant, crowded>>
store    == <<disk, fd, ledger>>
vars == <<file, tmp, fileBy, tmpBy, fd, pc, op, snap, shown, reader, expired, fresh,
          ledger, meant, delivered, crowded, overlapped, faults>>

Saving == {"save", "tmp", "writing", "written"}
Steps  == {"out", "ask", "waiting", "reading", "approved", "running", "done"} \cup Saving

NoHandles == [h \in Handle |-> Gone]

TypeOK ==
  /\ file \in Stores \cup {Torn}
  /\ tmp \in Stores \cup {Torn, Absent}
  /\ fileBy \subseteq Proc /\ tmpBy \subseteq Proc
  /\ fd \in [Proc -> Places]
  /\ pc \in [Proc -> Steps]
  /\ op \in [Proc -> Op \cup {None}]
  /\ snap \in [Proc -> Stores]
  /\ shown \in Seq(Conn)
  /\ reader \in Conn \cup {None}
  /\ expired \subseteq Handle /\ fresh \subseteq Handle
  /\ ledger \in Stores
  /\ meant \subseteq Conn /\ delivered \subseteq Conn
  /\ crowded \in BOOLEAN /\ overlapped \in BOOLEAN
  /\ faults \in 0 .. MaxFaults

\* Without a file the store is empty.
Init ==
  /\ file = NoHandles /\ tmp = Absent
  /\ fileBy = {} /\ tmpBy = {}
  /\ fd = [p \in Proc |-> "none"]
  /\ pc = [p \in Proc |-> "out"]
  /\ op = [p \in Proc |-> None]
  /\ snap = [p \in Proc |-> NoHandles]
  /\ shown = <<>> /\ reader = None
  /\ expired = {} /\ fresh = Handle
  /\ ledger = NoHandles
  /\ meant = {} /\ delivered = {}
  /\ crowded = FALSE /\ overlapped = FALSE
  /\ faults = 0

Go(p, from, to) == pc[p] = from /\ pc' = [pc EXCEPT ![p] = to]

Fault == faults < MaxFaults /\ faults' = faults + 1

\* A failure that the state explains is not counted.
FaultUnless(cause) == IF cause THEN UNCHANGED faults ELSE Fault

\* A request is served once, a command can be given again.
After(p) == IF p \in Cmd THEN "out" ELSE "done"

\* Mutant: consume_use without its guard.
ApplyUnguarded(o, stored) ==
  [stored EXCEPT ![o.handle] =
     CASE o.kind = "allow"  -> Budget
       [] o.kind = "revoke" -> Gone
       [] o.kind = "use"    -> IF @ = Gone THEN @ ELSE @ - 1]

\* What an operation makes of a store: consume_use stays at zero.
Apply(o, stored) ==
  [stored EXCEPT ![o.handle] =
     CASE o.kind = "allow"  -> Budget
       [] o.kind = "revoke" -> Gone
       [] o.kind = "use"    -> IF @ \in {0, Gone} THEN @ ELSE @ - 1]

\* read_json: a file with nothing in it yet is a store without handles.  One that was
\* cut short elsewhere is refused, and whoever reads it does not get on.
Loaded == IF file = Torn THEN NoHandles ELSE file

\* HandleStore::load, by p and for its operation o.
Load(p, o) ==
  /\ op' = [op EXCEPT ![p] = o]
  /\ overlapped' = (overlapped \/ \E q \in Proc : pc[q] \notin {"out", "done"})

(***************************************************************************)
(* A request.                                                              *)
(***************************************************************************)

\* Known handle, not expired, a registered destination.
Lookup(c) ==
  /\ c \in Conn
  /\ Go(c, "out", "ask")
  /\ \E h \in Handle \ expired :
       /\ Load(c, [kind |-> "use", handle |-> h])
       /\ Loaded[h] # Gone
  /\ snap' = [snap EXCEPT ![c] = Loaded]
  /\ UNCHANGED <<store, terminal, expired, fresh, delivered, faults>>

\* Anything else is refused, and logged; the store is not saved.
Refuse(c) ==
  /\ c \in Conn
  /\ Go(c, "out", "done")
  /\ UNCHANGED <<store, op, snap, terminal, expired, fresh, delivered, overlapped, faults>>

\* Mutant: without a terminal the request is approved.
AskApproves(c) ==
  /\ \/ /\ Go(c, "ask", "waiting")
        /\ crowded' = (crowded \/ shown # <<>>)
        /\ shown' = Append(shown, c)
     \/ Go(c, "ask", "approved") /\ UNCHANGED <<crowded, shown>>
  /\ UNCHANGED <<store, op, snap, reader, meant, expired, fresh, delivered, overlapped, faults>>

\* prompt_use, which denies at once without a terminal.
Ask(c) ==
  /\ \/ /\ Go(c, "ask", "waiting")
        /\ crowded' = (crowded \/ shown # <<>>)
        /\ shown' = Append(shown, c)
     \/ Go(c, "ask", "done") /\ UNCHANGED <<crowded, shown>>
  /\ UNCHANGED <<store, op, snap, reader, meant, expired, fresh, delivered, overlapped, faults>>

TakeStdin(c) ==
  /\ reader = None
  /\ Go(c, "waiting", "reading")
  /\ reader' = c
  /\ UNCHANGED <<store, op, snap, shown, meant, crowded, expired, fresh, delivered, overlapped,
                 faults>>

\* Mutant: the lock of stdin is kept after a `no'.
AnswerKeepsStdin(c) ==
  /\ \/ /\ Go(c, "reading", "approved")
        /\ meant' = meant \cup {shown[Len(shown)]}
        /\ reader' = None
     \/ Go(c, "reading", "done") /\ UNCHANGED <<meant, reader>>
  /\ shown' = SubSeq(shown, 1, Len(shown) - 1)
  /\ UNCHANGED <<store, op, snap, crowded, expired, fresh, delivered, overlapped, faults>>

\* The operator's line, yes or no.
Answer(c) ==
  /\ \/ Go(c, "reading", "approved") /\ meant' = meant \cup {shown[Len(shown)]}
     \/ Go(c, "reading", "done") /\ UNCHANGED meant
  /\ shown' = SubSeq(shown, 1, Len(shown) - 1)
  /\ reader' = None
  /\ UNCHANGED <<store, op, snap, crowded, expired, fresh, delivered, overlapped, faults>>

\* spawn_with_env with the secret of the entry.
Deliver(c) ==
  /\ Go(c, "approved", "running")
  /\ delivered' = delivered \cup {c}
  /\ UNCHANGED <<store, op, snap, terminal, expired, fresh, overlapped, faults>>

\* No such entry, an unsupported field, or the command cannot be run.
DeliverFails(c) ==
  /\ Go(c, "approved", "done")
  /\ UNCHANGED <<store, op, snap, terminal, expired, fresh, delivered, overlapped, faults>>

\* The destination has ended: consume_use on the store as it was loaded.
ChildEnds(c) ==
  /\ Go(c, "running", "save")
  /\ snap' = [snap EXCEPT ![c] = Apply(op[c], @)]
  /\ UNCHANGED <<store, op, terminal, expired, fresh, delivered, overlapped, faults>>

(***************************************************************************)
(* The commands.                                                           *)
(***************************************************************************)

Allow(p) ==
  /\ p \in Cmd
  /\ Go(p, "out", "save")
  /\ \E h \in fresh :
       /\ Load(p, [kind |-> "allow", handle |-> h])
       /\ fresh' = fresh \ {h}
  /\ snap' = [snap EXCEPT ![p] = Apply(op'[p], Loaded)]
  /\ UNCHANGED <<store, terminal, expired, delivered, faults>>

Revoke(p) ==
  /\ p \in Cmd
  /\ Go(p, "out", "save")
  /\ \E h \in Handle :
       /\ Load(p, [kind |-> "revoke", handle |-> h])
       /\ Loaded[h] # Gone
  /\ snap' = [snap EXCEPT ![p] = Apply(op'[p], Loaded)]
  /\ UNCHANGED <<store, terminal, expired, fresh, delivered, faults>>

(***************************************************************************)
(* write_json: fs::write to the temporary, rename.                         *)
(***************************************************************************)

\* Mutant: the store itself is written.
SaveInPlace(p) ==
  /\ Go(p, "save", "tmp")
  /\ file' = Torn /\ fileBy' = {}
  /\ fd' = [fd EXCEPT ![p] = "file"]
  /\ UNCHANGED <<tmp, tmpBy, op, snap, terminal, expired, fresh, ledger, delivered,
                 overlapped, faults>>

SaveOpen(p) ==
  /\ Go(p, "save", "tmp")
  /\ Truncate(p)
  /\ UNCHANGED <<op, snap, terminal, expired, fresh, ledger, delivered, overlapped,
                 faults>>

SaveBegin(p) ==
  /\ Go(p, "tmp", "writing")
  /\ Begin(p)
  /\ UNCHANGED <<op, snap, terminal, expired, fresh, ledger, delivered, overlapped,
                 faults>>

SaveEnd(p) ==
  /\ Go(p, "writing", "written")
  /\ Finish(p, snap[p])
  /\ UNCHANGED <<op, snap, terminal, expired, fresh, ledger, delivered, overlapped,
                 faults>>

\* The use, the permission or the revocation takes effect.
SaveRename(p) ==
  /\ Go(p, "written", After(p))
  /\ Install(p)
  /\ ledger' = Apply(op[p], ledger)
  /\ UNCHANGED <<op, snap, terminal, expired, fresh, delivered, overlapped, faults>>

\* A command reports it, a connection answers ok all the same.
SaveFails(p) ==
  /\ \E at \in Saving : Go(p, at, After(p))
  /\ FaultUnless(pc[p] = "written" /\ tmp = Absent)
  /\ GiveUp(p)
  /\ UNCHANGED <<op, snap, terminal, expired, fresh, ledger, delivered, overlapped>>

(***************************************************************************)
(* What else happens.                                                      *)
(***************************************************************************)

Expire ==
  /\ \E h \in Handle \ (expired \cup fresh) : expired' = expired \cup {h}
  /\ UNCHANGED <<store, pc, op, snap, terminal, fresh, delivered, overlapped, faults>>

\* The broker is stopped, and with it every connection it serves.
StopBroker ==
  /\ \E c \in Conn : pc[c] \notin {"out", "done"}
  /\ Fault
  /\ pc' = [p \in Proc |-> IF p \in Conn /\ pc[p] # "out" THEN "done" ELSE pc[p]]
  /\ fd' = [p \in Proc |-> IF p \in Conn THEN "none" ELSE fd[p]]
  /\ shown' = <<>> /\ reader' = None
  /\ UNCHANGED <<disk, op, snap, expired, fresh, ledger, meant, delivered, crowded,
                 overlapped>>

StopCommand(p) ==
  /\ p \in Cmd /\ pc[p] # "out"
  /\ Fault
  /\ pc' = [pc EXCEPT ![p] = "out"]
  /\ GiveUp(p)
  /\ UNCHANGED <<op, snap, terminal, expired, fresh, ledger, delivered, overlapped>>

Save(p) ==
  SaveOpen(p) \/ SaveBegin(p) \/ SaveEnd(p) \/ SaveRename(p) \/ SaveFails(p)

Serve(c) ==
  Lookup(c) \/ Refuse(c) \/ Ask(c) \/ TakeStdin(c) \/ Answer(c)
  \/ Deliver(c) \/ DeliverFails(c) \/ ChildEnds(c)

Next ==
  \/ \E p \in Proc : Serve(p) \/ Allow(p) \/ Revoke(p) \/ Save(p) \/ StopCommand(p)
  \/ Expire \/ StopBroker

\* Threads run, the operator answers a prompt, a destination ends.
Progress(c) ==
  Ask(c) \/ TakeStdin(c) \/ Answer(c) \/ Deliver(c) \/ DeliverFails(c) \/ ChildEnds(c) \/ Save(c)

Spec     == Init /\ [][Next]_vars
FairSpec == Spec /\ \A c \in Conn : WF_vars(Progress(c))

(***************************************************************************)
(* Properties.                                                             *)
(***************************************************************************)

\* As long as no two processes hold the store at once, it is what the permissions,
\* revocations and uses make of it one by one, whole after any crash or failed
\* save, and whatever a dead process left in the temporary.
StoreIsLedger == overlapped \/ file = ledger

\* UC-16 3.3, `Approve = this one use': a secret is only delivered for a prompt that
\* was itself answered with yes, unless two prompts waited at the same time.
DeliveredAsMeant == crowded \/ delivered \subseteq meant

\* Every request that got as far as a prompt is answered, if the operator answers
\* and the destination ends: no thread waits for a lock that is never released.
EveryRequestAnswered == \A c \in Conn : pc[c] = "ask" ~> pc[c] = "done"

=============================================================================
