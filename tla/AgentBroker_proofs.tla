------------------------- MODULE AgentBroker_proofs -------------------------
(***************************************************************************)
(* The store and the prompts of AgentBroker, proved for any number of      *)
(* connections, commands, handles and faults and for every budget.         *)
(***************************************************************************)
EXTENDS AgentBroker, FiniteSetTheorems, SequenceTheorems, TLAPS

Idle == {"out", "done"}

\* Those whose prompt is on the screen.
Asked == {c \in Conn : pc[c] \in {"waiting", "reading"}}

(***************************************************************************)
(* Types.  Answer takes a prompt from the screen, so there has to be one:  *)
(* as many are shown as there are threads that wait for a line.            *)
(***************************************************************************)

\* Whoever is at work knows what it is doing, and the screen shows a prompt for
\* each thread that waits.
Known ==
  /\ \A p \in Proc : pc[p] \notin Idle => op[p] \in Op
  /\ \A p \in Cmd : pc[p] \in {"out"} \cup Saving
  /\ IsFiniteSet(Asked) /\ Cardinality(Asked) = Len(shown)

\* An operation turns a store into a store: the budget is neither exceeded nor
\* does it fall below zero.
LEMMA ApplyType ==
  ASSUME NEW o \in Op, NEW stored \in Stores
  PROVE  Apply(o, stored) \in Stores
<1>1. stored[o.handle] \in 0 .. Budget \cup {Gone}
  BY DEF Op, Stores
<1>2. Budget \in 0 .. Budget \cup {Gone}
  BY BudgetAssumption
<1>3. stored[o.handle] \notin {0, Gone} => stored[o.handle] - 1 \in 0 .. Budget
  BY <1>1, BudgetAssumption
<1>4. o.kind \in {"allow", "revoke", "use"}
  BY DEF Op
<1> QED
  BY <1>1, <1>2, <1>3, <1>4 DEF Apply, Stores

\* The initial state is well typed, with an empty screen.
LEMMA TypeInit == Init => TypeOK /\ Known
<1> SUFFICES ASSUME Init PROVE TypeOK /\ Known
  OBVIOUS
<1>1. NoHandles \in Stores
  BY DEF NoHandles, Stores
<1>2. 0 \in 0 .. MaxFaults
  BY FaultsAssumption
<1>3. Asked = {}
  BY DEF Init, Asked, Conn
<1>4. Known
  BY <1>3, FS_EmptySet, CmdAssumption DEF Init, Known, Idle
<1> QED
  BY <1>1, <1>2, <1>4, EmptySeq DEF Init, TypeOK, Steps, Places

\* A new prompt makes the screen longer by one.
LEMMA PromptType ==
  ASSUME TypeOK, NEW c \in Conn
  PROVE  /\ Append(shown, c) \in Seq(Conn)
         /\ Len(Append(shown, c)) = Len(shown) + 1
BY AppendProperties DEF TypeOK

\* The last prompt is one of a connection, and taking it off leaves the rest.
LEMMA AnsweredType ==
  ASSUME TypeOK, Len(shown) > 0
  PROVE  /\ shown[Len(shown)] \in Conn
         /\ SubSeq(shown, 1, Len(shown) - 1) \in Seq(Conn)
         /\ Len(SubSeq(shown, 1, Len(shown) - 1)) = Len(shown) - 1
<1>1. Len(shown) \in Nat /\ \A i \in 1 .. Len(shown) : shown[i] \in Conn
  BY LenProperties DEF TypeOK
<1> DEFINE n == Len(shown) - 1
<1>2. n \in Nat /\ \A i \in 1 .. n : shown[i] \in Conn
  BY <1>1
<1>3. SubSeq(shown, 1, n) \in Seq(Conn) /\ Len(SubSeq(shown, 1, n)) = n
  <2> HIDE DEF n
  <2>1. /\ SubSeq(shown, 1, n) \in Seq(Conn)
        /\ Len(SubSeq(shown, 1, n)) = IF 1 <= n THEN n - 1 + 1 ELSE 0
    BY <1>2, SubSeqProperties
  <2> QED
    BY <1>2, <2>1
<1>4. shown[Len(shown)] \in Conn
  BY <1>1
<1> QED
  BY <1>3, <1>4, Zenon

\* What is loaded is a store, whatever the file is.
LEMMA LoadedType == TypeOK => Loaded \in Stores
BY DEF TypeOK, Loaded, NoHandles, Stores

\* While processes take turns the file is one that was saved, and read as it is.
LEMMA LoadedIsFile == TypeOK /\ file = ledger => Loaded = file
BY MarkerAssumption DEF TypeOK, Loaded

\* Every step of a request keeps the types.
LEMMA ServeType ==
  ASSUME TypeOK, Known, NEW c \in Proc, Serve(c)
  PROVE  TypeOK' /\ (\A p \in Proc : pc[p] \notin Idle => op[p] \in Op)'
<1> USE DEF TypeOK, Known, Idle, Steps, Go, terminal, store, disk
<1>1. CASE Lookup(c)
  <2>1. PICK h \in Handle : op' = [op EXCEPT ![c] = [kind |-> "use", handle |-> h]]
    BY <1>1 DEF Lookup, Load
  <2>2. [kind |-> "use", handle |-> h] \in Op
    BY DEF Op
  <2>3. Loaded \in Stores /\ overlapped' \in BOOLEAN
    BY <1>1, LoadedType DEF Lookup, Load
  <2> QED
    BY <1>1, <2>1, <2>2, <2>3 DEF Lookup
<1>2. CASE Refuse(c)
  BY <1>2 DEF Refuse
<1>3. CASE Ask(c)
  <2>1. c \in Conn
    BY <1>3 DEF Ask, Conn, Saving
  <2> QED
    BY <1>3, <2>1, PromptType DEF Ask
<1>4. CASE TakeStdin(c)
  <2>1. c \in Conn
    BY <1>4 DEF TakeStdin, Conn, Saving
  <2> QED
    BY <1>4, <2>1 DEF TakeStdin
<1>5. CASE Answer(c)
  <2>1. c \in Asked
    BY <1>5 DEF Answer, Asked, Conn, Saving
  <2>2. Len(shown) > 0
    BY <2>1, FS_EmptySet, LenProperties
  <2> QED
    BY <1>5, <2>2, AnsweredType DEF Answer
<1>6. CASE Deliver(c)
  <2>1. c \in Conn
    BY <1>6 DEF Deliver, Conn, Saving
  <2> QED
    BY <1>6, <2>1 DEF Deliver
<1>7. CASE DeliverFails(c)
  BY <1>7 DEF DeliverFails
<1>8. CASE ChildEnds(c)
  <2>1. Apply(op[c], snap[c]) \in Stores
    BY <1>8, ApplyType DEF ChildEnds
  <2> QED
    BY <1>8, <2>1 DEF ChildEnds, Saving
<1> QED
  BY <1>1, <1>2, <1>3, <1>4, <1>5, <1>6, <1>7, <1>8 DEF Serve

\* So does every step of a command and of a save, by whoever.
LEMMA SaveType ==
  ASSUME TypeOK, Known, NEW p \in Proc, Allow(p) \/ Revoke(p) \/ Save(p)
  PROVE  TypeOK' /\ (\A q \in Proc : pc[q] \notin Idle => op[q] \in Op)'
<1> USE DEF TypeOK, Known, Idle, Steps, Saving, Go, After, terminal, store, disk
<1>1. CASE Allow(p)
  <2>1. PICK h \in fresh : /\ Load(p, [kind |-> "allow", handle |-> h])
                           /\ fresh' = fresh \ {h}
    BY <1>1 DEF Allow
  <2>2. op'[p] = [kind |-> "allow", handle |-> h] /\ op'[p] \in Op
    BY <2>1 DEF Load, Op
  <2>3. Loaded \in Stores /\ overlapped' \in BOOLEAN
    BY <2>1, LoadedType DEF Load
  <2>4. Apply(op'[p], Loaded) \in Stores
    BY <2>2, <2>3, ApplyType
  <2> QED
    BY <1>1, <2>1, <2>2, <2>3, <2>4 DEF Allow, Load
<1>2. CASE Revoke(p)
  <2>1. PICK h \in Handle : Load(p, [kind |-> "revoke", handle |-> h])
    BY <1>2 DEF Revoke
  <2>2. op'[p] = [kind |-> "revoke", handle |-> h] /\ op'[p] \in Op
    BY <2>1 DEF Load, Op
  <2>3. Loaded \in Stores /\ overlapped' \in BOOLEAN
    BY <2>1, LoadedType DEF Load
  <2>4. Apply(op'[p], Loaded) \in Stores
    BY <2>2, <2>3, ApplyType
  <2> QED
    BY <1>2, <2>1, <2>2, <2>3, <2>4 DEF Revoke, Load
<1>3. CASE SaveOpen(p)
  BY <1>3 DEF SaveOpen, Truncate, Places
<1>4. CASE SaveBegin(p)
  BY <1>4 DEF SaveBegin, Begin
<1>5. CASE SaveEnd(p)
  <2>1. \A by : Outcomes(p, by, snap[p]) \subseteq Stores \cup {Torn}
    BY DEF Outcomes
  <2> QED
    BY <1>5, <2>1 DEF SaveEnd, Finish
<1>6. CASE SaveRename(p)
  <2>1. op[p] \in Op /\ op[p].handle \in Handle
    BY <1>6 DEF SaveRename, Op
  <2>2. Apply(op[p], ledger) \in Stores
    BY <2>1, ApplyType
  <2>3. file' \in Stores \cup {Torn} /\ fd' \in [Proc -> Places]
    BY <1>6 DEF SaveRename, Install, Moved, Places
  <2> QED
    BY <1>6, <2>1, <2>2, <2>3 DEF SaveRename, Install
<1>7. CASE SaveFails(p)
  <2>1. faults' \in 0 .. MaxFaults
    BY <1>7, FaultsAssumption DEF SaveFails, FaultUnless, Fault
  <2> QED
    BY <1>7, <2>1 DEF SaveFails, GiveUp, Places
<1> QED
  BY <1>1, <1>2, <1>3, <1>4, <1>5, <1>6, <1>7 DEF Save

\* So do an hour that passes and whatever stops.
LEMMA StopType ==
  ASSUME TypeOK, Known, Expire \/ StopBroker \/ \E p \in Proc : StopCommand(p)
  PROVE  TypeOK' /\ (\A q \in Proc : pc[q] \notin Idle => op[q] \in Op)'
<1> USE DEF TypeOK, Known, Idle, Steps, terminal, store, disk
<1>1. CASE Expire
  BY <1>1 DEF Expire
<1>2. CASE StopBroker
  <2>1. faults' \in 0 .. MaxFaults
    BY <1>2, FaultsAssumption DEF StopBroker, Fault
  <2>2. shown' \in Seq(Conn)
    BY <1>2, EmptySeq DEF StopBroker
  <2> QED
    BY <1>2, <2>1, <2>2 DEF StopBroker, Places
<1>3. ASSUME NEW p \in Proc, StopCommand(p)
      PROVE  TypeOK' /\ (\A q \in Proc : pc[q] \notin Idle => op[q] \in Op)'
  <2>1. faults' \in 0 .. MaxFaults
    BY <1>3, FaultsAssumption DEF StopCommand, Fault
  <2> QED
    BY <1>3, <2>1 DEF StopCommand, GiveUp, Places
<1> QED
  BY <1>1, <1>2, <1>3

\* The screen: a step adds a prompt, takes one off, clears it, or is none of a
\* thread's that waits.
LEMMA ScreenKept ==
  ASSUME TypeOK, Known, Next
  PROVE  (IsFiniteSet(Asked) /\ Cardinality(Asked) = Len(shown))'
<1> USE DEF Known, Conn, Go, terminal, store, disk
<1>1. ASSUME NEW c \in Proc, Ask(c), pc'[c] = "waiting"
      PROVE  (IsFiniteSet(Asked) /\ Cardinality(Asked) = Len(shown))'
  <2>1. c \in Conn /\ c \notin Asked /\ Asked' = Asked \cup {c}
    BY <1>1 DEF Ask, Asked, TypeOK, Saving
  <2>2. Len(shown') = Len(shown) + 1
    BY <1>1, <2>1, PromptType DEF Ask, TypeOK
  <2> QED
    BY <2>1, <2>2, FS_AddElement
<1>2. ASSUME NEW c \in Proc, Answer(c)
      PROVE  (IsFiniteSet(Asked) /\ Cardinality(Asked) = Len(shown))'
  <2>1. c \in Asked /\ Asked' = Asked \ {c}
    BY <1>2 DEF Answer, Asked, TypeOK, Saving
  <2>2. Len(shown) > 0
    BY <2>1, FS_EmptySet, LenProperties DEF TypeOK
  <2>3. Len(shown') = Len(shown) - 1
    BY <1>2, <2>2, AnsweredType DEF Answer
  <2> QED
    BY <2>1, <2>3, FS_RemoveElement
<1>3. CASE StopBroker
  <2>1. Asked' = {} /\ shown' = <<>>
    BY <1>3, CmdAssumption DEF StopBroker, Asked, TypeOK
  <2> QED
    BY <2>1, FS_EmptySet, EmptySeq
<1>4. ASSUME Asked' = Asked, UNCHANGED shown
      PROVE  (IsFiniteSet(Asked) /\ Cardinality(Asked) = Len(shown))'
  BY <1>4
<1>5. ASSUME NEW c \in Proc,
             \/ Lookup(c) \/ Refuse(c) \/ (Ask(c) /\ pc'[c] # "waiting") \/ TakeStdin(c)
             \/ Deliver(c) \/ DeliverFails(c) \/ ChildEnds(c)
      PROVE  Asked' = Asked /\ UNCHANGED shown
  BY <1>5 DEF Asked, TypeOK, Lookup, Refuse, Ask, TakeStdin, Deliver, DeliverFails, ChildEnds
<1>6. ASSUME NEW p \in Proc, Allow(p) \/ Revoke(p) \/ Save(p) \/ StopCommand(p)
      PROVE  Asked' = Asked /\ UNCHANGED shown
  BY <1>6 DEF Asked, TypeOK, Allow, Revoke, Save, SaveOpen, SaveBegin, SaveEnd, SaveRename,
              SaveFails, StopCommand, After, Saving
<1>7. CASE Expire
  BY <1>4, <1>7 DEF Expire, Asked
<1> QED
  BY <1>1, <1>2, <1>3, <1>4, <1>5, <1>6, <1>7 DEF Next, Serve, Ask

\* A command neither asks nor delivers.
LEMMA CommandKept ==
  ASSUME TypeOK, Known, Next
  PROVE  (\A p \in Cmd : pc[p] \in {"out"} \cup Saving)'
<1> USE CmdAssumption DEF Known, Go, Conn, After, Saving, TypeOK, store, terminal
<1>1. ASSUME NEW c \in Proc, Serve(c)
      PROVE  (\A p \in Cmd : pc[p] \in {"out"} \cup Saving)'
  BY <1>1 DEF Serve, Lookup, Refuse, Ask, TakeStdin, Answer, Deliver, DeliverFails, ChildEnds
<1>2. ASSUME NEW p \in Proc, Allow(p) \/ Revoke(p) \/ Save(p) \/ StopCommand(p)
      PROVE  (\A q \in Cmd : pc[q] \in {"out"} \cup Saving)'
  BY <1>2 DEF Allow, Revoke, Save, SaveOpen, SaveBegin, SaveEnd, SaveRename, SaveFails,
              StopCommand
<1>3. CASE Expire \/ StopBroker
  BY <1>3 DEF Expire, StopBroker
<1> QED
  BY <1>1, <1>2, <1>3 DEF Next

\* Every step keeps the types and what is known of each process.
LEMMA TypeNext == TypeOK /\ Known /\ [Next]_vars => TypeOK' /\ Known'
<1> SUFFICES ASSUME TypeOK, Known, [Next]_vars PROVE TypeOK' /\ Known'
  OBVIOUS
<1>1. CASE Next
  <2>1. TypeOK' /\ (\A q \in Proc : pc[q] \notin Idle => op[q] \in Op)'
    BY <1>1, ServeType, SaveType, StopType DEF Next
  <2> QED
    BY <1>1, <2>1, ScreenKept, CommandKept DEF Known
<1>2. CASE UNCHANGED vars
  BY <1>2 DEF TypeOK, Known, Asked, vars
<1> QED
  BY <1>1, <1>2

\* Both hold always.
LEMMA TypeInvariant == Spec => [](TypeOK /\ Known)
BY TypeInit, TypeNext, PTL DEF Spec

\* Every variable keeps its type: no use is counted below zero, no prompt is
\* answered that is not there.
THEOREM TypeCorrect == Spec => []TypeOK
BY TypeInvariant, PTL

(***************************************************************************)
(* The store, as long as no two processes hold it at once.                 *)
(***************************************************************************)

\* The one process that holds the store, if there is one.
Alone == \A p, q \in Proc : pc[p] \notin Idle /\ pc[q] \notin Idle => p = q

\* Its temporary, and what it is about to save: its operation, on the store as it
\* still is.
Own(p) ==
  /\ fd[p] # "none" => pc[p] \in {"tmp", "writing", "written"}
  /\ pc[p] \in {"tmp", "writing", "written"} => fd[p] = "tmp"
  /\ pc[p] = "tmp" => tmpBy = {}
  /\ pc[p] = "writing" => tmpBy = {p}
  /\ pc[p] = "written" => tmp = snap[p]
  /\ pc[p] \in Saving => snap[p] = Apply(op[p], file)
  /\ pc[p] \notin Idle \cup Saving => snap[p] = file

Turns ==
  ~overlapped => Alone /\ file = ledger /\ \A p \in Proc : Own(p)

\* Steps of a request that neither load nor save keep it: the store is the same
\* and the snapshot too, until the use is taken off.
LEMMA ServeKeepsTurns ==
  ASSUME TypeOK, Known, Turns, NEW c \in Proc, Serve(c)
  PROVE  Turns'
<1> USE DEF TypeOK, Turns, Alone, Own, Idle, Saving, Go, terminal, store, disk
<1>1. CASE Lookup(c)
  <2> SUFFICES ASSUME ~overlapped'
               PROVE  (Alone /\ file = ledger /\ \A p \in Proc : Own(p))'
    OBVIOUS
  <2>1. ~overlapped /\ \A p \in Proc : pc[p] \in Idle
    BY <1>1 DEF Lookup, Load
  <2>2. pc' = [pc EXCEPT ![c] = "ask"] /\ snap' = [snap EXCEPT ![c] = file]
        /\ UNCHANGED <<disk, fd, ledger>>
    BY <1>1, <2>1, LoadedIsFile DEF Lookup
  <2> QED
    BY <2>1, <2>2
<1>2. CASE Refuse(c)
  BY <1>2 DEF Refuse
<1>3. CASE Ask(c)
  BY <1>3 DEF Ask
<1>4. CASE TakeStdin(c)
  BY <1>4 DEF TakeStdin
<1>5. CASE Answer(c)
  BY <1>5 DEF Answer
<1>6. CASE Deliver(c)
  BY <1>6 DEF Deliver
<1>7. CASE DeliverFails(c)
  BY <1>7 DEF DeliverFails
<1>8. CASE ChildEnds(c)
  BY <1>8 DEF ChildEnds
<1> QED
  BY <1>1, <1>2, <1>3, <1>4, <1>5, <1>6, <1>7, <1>8 DEF Serve

\* So do the commands and every step of a save: the rename installs the operation
\* applied to the store it replaces.
LEMMA SaveKeepsTurns ==
  ASSUME TypeOK, Known, Turns, NEW p \in Proc, Allow(p) \/ Revoke(p) \/ Save(p)
  PROVE  Turns'
<1> USE MarkerAssumption
    DEF TypeOK, Turns, Alone, Own, Idle, Saving, Go, After, terminal, store, disk
<1>1. CASE Allow(p) \/ Revoke(p)
  <2> SUFFICES ASSUME ~overlapped'
               PROVE  (Alone /\ file = ledger /\ \A q \in Proc : Own(q))'
    OBVIOUS
  <2>1. ~overlapped /\ \A q \in Proc : pc[q] \in Idle
    BY <1>1 DEF Allow, Revoke, Load
  <2>2. pc' = [pc EXCEPT ![p] = "save"] /\ snap' = [snap EXCEPT ![p] = Apply(op'[p], file)]
        /\ UNCHANGED <<disk, fd, ledger>>
    BY <1>1, <2>1, LoadedIsFile DEF Allow, Revoke
  <2> QED
    BY <2>1, <2>2
<1>2. CASE SaveOpen(p)
  BY <1>2 DEF SaveOpen, Truncate
<1>3. CASE SaveBegin(p)
  BY <1>3 DEF SaveBegin, Begin
<1>4. CASE SaveEnd(p)
  BY <1>4 DEF SaveEnd, Finish, Outcomes
<1>5. CASE SaveRename(p)
  <2> SUFFICES ASSUME ~overlapped'
               PROVE  (Alone /\ file = ledger /\ \A q \in Proc : Own(q))'
    OBVIOUS
  <2>1. ~overlapped /\ fd[p] = "tmp" /\ tmp = snap[p] /\ snap[p] = Apply(op[p], file)
    BY <1>5 DEF SaveRename
  <2>2. \A q \in Proc : q # p => pc[q] \in Idle /\ fd[q] = "none"
    BY <1>5, <2>1 DEF SaveRename
  <2>3. file' = Apply(op[p], file) /\ ledger' = Apply(op[p], file)
    BY <1>5, <2>1 DEF SaveRename, Install
  <2>4. \A q \in Proc : fd'[q] = "none" /\ pc'[q] \in Idle
    BY <1>5, <2>1, <2>2 DEF SaveRename, Install, Moved
  <2> QED
    BY <2>3, <2>4
<1>6. CASE SaveFails(p)
  BY <1>6 DEF SaveFails, GiveUp
<1> QED
  BY <1>1, <1>2, <1>3, <1>4, <1>5, <1>6 DEF Save

\* So does whatever stops.
LEMMA StopKeepsTurns ==
  ASSUME TypeOK, Turns, Expire \/ StopBroker \/ \E p \in Proc : StopCommand(p)
  PROVE  Turns'
<1> USE DEF TypeOK, Turns, Alone, Own, Idle, Saving, terminal, store, disk
<1>1. CASE Expire
  BY <1>1 DEF Expire
<1>2. CASE StopBroker
  BY <1>2 DEF StopBroker
<1>3. ASSUME NEW p \in Proc, StopCommand(p) PROVE Turns'
  BY <1>3 DEF StopCommand, GiveUp
<1> QED
  BY <1>1, <1>2, <1>3

\* While no two processes hold the store at once, it is what atomic permissions,
\* revocations and uses would have made of it, through crashes and failed saves.
THEOREM StoreFollowsLedger == Spec => []StoreIsLedger
<1>1. Init => Turns
  BY DEF Init, Turns, Alone, Own, Idle, Saving
<1>2. TypeOK /\ Known /\ Turns /\ [Next]_vars => Turns'
  <2> SUFFICES ASSUME TypeOK, Known, Turns, [Next]_vars PROVE Turns'
    OBVIOUS
  <2>1. CASE Next
    BY <2>1, ServeKeepsTurns, SaveKeepsTurns, StopKeepsTurns DEF Next
  <2>2. CASE UNCHANGED vars
    BY <2>2 DEF vars, Turns, Alone, Own
  <2> QED
    BY <2>1, <2>2
<1>3. Turns => StoreIsLedger
  BY DEF Turns, StoreIsLedger
<1> QED
  BY <1>1, <1>2, <1>3, TypeInvariant, PTL DEF Spec

(***************************************************************************)
(* The prompts, as long as there is one at a time.                         *)
(***************************************************************************)

\* A thread that waits has the only prompt there is, and what is past the prompt
\* had its own answered with yes.
Prompted ==
  ~crowded => /\ delivered \subseteq meant
              /\ \A c \in Conn : pc[c] \in {"waiting", "reading"} => shown = <<c>>
              /\ \A c \in Conn : pc[c] = "approved" => c \in meant

\* UC-16 3.3: a secret is delivered for a prompt answered with yes, unless two
\* prompts were on the screen at once.
THEOREM DeliveredOnYes == Spec => []DeliveredAsMeant
<1>1. Init => Prompted
  BY DEF Init, Prompted, Conn
<1>2. TypeOK /\ Known /\ Prompted /\ [Next]_vars => Prompted'
  <2> SUFFICES ASSUME TypeOK, Known, Prompted, [Next]_vars PROVE Prompted'
    OBVIOUS
  <2> USE DEF TypeOK, Known, Prompted, Conn, Go, After, Saving, terminal, store
  <2>1. ASSUME NEW c \in Proc, Serve(c) PROVE Prompted'
    <3>1. CASE Lookup(c) \/ Refuse(c)
      BY <3>1 DEF Lookup, Refuse
    <3>2. CASE Ask(c)
      <4>1. ASSUME ~crowded', pc'[c] = "waiting" PROVE Prompted'
        <5>1. ~crowded /\ shown = <<>> /\ shown' = <<c>>
          <6>1. ~crowded /\ shown = <<>> /\ shown' = Append(shown, c)
            BY <3>2, <4>1 DEF Ask
          <6> QED
            BY <6>1
        <5>2. \A d \in Conn : pc[d] \notin {"waiting", "reading"}
          BY <5>1
        <5> QED
          BY <3>2, <4>1, <5>1, <5>2 DEF Ask
      <4>2. ASSUME pc'[c] # "waiting" PROVE Prompted'
        BY <3>2, <4>2 DEF Ask
      <4> QED
        BY <4>1, <4>2
    <3>3. CASE TakeStdin(c)
      BY <3>3 DEF TakeStdin
    <3>4. CASE Answer(c)
      <4>1. c \in Conn
        BY <3>4 DEF Answer
      <4>2. ASSUME ~crowded'
            PROVE  /\ delivered' \subseteq meant'
                   /\ \A d \in Conn : pc'[d] \in {"waiting", "reading"} => shown' = <<d>>
                   /\ \A d \in Conn : pc'[d] = "approved" => d \in meant'
        <5>1. ~crowded /\ shown = <<c>>
          BY <3>4, <4>1, <4>2 DEF Answer
        <5>2. Len(shown) = 1 /\ shown[Len(shown)] = c
          BY <5>1
        <5>3. \A d \in Conn : d # c => pc[d] \notin {"waiting", "reading"}
          BY <5>1
        <5> QED
          BY <3>4, <4>1, <5>1, <5>2, <5>3 DEF Answer
      <4> QED
        BY <4>2
    <3>5. CASE Deliver(c)
      <4>1. c \in Conn
        BY <3>5 DEF Deliver
      <4> QED
        BY <3>5, <4>1 DEF Deliver
    <3>6. CASE DeliverFails(c)
      BY <3>6 DEF DeliverFails
    <3>7. CASE ChildEnds(c)
      BY <3>7 DEF ChildEnds
    <3> QED
      BY <2>1, <3>1, <3>2, <3>3, <3>4, <3>5, <3>6, <3>7 DEF Serve
  <2>2. ASSUME NEW p \in Proc, Allow(p) \/ Revoke(p) \/ Save(p) \/ StopCommand(p)
        PROVE  Prompted'
    BY <2>2 DEF Allow, Revoke, Save, SaveOpen, SaveBegin, SaveEnd, SaveRename, SaveFails,
                StopCommand
  <2>3. CASE Expire \/ StopBroker
    BY <2>3, CmdAssumption DEF Expire, StopBroker
  <2>4. CASE UNCHANGED vars
    BY <2>4 DEF vars
  <2> QED
    BY <2>1, <2>2, <2>3, <2>4 DEF Next
<1>3. Prompted => DeliveredAsMeant
  BY DEF Prompted, DeliveredAsMeant
<1> QED
  BY <1>1, <1>2, <1>3, TypeInvariant, PTL DEF Spec
=============================================================================
