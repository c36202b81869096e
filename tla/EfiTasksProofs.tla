----------------------------- MODULE EfiTasksProofs -----------------------------
(***************************************************************************)
(* Proofs about EfiTasks, for any handles, protocols and lists of them,    *)
(* any number of calls, events and refusals, and any levels the lock and   *)
(* the notify functions may have; and about DevicePaths, whatever paths    *)
(* and names of files its functions are called with.                       *)
(***************************************************************************)
EXTENDS EfiTasks, DevicePaths, SequenceTheorems, FiniteSetTheorems, WellFoundedInduction, TLAPS

-------------------------------------------------------------------------------
(***************************************************************************)
(* The inductive invariant of the lock.                                    *)
(***************************************************************************)
Stacked == {"acquire", "locked", "used", "release"}
Task == [who : {"application", "timer", "protocol"},
         pc : {"idle", "end"} \union Stacked, back : Nat]

\* The calls that keep everybody else from running.
Synchronized == call.op \in {"install", "undo", "reinstall"}

\* The stack: the application at the bottom, and only the task on top in the lock.
StackInv ==
  /\ tasks \in Seq(Task) /\ Len(tasks) >= 1
  /\ \A i \in 1 .. Len(tasks) : tasks[i].who = "application" <=> i = 1
  /\ \A i \in 1 .. Len(tasks) - 1 : tasks[i].pc \in {"idle", "end"}
  /\ tasks[1].pc \notin {"used", "end"}

\* The protocol's event has one of the levels, and is signalled only once it is there.
EventInv ==
  /\ event \in [protocol : Protocols, level : Nat,
                is : {"none", "created", "registered", "kicked"}]
  /\ event.is # "none" => event.level \in NotifyLevels
  /\ signalled \subseteq {"timer", "protocol"}
  /\ "protocol" \in signalled => event.is # "none"

\* The levels: nothing due is above the lock's, where its holder runs.
LevelInv ==
  /\ tpl \in Nat /\ Lock \in [OwnerTpl : Nat, Lock : Nat]
  /\ EventInv
  /\ top.pc \in Stacked => tpl >= LockTpl
  /\ Lock.Lock = IF top.pc \in {"locked", "used"} THEN 1 ELSE 0
  /\ tasks[1].pc \in Stacked => Lock.OwnerTpl = APPLICATION

\* The application's own level, which it comes back to.
BottomInv ==
  LET below == IF tasks[1].pc = "idle" THEN APPLICATION ELSE LockTpl
  IN  /\ Len(tasks) = 1 => tpl = IF Synchronized THEN NOTIFY ELSE below
      /\ Len(tasks) > 1 => ~Synchronized /\ tasks[2].back = APPLICATION
      /\ Synchronized => call.OldTpl = below /\ tasks[1].pc \in {"idle", "locked"}

LockInv == StackInv /\ LevelInv /\ BottomInv

-------------------------------------------------------------------------------
(***************************************************************************)
(* The types of the calls and of the database.                             *)
(***************************************************************************)
CallType ==
  \/ call = NoCall
  \/ call \in [op : {"install", "undo"}, list : Lists, id : Nat, n : Nat, OldTpl : Nat,
               OldHandle : Handles \union {NoHandle}, k : Nat]
  \/ call \in [op : {"uninstall"}, Handle : Handles, interface : Nat \X Lists, n : Nat]
  \/ call \in [op : {"reinstall"}, OldTpl : Nat]
  \/ call = [op |-> "create"]

DbInv ==
  /\ calls \in Nat /\ Handle \in Handles \union {NoHandle}
  /\ db \in SUBSET (Handles \X Protocols \X (Nat \X Seq(Protocols)))
  /\ \A d \in db : d[3] = Driver \/ d[3] \in (1 .. calls) \X Lists
  /\ call.op \in {"install", "undo"} => call.id = calls /\ calls > 0

DataInv == CallType /\ DbInv

LEMMA DataInit == TasksInit => DataInv
BY DEF TasksInit, DataInv, CallType, DbInv, NoCall

\* Whatever installs an interface adds one, to a handle there is; the application's
\* own handle is then that one.
LEMMA InstalledAdds ==
  ASSUME DbInv, NEW h \in Handles \union {NoHandle}, NEW p, NEW I, Installed(h, p, I)
  PROVE  /\ \E new \in Handles :
              /\ db' = db \union {<<new, p, I>>}
              /\ h # NoHandle => new = h
              /\ Handle' = IF I = Driver THEN Handle ELSE new
         /\ UNCHANGED refusals
BY DEF Installed, Used

LEMMA DataNext ==
  ASSUME DataInv, [TasksNext]_task_vars, tpl \in Nat
  PROVE  DataInv'
<1> USE DEF DataInv
<1>1. CASE UNCHANGED <<call, db, Handle, calls>>
  BY <1>1 DEF CallType, DbInv, NoCall
<1>2. CASE driver
  <2>1. UNCHANGED <<call, calls>>
    BY <1>2 DEF driver
  <2>2. PICK p \in Protocols :
          \/ \E h \in Used \union {NoHandle} : Installed(h, p, Driver) \/ InstallRefused(h, p)
          \/ \E h \in On(p) : /\ Uninstalled(h, p, Driver)
                              /\ UNCHANGED <<Handle, signalled, refusals>>
    BY <1>2 DEF driver
  <2>3. Driver \in Nat \X Seq(Protocols)
    <3>1. << >> \in Seq(Protocols)
      OBVIOUS
    <3> QED
      BY <3>1 DEF Driver
  <2>4. ASSUME NEW h \in Used \union {NoHandle}, Installed(h, p, Driver) PROVE DbInv'
    <3>1. h \in Handles \union {NoHandle}
      BY DEF Used, DbInv
    <3>2. PICK new \in Handles : db' = db \union {<<new, p, Driver>>} /\ Handle' = Handle
      BY <2>4, <3>1, InstalledAdds
    <3> QED
      BY <2>1, <2>3, <3>2 DEF DbInv
  <2>5. ASSUME db' \subseteq db, Handle' = Handle PROVE DbInv'
    BY <2>1, <2>5 DEF DbInv
  <2>6. DbInv'
    BY <2>2, <2>4, <2>5 DEF InstallRefused, Uninstalled
  <2>7. CallType'
    BY <2>1 DEF CallType, NoCall
  <2> QED
    BY <2>6, <2>7
<1>3. CASE RtAcquireLock_raise
  <2>1. UNCHANGED <<call, db, Handle>> /\ calls' \in {calls, calls + 1}
    BY <1>3 DEF RtAcquireLock_raise, Locking
  <2>2. calls' # calls => call.op = "none"
    BY <1>3 DEF RtAcquireLock_raise
  <2> QED
    BY <2>1, <2>2 DEF CallType, DbInv, NoCall
<1>4. ASSUME UNCHANGED <<db, calls>>, Handle' \in Handles \union {NoHandle}, CallType',
             call'.op \in {"install", "undo"} => call'.id = calls /\ calls > 0
      PROVE  DataInv'
  BY <1>4 DEF DbInv
<1>5. ASSUME UNCHANGED <<db, calls, Handle>>, call' = NoCall PROVE DataInv'
  BY <1>4, <1>5 DEF DbInv, CallType, NoCall
<1>6. CASE LibInstallProtocolInterfaces
  <2>1. PICK list \in Lists, h \in {NoHandle, Handle} :
          /\ calls' = calls + 1 /\ Handle' = h /\ db' = db
          /\ call' = [op |-> "install", list |-> list, id |-> calls + 1, n |-> 0,
                      OldTpl |-> tpl, OldHandle |-> h, k |-> 1]
    BY <1>6 DEF LibInstallProtocolInterfaces, Begin
  <2>2. h \in Handles \union {NoHandle} /\ calls \in Nat
    BY DEF DbInv
  <2>3. CallType'
    BY <2>1, <2>2 DEF CallType
  <2>4. DbInv'
    BY <2>1, <2>2 DEF DbInv
  <2> QED
    BY <2>3, <2>4
<1>7. CASE install_one
  <2>1. call.op = "install" /\ calls' = calls
    BY <1>7 DEF install_one, Within
  <2>2. call \in [op : {"install", "undo"}, list : Lists, id : Nat, n : Nat, OldTpl : Nat,
                  OldHandle : Handles \union {NoHandle}, k : Nat]
    BY <2>1 DEF CallType, NoCall
  <2> DEFINE p == call.list[call.n + 1]
  <2>3. call.n + 1 \in 1 .. Len(call.list) /\ call.list \in Seq(Protocols) /\ p \in Protocols
    BY <1>7, <2>2, TasksAssumption DEF install_one
  <2>4. CASE Installed(Handle, p, Interface) /\ call' = [call EXCEPT !.n = @ + 1]
    <3>1. call.id = calls /\ calls > 0 /\ calls \in Nat
      BY <2>1 DEF DbInv
    <3>2. Interface \in Nat \X Seq(Protocols) /\ Interface \in (1 .. calls) \X Lists
      BY <2>2, <2>3, <3>1 DEF Interface
    <3>3. PICK new \in Handles : /\ db' = db \union {<<new, p, Interface>>}
                                 /\ Handle' = IF Interface = Driver THEN Handle ELSE new
      BY <2>4, InstalledAdds DEF DbInv
    <3>4. Handle' \in Handles \union {NoHandle}
      BY <3>3 DEF DbInv
    <3>5. CallType'
      BY <2>2, <2>4 DEF CallType
    <3>6. call'.id = calls
      BY <2>2, <2>4, <3>1
    <3> HIDE DEF p
    <3>7. DbInv'
      BY <2>1, <2>3, <3>1, <3>2, <3>3, <3>4, <3>6 DEF DbInv
    <3> QED
      BY <3>5, <3>7
  <2>5. CASE InstallRefused(Handle, p) /\ call' = [call EXCEPT !.op = "undo"]
    <3>1. CallType' /\ call'.id = call.id
      BY <2>2, <2>5 DEF CallType
    <3> QED
      BY <1>4, <2>1, <2>5, <3>1 DEF InstallRefused, DbInv
  <2> QED
    BY <1>7, <2>4, <2>5 DEF install_one
<1>8. CASE undo_one
  <2>1. call.op = "undo" /\ UNCHANGED <<calls, Handle>> /\ db' \subseteq db /\ call.n > 0
        /\ call' = [call EXCEPT !.n = @ - 1, !.k = @ + 1]
    BY <1>8 DEF undo_one, Within, Uninstalled
  <2>2. call \in [op : {"install", "undo"}, list : Lists, id : Nat, n : Nat, OldTpl : Nat,
                  OldHandle : Handles \union {NoHandle}, k : Nat]
    BY <2>1 DEF CallType, NoCall
  <2>3. CallType' /\ call'.id = call.id
    <3>1. call.n - 1 \in Nat /\ call.k + 1 \in Nat
      BY <2>1, <2>2
    <3> QED
      BY <2>1, <2>2, <3>1 DEF CallType
  <2> QED
    BY <2>1, <2>3 DEF DbInv
<1>9. CASE install_return
  <2>1. UNCHANGED <<calls, db>> /\ call' = NoCall
        /\ (Handle' = Handle \/ (call.op = "undo" /\ Handle' = call.OldHandle))
    BY <1>9 DEF install_return, Within
  <2>2. Handle' \in Handles \union {NoHandle}
    BY <2>1 DEF CallType, DbInv, NoCall
  <2> QED
    BY <1>4, <2>1, <2>2 DEF CallType, NoCall
<1>10. CASE LibUninstallProtocolInterfaces
  <2>1. PICK d \in db : /\ d[3] # Driver /\ calls' = calls + 1 /\ UNCHANGED <<db, Handle>>
                        /\ call' = [op |-> "uninstall", Handle |-> d[1], interface |-> d[3], n |-> 0]
    BY <1>10 DEF LibUninstallProtocolInterfaces, Begin
  <2>2. d[1] \in Handles /\ d[3] \in Nat \X Lists
    BY <2>1 DEF DbInv
  <2>3. CallType'
    BY <2>1, <2>2 DEF CallType
  <2>4. DbInv'
    BY <2>1 DEF DbInv
  <2> QED
    BY <2>3, <2>4
<1>11. CASE uninstall_one
  <2>1. call.op = "uninstall" /\ UNCHANGED <<calls, Handle>> /\ db' \subseteq db
        /\ call' \in {[call EXCEPT !.n = @ + 1], NoCall}
    BY <1>11 DEF uninstall_one, Within, Uninstalled
  <2>2. call \in [op : {"uninstall"}, Handle : Handles, interface : Nat \X Lists, n : Nat]
    BY <2>1 DEF CallType, NoCall
  <2>3. CallType' /\ call'.op \notin {"install", "undo"}
    BY <2>1, <2>2 DEF CallType, NoCall
  <2> QED
    BY <2>1, <2>3 DEF DbInv
<1>12. CASE LibReinstallProtocolInterfaces \/ LibCreateProtocolNotifyEvent
  <2>1. /\ calls' = calls + 1 /\ UNCHANGED <<db, Handle>>
        /\ call' \in {[op |-> "reinstall", OldTpl |-> tpl], [op |-> "create"]}
    BY <1>12 DEF LibReinstallProtocolInterfaces, LibCreateProtocolNotifyEvent, Begin
  <2>2. CallType' /\ call'.op \notin {"install", "undo"}
    BY <2>1 DEF CallType
  <2> QED
    BY <2>1, <2>2 DEF DbInv
<1>13. CASE reinstall_refused \/ signal
  BY <1>5, <1>13 DEF reinstall_refused, signal, Within
<1>14. CASE register
  BY <1>1, <1>5, <1>14 DEF register, Within
<1>15. CASE \/ dispatch \/ notify_return \/ notify_look \/ timer_tick \/ RtAcquireLock_count
            \/ RtReleaseLock_count \/ RtReleaseLock_restore \/ UNCHANGED task_vars
  BY <1>1, <1>15 DEF dispatch, notify_return, notify_look, timer_tick, RtAcquireLock_count,
     RtReleaseLock_count, RtReleaseLock_restore, Locking, task_vars
<1> QED
  BY <1>2, <1>3, <1>6, <1>7, <1>8, <1>9, <1>10, <1>11, <1>12, <1>13, <1>14, <1>15
     DEF TasksNext, Tasks

-------------------------------------------------------------------------------
(***************************************************************************)
(* Steps on the stack.                                                     *)
(***************************************************************************)
\* What the assumptions say of the levels, as numbers.
LEMMA Levels ==
  /\ LockTpl \in Nat /\ LockTpl <= 2
  /\ \A l \in NotifyLevels : l \in Nat /\ l <= LockTpl
  /\ CALLBACK = 1 /\ CALLBACK <= LockTpl /\ NOTIFY = 2 /\ APPLICATION = 0
BY TasksAssumption DEF APPLICATION, CALLBACK, NOTIFY

\* The task on top, and those below it.
LEMMA TopType ==
  ASSUME StackInv
  PROVE  /\ Len(tasks) \in Nat /\ Len(tasks) \in 1 .. Len(tasks) /\ 1 \in 1 .. Len(tasks)
         /\ DOMAIN tasks = 1 .. Len(tasks)
         /\ \A i \in 1 .. Len(tasks) : tasks[i] \in Task
         /\ top = tasks[Len(tasks)] /\ top \in Task
BY DEF StackInv, top

\* Nobody comes in on top of a task in the lock: what is due has a higher level
\* than the one that runs.
LEMMA NothingDue ==
  ASSUME LevelInv, tpl >= LockTpl
  PROVE  Due = {}
<1> SUFFICES ASSUME NEW e \in signalled, Level(e) > tpl PROVE FALSE
  BY DEF Due
<1>1. tpl \in Nat
  BY DEF LevelInv
<1>2. CASE e = "timer"
  BY <1>1, <1>2, Levels DEF Level
<1>3. CASE e # "timer"
  <2>1. event.level \in NotifyLevels
    BY <1>3 DEF LevelInv, EventInv
  <2> QED
    BY <1>1, <1>3, <2>1, Levels DEF Level
<1> QED
  BY <1>2, <1>3

\* A step of the task on top changes its place in its program.
LEMMA StepOnTop ==
  ASSUME StackInv, NEW from, NEW to \in {"idle", "end"} \union Stacked, Step(from, to),
         to = "end" => top.who # "application", to = "used" => top.who # "application"
  PROVE  /\ Due = {} /\ top.pc = from /\ StackInv' /\ Len(tasks') = Len(tasks)
         /\ top'.pc = to /\ top'.who = top.who /\ top'.back = top.back
         /\ \A i \in 1 .. Len(tasks) - 1 : tasks'[i] = tasks[i]
         /\ \A i \in 1 .. Len(tasks) : tasks'[i].back = tasks[i].back
<1> DEFINE l == Len(tasks)
<1>1. /\ l \in Nat /\ l \in 1 .. l /\ 1 \in 1 .. l /\ DOMAIN tasks = 1 .. l
      /\ \A i \in 1 .. l : tasks[i] \in Task
      /\ top = tasks[l] /\ top \in Task
  BY TopType
<1>2. tasks' = [tasks EXCEPT ![l].pc = to] /\ Due = {} /\ top.pc = from
  BY DEF Step
<1> HIDE DEF l
<1>3. DOMAIN tasks' = 1 .. l
  BY <1>1, <1>2
<1>4. \A i \in 1 .. l : i # l => tasks'[i] = tasks[i]
  BY <1>1, <1>2
<1>5. tasks'[l] = [tasks[l] EXCEPT !.pc = to]
  BY <1>1, <1>2
<1>6. /\ tasks'[l] \in Task /\ tasks'[l].pc = to
      /\ tasks'[l].who = tasks[l].who /\ tasks'[l].back = tasks[l].back
  BY <1>1, <1>5 DEF Task
<1>7. \A i \in 1 .. l : tasks'[i] \in Task
  BY <1>1, <1>4, <1>6
<1>8. tasks' \in Seq(Task) /\ Len(tasks') = l
  <2>1. tasks' = [i \in 1 .. l |-> tasks'[i]]
    BY <1>1, <1>2
  <2> QED
    BY <1>1, <1>7, <2>1
<1>9. top' = tasks'[l]
  BY <1>8 DEF top
<1>10. StackInv'
  <2>1. \A i \in 1 .. l : tasks'[i].who = "application" <=> i = 1
    BY <1>1, <1>4, <1>6 DEF StackInv, l
  <2>2. \A i \in 1 .. l - 1 : tasks'[i].pc \in {"idle", "end"}
    <3>1. \A i \in 1 .. l - 1 : i \in 1 .. l /\ i # l
      BY <1>1
    <3>2. \A i \in 1 .. l - 1 : tasks[i].pc \in {"idle", "end"}
      BY DEF StackInv, l
    <3> QED
      BY <1>4, <3>1, <3>2
  <2>3. tasks'[1].pc \notin {"used", "end"}
    <3>1. CASE l = 1
      <4>1. top.who = "application"
        BY <1>1, <3>1 DEF StackInv, l
      <4> QED
        BY <1>6, <3>1, <4>1
    <3>2. CASE l # 1
      BY <1>1, <1>4, <3>2 DEF StackInv
    <3> QED
      BY <3>1, <3>2
  <2>4. Len(tasks') >= 1
    BY <1>1, <1>8
  <2> QED
    BY <1>8, <2>1, <2>2, <2>3, <2>4 DEF StackInv
<1>11. \A i \in 1 .. l : tasks'[i].back = tasks[i].back
  BY <1>4, <1>6
<1>12. \A i \in 1 .. l - 1 : tasks'[i] = tasks[i]
  BY <1>1, <1>4
<1> QED
  BY <1>1, <1>2, <1>6, <1>8, <1>9, <1>10, <1>11, <1>12 DEF l

-------------------------------------------------------------------------------
(***************************************************************************)
(* Each step keeps LockInv.                                                *)
(***************************************************************************)
LEMMA LockInit == TasksInit => LockInv
<1> SUFFICES ASSUME TasksInit PROVE LockInv
  OBVIOUS
<1>1. tasks = <<application>> /\ application \in Task /\ application.pc = "idle"
      /\ application.who = "application"
  BY DEF TasksInit, application, Task, APPLICATION
<1>2. tasks \in Seq(Task) /\ Len(tasks) = 1 /\ tasks[1] = application /\ top = application
  BY <1>1 DEF top
<1>3. ~Synchronized
  BY DEF TasksInit, NoCall, Synchronized
<1>4. StackInv
  BY <1>1, <1>2, <1>3 DEF StackInv
<1>5. LevelInv
  <2>1. (CHOOSE p \in Protocols : TRUE) \in Protocols
    BY TasksAssumption
  <2>2. EventInv
    BY <2>1 DEF TasksInit, EventInv, NOTIFY
  <2> QED
    BY <1>1, <1>2, <2>2 DEF TasksInit, LevelInv, APPLICATION, Stacked
<1>6. BottomInv
  BY <1>1, <1>2, <1>3 DEF TasksInit, BottomInv
<1> QED
  BY <1>4, <1>5, <1>6 DEF LockInv

\* A step that leaves the stack, the levels and the lock alone, as those of the
\* firmware and of the notify functions on the database do.
LEMMA QuietKeepsLock ==
  ASSUME LockInv, UNCHANGED <<tasks, tpl, Lock, call>>,
         EventInv'
  PROVE  LockInv'
<1>1. StackInv'
  BY DEF LockInv, StackInv
<1>2. top' = top
  BY DEF top
<1>3. LevelInv'
  BY <1>2 DEF LockInv, LevelInv
<1>4. BottomInv'
  BY DEF LockInv, BottomInv, Synchronized
<1> QED
  BY <1>1, <1>3, <1>4 DEF LockInv

LEMMA DispatchKeepsLock ==
  ASSUME LockInv, dispatch
  PROVE  LockInv'
<1> DEFINE l == Len(tasks)
<1>1. PICK e \in Due :
        /\ tasks' = Append(tasks, [who |-> e, pc |-> "idle", back |-> tpl])
        /\ tpl' = Level(e) /\ signalled' = signalled \ {e}
        /\ UNCHANGED <<Lock, db, Handle, call, event, seen, calls, ticks, refusals>>
  BY DEF dispatch
<1> DEFINE new == [who |-> e, pc |-> "idle", back |-> tpl]
<1>2. /\ l \in Nat /\ l \in 1 .. l /\ 1 \in 1 .. l /\ DOMAIN tasks = 1 .. l
      /\ \A i \in 1 .. l : tasks[i] \in Task
      /\ top = tasks[l] /\ top \in Task
  BY TopType DEF LockInv
<1>3. e \in {"timer", "protocol"} /\ new \in Task /\ new.pc = "idle" /\ new.who = e
      /\ new.back = tpl
  BY DEF Due, LockInv, LevelInv, EventInv, Task
<1>4. tpl < LockTpl /\ tpl < 2
  BY <1>1, NothingDue, Levels DEF LockInv, LevelInv
<1>5. top.pc \in {"idle", "end"}
  BY <1>2, <1>4, Levels DEF LockInv, LevelInv, Task
<1> HIDE DEF new, l
<1>6. /\ tasks' \in Seq(Task) /\ Len(tasks') = l + 1 /\ tasks'[l + 1] = new
      /\ \A i \in 1 .. l : tasks'[i] = tasks[i]
  BY <1>1, <1>2, <1>3 DEF LockInv, StackInv, l, new
<1>7. top' = new
  BY <1>6 DEF top
<1>8. ~Synchronized /\ (l = 1 => tpl = APPLICATION)
  <2>1. CASE l = 1
    BY <1>2, <1>4, <1>5, <2>1, Levels DEF LockInv, BottomInv, l, StackInv
  <2>2. CASE l # 1
    BY <1>2, <2>2 DEF LockInv, BottomInv, l
  <2> QED
    BY <2>1, <2>2
<1>9. StackInv'
  <2>1. \A i \in 1 .. l + 1 : tasks'[i].who = "application" <=> i = 1
    BY <1>2, <1>3, <1>6 DEF LockInv, StackInv, l
  <2>2. \A i \in 1 .. (l + 1) - 1 : tasks'[i].pc \in {"idle", "end"}
    <3>1. \A i \in 1 .. l - 1 : tasks[i].pc \in {"idle", "end"}
      BY DEF LockInv, StackInv, l
    <3> QED
      BY <1>2, <1>5, <1>6, <3>1
  <2>3. tasks'[1].pc \notin {"used", "end"}
    BY <1>2, <1>6 DEF LockInv, StackInv
  <2> QED
    BY <1>2, <1>6, <2>1, <2>2, <2>3 DEF StackInv
<1>10. LevelInv'
  <2>1. tpl' \in Nat
    <3>1. event.level \in Nat /\ CALLBACK \in Nat
      BY Levels DEF LockInv, LevelInv, EventInv
    <3>2. Level(e) \in Nat
      BY <3>1 DEF Level
    <3> QED
      BY <1>1, <3>2
  <2>2. tasks'[1].pc = tasks[1].pc
    BY <1>2, <1>6
  <2>3. Lock.Lock = 0
    BY <1>5 DEF LockInv, LevelInv
  <2> QED
    BY <1>1, <1>3, <1>7, <2>1, <2>2, <2>3 DEF LockInv, LevelInv, EventInv, Stacked
<1>11. BottomInv'
  <2>1. ~Synchronized'
    BY <1>1, <1>8 DEF Synchronized
  <2>2. Len(tasks') # 1 /\ tasks'[2].back = APPLICATION
    <3>1. CASE l = 1
      BY <1>3, <1>6, <1>8, <3>1
    <3>2. CASE l # 1
      BY <1>2, <1>6, <3>2 DEF LockInv, BottomInv, l
    <3> QED
      BY <1>2, <1>6, <3>1, <3>2
  <2> QED
    BY <2>1, <2>2 DEF BottomInv
<1> QED
  BY <1>9, <1>10, <1>11 DEF LockInv

LEMMA ReturnKeepsLock ==
  ASSUME LockInv, notify_return
  PROVE  LockInv'
<1> DEFINE l == Len(tasks)
<1>1. /\ Due = {} /\ top.pc = "end"
      /\ tasks' = SubSeq(tasks, 1, l - 1) /\ tpl' = top.back
      /\ UNCHANGED <<Lock, db, Handle, call, event, signalled, seen, calls, ticks, refusals>>
  BY DEF notify_return
<1>2. /\ l \in Nat /\ l \in 1 .. l /\ 1 \in 1 .. l /\ DOMAIN tasks = 1 .. l
      /\ \A i \in 1 .. l : tasks[i] \in Task
      /\ top = tasks[l] /\ top \in Task
  BY TopType DEF LockInv
<1>3. l >= 2
  BY <1>1, <1>2 DEF LockInv, StackInv
<1> HIDE DEF l
<1>4. /\ tasks' \in Seq(Task) /\ Len(tasks') = l - 1
      /\ \A i \in 1 .. l - 1 : tasks'[i] = tasks[i]
  BY <1>1, <1>2, <1>3 DEF LockInv, StackInv
<1>5. /\ top' = tasks[l - 1] /\ tasks'[1] = tasks[1]
      /\ 1 \in 1 .. l - 1 /\ l - 1 \in 1 .. l - 1 /\ l - 1 \in Nat
  BY <1>2, <1>3, <1>4 DEF top
<1>6. top'.pc \in {"idle", "end"} /\ tasks[1].pc \in {"idle", "end"}
  BY <1>5 DEF LockInv, StackInv, l
<1>7. tasks[1].pc = "idle"
  BY <1>6 DEF LockInv, StackInv
<1>8. StackInv'
  <2>1. \A i \in 1 .. l - 1 : tasks'[i].who = "application" <=> i = 1
    BY <1>2, <1>4 DEF LockInv, StackInv, l
  <2>2. \A i \in 1 .. (l - 1) - 1 : tasks'[i].pc \in {"idle", "end"}
    <3>1. \A i \in 1 .. l - 1 : tasks[i].pc \in {"idle", "end"}
      BY DEF LockInv, StackInv, l
    <3> QED
      BY <1>2, <1>4, <3>1
  <2> QED
    BY <1>4, <1>5, <1>7, <2>1, <2>2 DEF StackInv
<1>9. LevelInv'
  <2>1. tpl' \in Nat
    BY <1>1, <1>2 DEF Task
  <2>2. Lock.Lock = 0
    BY <1>1 DEF LockInv, LevelInv
  <2> QED
    BY <1>1, <1>5, <1>6, <1>7, <2>1, <2>2 DEF LockInv, LevelInv, EventInv, Stacked
<1>10. BottomInv'
  <2>1. ~Synchronized /\ tasks[2].back = APPLICATION
    BY <1>2, <1>3 DEF LockInv, BottomInv, l
  <2>2. ~Synchronized'
    BY <1>1, <2>1 DEF Synchronized
  <2>3. CASE l = 2
    BY <1>1, <1>2, <1>4, <1>5, <1>7, <2>1, <2>2, <2>3 DEF BottomInv
  <2>4. CASE l # 2
    BY <1>2, <1>3, <1>4, <2>1, <2>2, <2>4 DEF BottomInv
  <2> QED
    BY <2>3, <2>4
<1> QED
  BY <1>8, <1>9, <1>10 DEF LockInv

\* The application runs only when it is alone on the stack.
LEMMA RunsAlone ==
  ASSUME StackInv, top.who = "application"
  PROVE  Len(tasks) = 1 /\ top = tasks[1] /\ top.pc \notin {"used", "end"}
BY TopType DEF StackInv

\* Nobody runs besides it in the calls that keep everybody else out.
LEMMA SynchronizedAlone ==
  ASSUME LockInv, Synchronized
  PROVE  tpl = NOTIFY /\ top.who = "application"
<1>1. Len(tasks) \in Nat /\ Len(tasks) >= 1 /\ 1 \in 1 .. Len(tasks) /\ top = tasks[Len(tasks)]
  BY TopType DEF LockInv
<1>2. ~(Len(tasks) > 1) /\ (Len(tasks) = 1 => tpl = NOTIFY)
  BY Zenon DEF LockInv, BottomInv
<1>3. Len(tasks) = 1
  <2> DEFINE l == Len(tasks)
  <2>1. l \in Nat /\ l >= 1 /\ ~(l > 1)
    BY <1>1, <1>2
  <2> HIDE DEF l
  <2>2. l = 1
    BY <2>1
  <2> QED
    BY <2>2 DEF l
<1>4. tasks[1].who = "application"
  BY <1>1 DEF LockInv, StackInv
<1> QED
  BY <1>1, <1>2, <1>3, <1>4

LEMMA RaiseKeepsLock ==
  ASSUME LockInv, RtAcquireLock_raise
  PROVE  LockInv'
<1>1. /\ Step("idle", "acquire") /\ Lock' = [Lock EXCEPT !.OwnerTpl = tpl]
      /\ tpl' = LockTpl /\ UNCHANGED <<call, event, signalled>>
      /\ call.op = "none" \/ top.who # "application"
  BY DEF RtAcquireLock_raise, Locking, raised
<1>2. /\ top.pc = "idle" /\ StackInv' /\ Len(tasks') = Len(tasks)
      /\ top'.pc = "acquire" /\ top'.who = top.who
      /\ \A i \in 1 .. Len(tasks) - 1 : tasks'[i] = tasks[i]
      /\ \A i \in 1 .. Len(tasks) : tasks'[i].back = tasks[i].back
  BY <1>1, StepOnTop DEF LockInv, Stacked
<1>3. Len(tasks) \in Nat /\ Len(tasks) >= 1 /\ top = tasks[Len(tasks)]
      /\ top' = tasks'[Len(tasks')]
  BY TopType DEF LockInv, top
<1>4. Lock'.OwnerTpl = tpl /\ Lock'.Lock = 0 /\ Lock' \in [OwnerTpl : Nat, Lock : Nat]
  BY <1>1, <1>2 DEF LockInv, LevelInv
<1>5. CASE Len(tasks) = 1
  <2>1. ~Synchronized /\ tpl = APPLICATION
    BY <1>1, <1>2, <1>3, <1>5 DEF LockInv, BottomInv, Synchronized, StackInv
  <2>2. LevelInv'
    BY <1>1, <1>2, <1>4, <2>1, Levels DEF LockInv, LevelInv, EventInv
  <2>3. BottomInv'
    BY <1>1, <1>2, <1>3, <1>5, <2>1 DEF BottomInv, Synchronized
  <2> QED
    BY <1>2, <2>2, <2>3 DEF LockInv
<1>6. CASE Len(tasks) # 1
  <2>1. tasks'[1] = tasks[1] /\ tasks[1].pc \in {"idle", "end"}
    BY <1>2, <1>3, <1>6 DEF LockInv, StackInv
  <2>2. LevelInv'
    BY <1>1, <1>2, <1>4, <2>1, Levels DEF LockInv, LevelInv, EventInv, Stacked
  <2>3. BottomInv'
    BY <1>1, <1>2, <1>3, <1>6 DEF LockInv, BottomInv, Synchronized
  <2> QED
    BY <1>2, <2>2, <2>3 DEF LockInv
<1> QED
  BY <1>5, <1>6

\* The steps in the lock that leave its owner's level alone.
LEMMA CountKeepsLock ==
  ASSUME LockInv, NEW from \in Stacked, NEW to \in Stacked, Step(from, to),
         to = "used" => top.who # "application",
         UNCHANGED <<tpl, call>>, Lock' \in [OwnerTpl : Nat, Lock : Nat],
         Lock'.OwnerTpl = Lock.OwnerTpl,
         Lock'.Lock = IF to \in {"locked", "used"} THEN 1 ELSE 0,
         top.who = "application" => ~Synchronized,
         EventInv'
  PROVE  LockInv'
<1>1. /\ top.pc = from /\ StackInv' /\ Len(tasks') = Len(tasks)
      /\ top'.pc = to /\ top'.who = top.who
      /\ \A i \in 1 .. Len(tasks) - 1 : tasks'[i] = tasks[i]
      /\ \A i \in 1 .. Len(tasks) : tasks'[i].back = tasks[i].back
  <2>1. StackInv /\ to \in {"idle", "end"} \union Stacked /\ to # "end"
    BY DEF LockInv, Stacked
  <2> QED
    BY <2>1, StepOnTop
<1>2. Len(tasks) \in Nat /\ Len(tasks) >= 1 /\ top = tasks[Len(tasks)]
      /\ top' = tasks'[Len(tasks')]
  BY TopType DEF LockInv, top
<1>3. tpl >= LockTpl
  BY <1>1 DEF LockInv, LevelInv
<1>4. CASE Len(tasks) = 1
  <2>0. top.who = "application"
    BY <1>2, <1>4 DEF LockInv, StackInv
  <2>1. Lock.OwnerTpl = APPLICATION /\ ~Synchronized /\ tpl = LockTpl
    BY <1>1, <1>2, <1>4, <2>0 DEF LockInv, LevelInv, BottomInv, Stacked
  <2>2. LevelInv'
    BY <1>1, <1>3, <2>1 DEF LockInv, LevelInv
  <2>3. BottomInv'
    BY <1>1, <1>2, <1>4, <2>1 DEF BottomInv, Synchronized, Stacked
  <2> QED
    BY <1>1, <2>2, <2>3 DEF LockInv
<1>5. CASE Len(tasks) # 1
  <2>1. tasks'[1] = tasks[1] /\ tasks[1].pc \in {"idle", "end"}
    BY <1>1, <1>2, <1>5 DEF LockInv, StackInv
  <2>2. LevelInv'
    BY <1>1, <1>3, <2>1 DEF LockInv, LevelInv, Stacked
  <2>3. BottomInv'
    BY <1>1, <1>2, <1>5 DEF LockInv, BottomInv, Synchronized
  <2> QED
    BY <1>1, <2>2, <2>3 DEF LockInv
<1> QED
  BY <1>4, <1>5

LEMMA RestoreKeepsLock ==
  ASSUME LockInv, RtReleaseLock_restore
  PROVE  LockInv'
<1> DEFINE to == IF top.who = "application" THEN "idle" ELSE "end"
<1>1. /\ Step("release", to) /\ tpl' = Lock.OwnerTpl
      /\ UNCHANGED <<Lock, call, event, signalled>>
  BY DEF RtReleaseLock_restore, Locking
<1>2. /\ top.pc = "release" /\ StackInv' /\ Len(tasks') = Len(tasks)
      /\ top'.pc = to /\ top'.who = top.who
      /\ \A i \in 1 .. Len(tasks) - 1 : tasks'[i] = tasks[i]
      /\ \A i \in 1 .. Len(tasks) : tasks'[i].back = tasks[i].back
  <2>1. to \in {"idle", "end"} \union Stacked /\ (to = "end" => top.who # "application")
        /\ to # "used"
    OBVIOUS
  <2> HIDE DEF to
  <2> QED
    BY <1>1, <2>1, StepOnTop DEF LockInv
<1>3. Len(tasks) \in Nat /\ Len(tasks) >= 1 /\ top = tasks[Len(tasks)]
      /\ top' = tasks'[Len(tasks')] /\ top'.pc \notin Stacked
  BY <1>2, TopType DEF LockInv, top, Stacked
<1>4. Lock.Lock = 0 /\ tpl' \in Nat
  BY <1>1, <1>2 DEF LockInv, LevelInv
<1>5. CASE Len(tasks) = 1
  <2>0. top.who = "application"
    BY <1>3, <1>5 DEF LockInv, StackInv
  <2>1. Lock.OwnerTpl = APPLICATION /\ ~Synchronized /\ to = "idle"
    BY <1>2, <1>3, <1>5, <2>0 DEF LockInv, LevelInv, BottomInv, Stacked
  <2>2. LevelInv'
    BY <1>1, <1>2, <1>3, <1>4, <1>5, <2>1 DEF LockInv, LevelInv, EventInv
  <2>3. BottomInv'
    BY <1>1, <1>2, <1>3, <1>5, <2>1 DEF BottomInv, Synchronized
  <2> QED
    BY <1>2, <2>2, <2>3 DEF LockInv
<1>6. CASE Len(tasks) # 1
  <2>1. tasks'[1] = tasks[1] /\ tasks[1].pc \in {"idle", "end"}
    BY <1>2, <1>3, <1>6 DEF LockInv, StackInv
  <2>2. LevelInv'
    BY <1>1, <1>2, <1>3, <1>4, <2>1 DEF LockInv, LevelInv, EventInv, Stacked
  <2>3. BottomInv'
    BY <1>1, <1>2, <1>3, <1>6 DEF LockInv, BottomInv, Synchronized
  <2> QED
    BY <1>2, <2>2, <2>3 DEF LockInv
<1> QED
  BY <1>5, <1>6

\* A call of the application's begins: with the level raised if it is one that keeps
\* the others out.
LEMMA BeginKeepsLock ==
  ASSUME LockInv, Running, call.op = "none", UNCHANGED <<tasks, Lock>>,
         EventInv',
         IF Synchronized' THEN tpl' = NOTIFY /\ call'.OldTpl = tpl ELSE tpl' = tpl
  PROVE  LockInv'
<1>1. /\ Len(tasks) = 1 /\ top = tasks[1] /\ top' = top /\ ~Synchronized
      /\ top.pc \in {"idle", "locked"}
  BY RunsAlone DEF LockInv, Running, Synchronized, top
<1>2. tpl = IF tasks[1].pc = "idle" THEN APPLICATION ELSE LockTpl
  BY <1>1 DEF LockInv, BottomInv
<1>3. StackInv'
  BY DEF LockInv, StackInv
<1>4. tpl' \in Nat /\ (top'.pc \in Stacked => tpl' >= LockTpl)
  BY <1>1, <1>2, Levels DEF Stacked
<1>5. LevelInv'
  BY <1>1, <1>4 DEF LockInv, LevelInv
<1>6. BottomInv'
  BY <1>1, <1>2 DEF BottomInv
<1> QED
  BY <1>3, <1>5, <1>6 DEF LockInv

\* It goes on, at the same level.
LEMMA WithinKeepsLock ==
  ASSUME LockInv, Running, UNCHANGED <<tasks, Lock, tpl>>,
         EventInv',
         Synchronized' <=> Synchronized, Synchronized => call'.OldTpl = call.OldTpl
  PROVE  LockInv'
<1>1. /\ Len(tasks) = 1 /\ top = tasks[1] /\ top' = top
  BY RunsAlone DEF LockInv, Running, top
<1>2. StackInv'
  BY DEF LockInv, StackInv
<1>3. LevelInv'
  BY <1>1 DEF LockInv, LevelInv
<1>4. BottomInv'
  BY <1>1 DEF LockInv, BottomInv
<1> QED
  BY <1>2, <1>3, <1>4 DEF LockInv

\* And it returns, at the level of its caller.
LEMMA EndKeepsLock ==
  ASSUME LockInv, Running, Synchronized, UNCHANGED <<tasks, Lock, event, signalled>>,
         call' = NoCall, tpl' = call.OldTpl
  PROVE  LockInv'
<1>1. /\ Len(tasks) = 1 /\ top = tasks[1] /\ top' = top /\ top.pc \in {"idle", "locked"}
  BY RunsAlone DEF LockInv, Running, top
<1>2. ~Synchronized'
  BY DEF NoCall, Synchronized
<1>3. tpl' = IF tasks[1].pc = "idle" THEN APPLICATION ELSE LockTpl
  BY DEF LockInv, BottomInv
<1>4. StackInv'
  BY <1>2 DEF LockInv, StackInv
<1>5. LevelInv'
  BY <1>1, <1>3, Levels DEF LockInv, LevelInv, EventInv, Stacked
<1>6. BottomInv'
  BY <1>1, <1>2, <1>3 DEF BottomInv
<1> QED
  BY <1>4, <1>5, <1>6 DEF LockInv

LEMMA LockNext ==
  ASSUME DataInv, LockInv, [TasksNext]_task_vars
  PROVE  LockInv'
<1>1. CASE dispatch \/ notify_return
  BY <1>1, DispatchKeepsLock, ReturnKeepsLock
<1>2. CASE notify_look
  <2>1. /\ Step("locked", "used") /\ top.who = "protocol"
        /\ UNCHANGED <<tpl, Lock, call, event, signalled>>
    BY <1>2 DEF notify_look
  <2>2. EventInv' /\ top.pc = "locked" /\ Lock.Lock = 1 /\ Lock \in [OwnerTpl : Nat, Lock : Nat]
    BY <2>1 DEF Step, LockInv, LevelInv, EventInv
  <2> QED
    BY <2>1, <2>2, CountKeepsLock DEF Stacked
<1>3. CASE driver
  <2>1. /\ Step("locked", "used") /\ top.who = "timer"
        /\ UNCHANGED <<tpl, Lock, call, event>>
    BY <1>3 DEF driver
  <2>2. signalled' \in {signalled, signalled \union {"protocol"}}
        /\ (signalled' = signalled \/ event.is \in {"registered", "kicked"})
    BY <1>3 DEF driver, Installed, InstallRefused
  <2>3. EventInv' /\ top.pc = "locked" /\ Lock.Lock = 1 /\ Lock \in [OwnerTpl : Nat, Lock : Nat]
    BY <2>1, <2>2 DEF Step, LockInv, LevelInv, EventInv
  <2> QED
    BY <2>1, <2>3, CountKeepsLock DEF Stacked
<1>4. CASE RtAcquireLock_raise \/ RtReleaseLock_restore
  BY <1>4, RaiseKeepsLock, RestoreKeepsLock
<1>5. CASE RtAcquireLock_count
  <2>1. /\ Step("acquire", "locked") /\ Lock' = [Lock EXCEPT !.Lock = @ + 1]
        /\ UNCHANGED <<tpl, call, event, signalled>>
    BY <1>5 DEF RtAcquireLock_count, Locking
  <2>2. top.pc = "acquire" /\ Lock.Lock = 0 /\ Lock \in [OwnerTpl : Nat, Lock : Nat]
        /\ EventInv'
    BY <2>1 DEF Step, LockInv, LevelInv, EventInv
  <2>3. top.who = "application" => ~Synchronized
    BY <2>2, RunsAlone DEF LockInv, BottomInv
  <2> QED
    BY <2>1, <2>2, <2>3, CountKeepsLock DEF Stacked
<1>6. CASE RtReleaseLock_count
  <2>1. PICK from \in {"locked", "used"} :
          /\ Step(from, "release") /\ Lock' = [Lock EXCEPT !.Lock = @ - 1]
          /\ UNCHANGED <<tpl, call, event, signalled>>
          /\ from = "locked" => ~Synchronized
    BY <1>6 DEF RtReleaseLock_count, Locking, Synchronized
  <2>2. top.pc = from /\ Lock.Lock = 1 /\ Lock \in [OwnerTpl : Nat, Lock : Nat] /\ EventInv'
    BY <2>1 DEF Step, LockInv, LevelInv, EventInv
  <2>3. top.who = "application" => from = "locked"
    BY <2>2, RunsAlone DEF LockInv
  <2> QED
    BY <2>1, <2>2, <2>3, CountKeepsLock DEF Stacked
<1>7. CASE timer_tick
  <2>1. EventInv'
    BY <1>7 DEF timer_tick, LockInv, LevelInv, EventInv
  <2> QED
    BY <1>7, <2>1, QuietKeepsLock DEF timer_tick
<1>8. CASE LibInstallProtocolInterfaces
  <2>1. /\ Running /\ call.op = "none" /\ UNCHANGED <<tasks, Lock, signalled, event>>
        /\ tpl' = NOTIFY /\ call'.op = "install" /\ call'.OldTpl = tpl
    BY <1>8 DEF LibInstallProtocolInterfaces, Begin, synchronized
  <2>2. EventInv' /\ Synchronized'
    BY <2>1 DEF LockInv, LevelInv, EventInv, Synchronized
  <2> QED
    BY <2>1, <2>2, BeginKeepsLock
<1>9. CASE LibReinstallProtocolInterfaces
  <2>1. /\ Running /\ call.op = "none" /\ UNCHANGED <<tasks, Lock, signalled, event>>
        /\ tpl' = NOTIFY /\ call'.op = "reinstall" /\ call'.OldTpl = tpl
    BY <1>9 DEF LibReinstallProtocolInterfaces, Begin
  <2>2. EventInv' /\ Synchronized'
    BY <2>1 DEF LockInv, LevelInv, EventInv, Synchronized
  <2> QED
    BY <2>1, <2>2, BeginKeepsLock
<1>10. CASE LibUninstallProtocolInterfaces
  <2>1. /\ Running /\ call.op = "none" /\ UNCHANGED <<tasks, Lock, signalled, event, tpl>>
        /\ call'.op = "uninstall"
    BY <1>10 DEF LibUninstallProtocolInterfaces, Begin
  <2>2. EventInv' /\ ~Synchronized'
    BY <2>1 DEF LockInv, LevelInv, EventInv, Synchronized
  <2> QED
    BY <2>1, <2>2, BeginKeepsLock
<1>11. CASE LibCreateProtocolNotifyEvent
  <2>1. PICK p \in Protocols, level \in NotifyLevels :
          event' = [protocol |-> p, level |-> level, is |-> "created"]
    BY <1>11 DEF LibCreateProtocolNotifyEvent
  <2>2. /\ Running /\ call.op = "none" /\ UNCHANGED <<tasks, Lock, signalled, tpl>>
        /\ call'.op = "create"
    BY <1>11 DEF LibCreateProtocolNotifyEvent, Begin
  <2>3. EventInv'
    BY <2>1, <2>2, Levels DEF LockInv, LevelInv, EventInv
  <2>4. ~Synchronized'
    BY <2>2 DEF Synchronized
  <2> QED
    BY <2>2, <2>3, <2>4, BeginKeepsLock
<1>12. CASE install_one
  <2>1. /\ Running /\ call.op = "install" /\ UNCHANGED <<tasks, Lock, tpl, event>>
        /\ call' \in {[call EXCEPT !.n = @ + 1], [call EXCEPT !.op = "undo"]}
    BY <1>12 DEF install_one, Within
  <2>2. call \in [op : {"install", "undo"}, list : Lists, id : Nat, n : Nat, OldTpl : Nat,
                  OldHandle : Handles \union {NoHandle}, k : Nat]
    BY <2>1 DEF DataInv, CallType, NoCall
  <2>3. call'.op \in {"install", "undo"} /\ call'.OldTpl = call.OldTpl
    BY <2>1, <2>2
  <2>4. signalled' \in {signalled, signalled \union {"protocol"}}
        /\ (signalled' = signalled \/ event.is \in {"registered", "kicked"})
    BY <1>12 DEF install_one, Installed, InstallRefused
  <2>5. EventInv'
    BY <2>1, <2>4 DEF LockInv, LevelInv, EventInv
  <2>6. Synchronized /\ Synchronized'
    BY <2>1, <2>3 DEF Synchronized
  <2> QED
    BY <2>1, <2>3, <2>5, <2>6, WithinKeepsLock
<1>13. CASE undo_one
  <2>1. /\ Running /\ call.op = "undo" /\ UNCHANGED <<tasks, Lock, tpl, event, signalled>>
        /\ call' = [call EXCEPT !.n = @ - 1, !.k = @ + 1]
    BY <1>13 DEF undo_one, Within
  <2>2. call \in [op : {"install", "undo"}, list : Lists, id : Nat, n : Nat, OldTpl : Nat,
                  OldHandle : Handles \union {NoHandle}, k : Nat]
    BY <2>1 DEF DataInv, CallType, NoCall
  <2>3. call'.op = "undo" /\ call'.OldTpl = call.OldTpl
    BY <2>1, <2>2
  <2>4. EventInv' /\ Synchronized /\ Synchronized'
    BY <2>1, <2>3 DEF LockInv, LevelInv, EventInv, Synchronized
  <2> QED
    BY <2>1, <2>3, <2>4, WithinKeepsLock
<1>14. CASE install_return \/ reinstall_refused
  <2>1. /\ Running /\ call.op \in {"install", "undo", "reinstall"}
        /\ UNCHANGED <<tasks, Lock, event, signalled>>
        /\ call' = NoCall /\ tpl' = call.OldTpl
    BY <1>14 DEF install_return, reinstall_refused, Within
  <2> QED
    BY <2>1, EndKeepsLock DEF Synchronized
<1>15. CASE uninstall_one
  <2>1. /\ Running /\ call.op = "uninstall"
        /\ UNCHANGED <<tasks, Lock, tpl, event, signalled>>
        /\ call' \in {[call EXCEPT !.n = @ + 1], NoCall}
    BY <1>15 DEF uninstall_one, Within
  <2>2. call \in [op : {"uninstall"}, Handle : Handles, interface : Nat \X Lists, n : Nat]
    BY <2>1 DEF DataInv, CallType, NoCall
  <2>3. call'.op \in {"uninstall", "none"}
    BY <2>1, <2>2 DEF NoCall
  <2>4. EventInv' /\ ~Synchronized /\ ~Synchronized'
    BY <2>1, <2>3 DEF LockInv, LevelInv, EventInv, Synchronized
  <2> QED
    BY <2>1, <2>4, WithinKeepsLock
<1>16. CASE register \/ signal
  <2>1. /\ Running /\ call.op = "create" /\ UNCHANGED <<tasks, Lock, tpl>>
        /\ call' \in {call, NoCall}
    BY <1>16 DEF register, signal, Within
  <2>2. ~Synchronized /\ ~Synchronized'
    BY <2>1 DEF Synchronized, NoCall
  <2>3. /\ event.is # "none"
        /\ event' \in {event, [event EXCEPT !.is = "registered"], [event EXCEPT !.is = "kicked"]}
        /\ signalled' \in {signalled, signalled \union {"protocol"}}
    BY <1>16 DEF register, signal, Within, kick
  <2>4. EventInv'
    BY <2>3 DEF LockInv, LevelInv, EventInv
  <2> QED
    BY <2>1, <2>2, <2>4, WithinKeepsLock
<1>17. CASE UNCHANGED task_vars
  <2>1. EventInv'
    BY <1>17 DEF task_vars, LockInv, LevelInv, EventInv
  <2> QED
    BY <1>17, <2>1, QuietKeepsLock DEF task_vars
<1> QED
  BY <1>1, <1>2, <1>3, <1>4, <1>5, <1>6, <1>7, <1>8, <1>9, <1>10, <1>11, <1>12, <1>13,
     <1>14, <1>15, <1>16, <1>17 DEF TasksNext, Tasks

THEOREM LockInvariant == TasksSpec => [](DataInv /\ LockInv)
<1>1. DataInv /\ LockInv /\ [TasksNext]_task_vars => (DataInv /\ LockInv)'
  BY DataNext, LockNext DEF LockInv, LevelInv
<1> QED
  BY <1>1, DataInit, LockInit, PTL DEF TasksSpec

\* At most one task is between RtAcquireLock and RtReleaseLock, the lock's count says
\* whether one is, and the application, alone and outside every call that raises the
\* level, runs at its own: for any handles, lists, levels up to the lock's, and
\* however many tasks pile up.
THEOREM LocksAreExclusive == TasksSpec => []LocksExclude
<1>1. LockInv => LocksExclude
  <2> SUFFICES ASSUME LockInv PROVE LocksExclude
    OBVIOUS
  <2> DEFINE holders == {t \in DOMAIN tasks : tasks[t].pc \in {"locked", "used"}}
             l == Len(tasks)
  <2>1. l \in Nat /\ l \in 1 .. l /\ DOMAIN tasks = 1 .. l /\ top = tasks[l]
    BY TopType DEF LockInv
  <2>2. \A t \in 1 .. l : t # l => tasks[t].pc \in {"idle", "end"}
    <3>1. \A t \in 1 .. l : t # l => t \in 1 .. l - 1
      <4> HIDE DEF l
      <4> QED
        BY <2>1
    <3> QED
      BY <3>1 DEF LockInv, StackInv
  <2>3. holders = IF top.pc \in {"locked", "used"} THEN {l} ELSE {}
    <3>1. \A t \in DOMAIN tasks : tasks[t].pc \in {"locked", "used"} => t = l
      BY <2>1, <2>2
    <3>2. l \in DOMAIN tasks /\ tasks[l] = top
      BY <2>1
    <3> HIDE DEF l
    <3> QED
      BY <3>1, <3>2
  <2>4. Cardinality(holders) = Lock.Lock /\ Cardinality(holders) <= 1
    <3> HIDE DEF holders, l
    <3>1. Lock.Lock = IF top.pc \in {"locked", "used"} THEN 1 ELSE 0
      BY DEF LockInv, LevelInv
    <3>2. Cardinality({l}) = 1 /\ Cardinality({}) = 0
      BY FS_Singleton, FS_EmptySet, Zenon
    <3>3. Cardinality(holders) = IF top.pc \in {"locked", "used"} THEN 1 ELSE 0
      BY <2>3, <3>2, Zenon
    <3> QED
      BY <3>1, <3>3
  <2>5. ASSUME tasks = <<application>>, call.op \in {"none", "uninstall", "create"}
        PROVE  tpl = APPLICATION
    <3>1. Len(tasks) = 1 /\ tasks[1].pc = "idle"
      BY <2>5 DEF application
    <3> QED
      BY <2>5, <3>1 DEF LockInv, BottomInv, Synchronized
  <2> QED
    BY <2>4, <2>5 DEF LocksExclude
<1> QED
  BY <1>1, LockInvariant, PTL

-------------------------------------------------------------------------------
(***************************************************************************)
(* Installing all or nothing.  An interface is installed on one handle,    *)
(* with all its protocols, unless the call that installs, undoes or        *)
(* removes it is on its way; then it is installed with those the call has  *)
(* come to, or has not come to yet.                                        *)
(***************************************************************************)
Entries(D, I) == {d \in D : d[3] = I}
Whole(D, I) ==
  \E h \in Handles : Entries(D, I) = {<<h, I[2][n], I>> : n \in DOMAIN I[2]}

UnderWay(I) ==
  \/ call.op \in {"install", "undo"} /\ I = Interface
  \/ call.op = "uninstall" /\ I = call.interface

WholeInv ==
  /\ \A d \in db : d[3] = Driver \/ Whole(db, d[3]) \/ UnderWay(d[3])
  /\ call.op = "install" =>
       /\ call.n <= Len(call.list) /\ (call.n > 0 => Handle \in Handles) /\ call.k = 1
       /\ Entries(db, Interface) =
            {<<Handle, call.list[j], Interface>> : j \in 1 .. call.n}
  /\ call.op = "undo" =>
       Entries(db, Interface) \subseteq
         {<<Handle, call.list[j], Interface>> : j \in call.k .. call.k + call.n - 1}
  /\ call.op = "uninstall" =>
       /\ call.interface # Driver /\ call.n <= Len(call.interface[2])
       /\ Entries(db, call.interface) \subseteq
            {<<call.Handle, call.interface[2][j], call.interface>> :
               j \in call.n + 1 .. Len(call.interface[2])}

LEMMA WholeInit == TasksInit => WholeInv
BY DEF TasksInit, WholeInv, NoCall

\* What is put into the database or taken out of it for one interface is nothing to
\* another one.
LEMMA OthersUntouched ==
  ASSUME NEW D, NEW E, NEW x, NEW I, NEW J, I # J, x[3] = J,
         E = D \union {x} \/ E = D \ {x}
  PROVE  Entries(E, I) = Entries(D, I) /\ (Whole(D, I) => Whole(E, I))
BY DEF Entries, Whole

\* The record of an installation.
LEMMA InstallRecord ==
  ASSUME DataInv, call.op \in {"install", "undo"}
  PROVE  /\ call \in [op : {"install", "undo"}, list : Lists, id : Nat, n : Nat, OldTpl : Nat,
                      OldHandle : Handles \union {NoHandle}, k : Nat]
         /\ call.list \in Seq(Protocols) /\ Len(call.list) \in Nat
         /\ DOMAIN call.list = 1 .. Len(call.list)
         /\ Interface = <<call.id, call.list>> /\ Interface # Driver
<1>1. call \in [op : {"install", "undo"}, list : Lists, id : Nat, n : Nat, OldTpl : Nat,
                OldHandle : Handles \union {NoHandle}, k : Nat]
  BY DEF DataInv, CallType, NoCall
<1>2. call.list \in Seq(Protocols)
  BY <1>1, TasksAssumption
<1>3. call.id # 0
  BY DEF DataInv, DbInv
<1> QED
  BY <1>1, <1>2, <1>3 DEF Interface, Driver

LEMMA UninstallRecord ==
  ASSUME DataInv, call.op = "uninstall"
  PROVE  /\ call \in [op : {"uninstall"}, Handle : Handles, interface : Nat \X Lists, n : Nat]
         /\ call.interface[2] \in Seq(Protocols) /\ Len(call.interface[2]) \in Nat
         /\ DOMAIN call.interface[2] = 1 .. Len(call.interface[2])
<1>1. call \in [op : {"uninstall"}, Handle : Handles, interface : Nat \X Lists, n : Nat]
  BY DEF DataInv, CallType, NoCall
<1> QED
  BY <1>1, TasksAssumption

\* Where no call is on its way any more, whatever is there is whole.
LEMMA SettledIsWhole ==
  ASSUME call'.op \notin {"install", "undo", "uninstall"}, NEW D, db' = D,
         \A d \in D : d[3] = Driver \/ Whole(D, d[3])
  PROVE  WholeInv'
BY DEF WholeInv

LEMMA WholeDriver ==
  ASSUME DataInv, WholeInv, driver
  PROVE  WholeInv'
<1>1. call' = call /\ Interface' = Interface
  BY DEF driver, Interface
<1>2. /\ Handle' = Handle
      /\ \/ db' = db
         \/ \E h, p : db' = db \union {<<h, p, Driver>>} \/ db' = db \ {<<h, p, Driver>>}
  BY DEF driver, Installed, InstallRefused, Uninstalled
<1>3. ASSUME NEW I, I # Driver
      PROVE  Entries(db', I) = Entries(db, I) /\ (Whole(db, I) => Whole(db', I))
  <2>1. CASE db' = db
    BY <2>1
  <2>2. ASSUME NEW h, NEW p,
               db' = db \union {<<h, p, Driver>>} \/ db' = db \ {<<h, p, Driver>>}
        PROVE  Entries(db', I) = Entries(db, I) /\ (Whole(db, I) => Whole(db', I))
    <3>1. <<h, p, Driver>>[3] = Driver
      OBVIOUS
    <3> QED
      BY <1>3, <2>2, <3>1, OthersUntouched, Zenon
  <2> QED
    BY <1>2, <2>1, <2>2
<1>4. ASSUME NEW d \in db' PROVE d[3] = Driver \/ Whole(db', d[3]) \/ UnderWay(d[3])'
  <2>1. SUFFICES ASSUME d[3] # Driver PROVE Whole(db', d[3]) \/ UnderWay(d[3])'
    OBVIOUS
  <2>2. d \in Entries(db', d[3])
    BY DEF Entries
  <2>3. d \in db
    BY <1>3, <2>1, <2>2 DEF Entries
  <2>4. Whole(db, d[3]) \/ UnderWay(d[3])
    BY <2>1, <2>3 DEF WholeInv
  <2> QED
    BY <1>1, <1>3, <2>1, <2>4 DEF UnderWay
<1>5. call.op \in {"install", "undo"} => Entries(db', Interface) = Entries(db, Interface)
  BY <1>3, InstallRecord
<1>6. call.op = "uninstall" => Entries(db', call.interface) = Entries(db, call.interface)
  BY <1>3 DEF WholeInv
<1>7. call.op = "install" =>
        /\ call.n <= Len(call.list) /\ (call.n > 0 => Handle \in Handles) /\ call.k = 1
        /\ Entries(db', Interface) =
             {<<Handle, call.list[j], Interface>> : j \in 1 .. call.n}
  BY <1>5 DEF WholeInv
<1>8. call.op = "undo" =>
        Entries(db', Interface) \subseteq
          {<<Handle, call.list[j], Interface>> : j \in call.k .. call.k + call.n - 1}
  BY <1>5 DEF WholeInv
<1>9. call.op = "uninstall" =>
        /\ call.interface # Driver /\ call.n <= Len(call.interface[2])
        /\ Entries(db', call.interface) \subseteq
             {<<call.Handle, call.interface[2][j], call.interface>> :
                j \in call.n + 1 .. Len(call.interface[2])}
  BY <1>6 DEF WholeInv
<1>10. Handle' = Handle
  BY <1>2
<1> QED
  BY <1>1, <1>4, <1>7, <1>8, <1>9, <1>10, Zenon DEF WholeInv

LEMMA WholeInstall ==
  ASSUME DataInv, WholeInv, LibInstallProtocolInterfaces
  PROVE  WholeInv'
<1>1. PICK list \in Lists, h \in {NoHandle, Handle} :
        /\ db' = db /\ call.op = "none"
        /\ call' = [op |-> "install", list |-> list, id |-> calls + 1, n |-> 0,
                    OldTpl |-> tpl, OldHandle |-> h, k |-> 1]
  BY DEF LibInstallProtocolInterfaces, Begin
<1>2. /\ call'.op = "install" /\ call'.n = 0 /\ call'.k = 1 /\ call'.list = list
      /\ Interface' = <<calls + 1, list>>
  BY <1>1 DEF Interface
<1>3. Entries(db', Interface') = {}
  <2> SUFFICES ASSUME NEW d \in db, d[3] = <<calls + 1, list>> PROVE FALSE
    BY <1>1, <1>2 DEF Entries
  <2>1. calls \in Nat /\ d[3][1] = calls + 1
    BY DEF DataInv, DbInv
  <2> QED
    BY <2>1 DEF DataInv, DbInv, Driver
<1>4. list \in Seq(Protocols) /\ Len(list) >= 0
  BY TasksAssumption
<1>5. \A d \in db' : d[3] = Driver \/ Whole(db', d[3])
  BY <1>1, Zenon DEF WholeInv, UnderWay
<1>6. {<<Handle', call'.list[j], Interface'>> : j \in 1 .. call'.n} = {}
  BY <1>2
<1>7. call'.n <= Len(call'.list) /\ ~(call'.n > 0)
  BY <1>2, <1>4
<1>8. Entries(db', Interface') = {<<Handle', call'.list[j], Interface'>> : j \in 1 .. call'.n}
  BY <1>3, <1>6
<1>9. call'.op # "undo" /\ call'.op # "uninstall"
  BY <1>2
<1>10. call'.op = "install" /\ call'.k = 1
  BY <1>2
<1>11. \A d \in db' : d[3] = Driver \/ Whole(db', d[3]) \/ UnderWay(d[3])'
  BY <1>5
<1>12. call'.op = "install" =>
        /\ call'.n <= Len(call'.list) /\ (call'.n > 0 => Handle' \in Handles) /\ call'.k = 1
        /\ Entries(db', Interface') =
             {<<Handle', call'.list[j], Interface'>> : j \in 1 .. call'.n}
  BY <1>7, <1>8, <1>10
<1> QED
  BY <1>9, <1>11, <1>12 DEF WholeInv

LEMMA WholeInstallOne ==
  ASSUME DataInv, WholeInv, install_one
  PROVE  WholeInv'
<1> DEFINE I == Interface
           p == call.list[call.n + 1]
<1>1. call.op = "install" /\ call.n < Len(call.list)
  BY DEF install_one, Within
<1>2. /\ call \in [op : {"install", "undo"}, list : Lists, id : Nat, n : Nat, OldTpl : Nat,
                   OldHandle : Handles \union {NoHandle}, k : Nat]
      /\ call.list \in Seq(Protocols) /\ Len(call.list) \in Nat
      /\ I = <<call.id, call.list>> /\ I # Driver
  BY <1>1, InstallRecord
<1>3. /\ call.n <= Len(call.list) /\ (call.n > 0 => Handle \in Handles) /\ call.k = 1
      /\ Entries(db, I) = {<<Handle, call.list[j], I>> : j \in 1 .. call.n}
  BY <1>1 DEF WholeInv
<1>4. CASE Installed(Handle, p, I) /\ call' = [call EXCEPT !.n = @ + 1]
  <2>1. /\ call'.op = "install" /\ call'.n = call.n + 1 /\ call'.k = 1
        /\ call'.list = call.list /\ call'.id = call.id
    BY <1>1, <1>2, <1>3, <1>4
  <2>2. Interface' = I
    BY <1>2, <2>1 DEF Interface
  <2>3. PICK new \in Handles : /\ db' = db \union {<<new, p, I>>}
                               /\ Handle # NoHandle => new = Handle
                               /\ Handle' = IF I = Driver THEN Handle ELSE new
    <3>1. DbInv /\ Handle \in Handles \union {NoHandle}
      BY DEF DataInv, DbInv
    <3> HIDE DEF I, p
    <3> QED
      BY <1>4, <3>1, InstalledAdds
  <2> HIDE DEF I
  <2>4. Handle' = new /\ (call.n > 0 => Handle = new)
    BY <1>2, <1>3, <2>3, TasksAssumption
  <2>5. Entries(db', I) = Entries(db, I) \union {<<new, p, I>>}
    BY <2>3 DEF Entries
  <2>6. Entries(db', I) = {<<Handle', call.list[j], I>> : j \in 1 .. call.n + 1}
    <3>1. Entries(db, I) = {<<new, call.list[j], I>> : j \in 1 .. call.n}
      <4>1. CASE call.n > 0
        BY <1>3, <2>4, <4>1
      <4>2. CASE call.n = 0
        <5>1. Entries(db, I) = {}
          BY <1>3, <4>2
        <5> QED
          BY <4>2, <5>1
      <4> QED
        BY <1>2, <4>1, <4>2
    <3>2. 1 .. call.n + 1 = (1 .. call.n) \union {call.n + 1}
      BY <1>2
    <3> QED
      BY <2>4, <2>5, <3>1, <3>2
  <2>7. ASSUME NEW d \in db' PROVE d[3] = Driver \/ Whole(db', d[3]) \/ UnderWay(d[3])'
    <3>1. CASE d[3] = I
      BY <2>1, <2>2, <3>1 DEF UnderWay
    <3>2. CASE d[3] # I
      <4>1. <<new, p, I>>[3] = I
        OBVIOUS
      <4>2. d \in db
        BY <2>3, <3>2, <4>1
      <4>3. d[3] = Driver \/ Whole(db, d[3])
        BY <1>1, <3>2, <4>2 DEF WholeInv, UnderWay, I
      <4> DEFINE x == <<new, p, I>>
                 J == d[3]
      <4>a. J # I /\ x[3] = I /\ db' = db \union {x}
        BY <2>3, <3>2, <4>1
      <4> HIDE DEF x, J
      <4>b. Whole(db, J) => Whole(db', J)
        BY <4>a, OthersUntouched
      <4>4. Whole(db, d[3]) => Whole(db', d[3])
        BY <4>b DEF J
      <4> QED
        BY <4>3, <4>4
    <3> QED
      BY <3>1, <3>2
  <2>8. call'.n <= Len(call'.list) /\ Handle' \in Handles
    BY <1>1, <1>2, <2>1, <2>4
  <2> QED
    BY <2>1, <2>2, <2>6, <2>7, <2>8 DEF WholeInv
<1>5. CASE InstallRefused(Handle, p) /\ call' = [call EXCEPT !.op = "undo"]
  <2>1. /\ call'.op = "undo" /\ call'.n = call.n /\ call'.k = 1
        /\ call'.list = call.list /\ call'.id = call.id /\ db' = db /\ Handle' = Handle
    BY <1>1, <1>2, <1>3, <1>5 DEF InstallRefused
  <2>2. Interface' = I
    BY <1>2, <2>1 DEF Interface
  <2>3. \A J : UnderWay(J) => UnderWay(J)'
    BY <1>1, <2>1, <2>2 DEF UnderWay
  <2> HIDE DEF I
  <2>4. 1 .. call.n = call'.k .. call'.k + call'.n - 1
    BY <1>2, <2>1
  <2>5. Entries(db', Interface') \subseteq
          {<<Handle', call'.list[j], Interface'>> : j \in call'.k .. call'.k + call'.n - 1}
    BY <1>3, <2>1, <2>2, <2>4
  <2>6. \A d \in db' : d[3] = Driver \/ Whole(db', d[3]) \/ UnderWay(d[3])'
    BY <2>1, <2>3, Zenon DEF WholeInv
  <2> QED
    BY <2>1, <2>5, <2>6 DEF WholeInv
<1> QED
  BY <1>4, <1>5 DEF install_one

LEMMA WholeUndo ==
  ASSUME DataInv, WholeInv, undo_one
  PROVE  WholeInv'
<1> DEFINE I == Interface
           p == call.list[call.k]
           x == <<Handle, p, I>>
<1>1. /\ call.op = "undo" /\ call.n > 0 /\ db' = db \ {x}
      /\ call' = [call EXCEPT !.n = @ - 1, !.k = @ + 1] /\ Handle' = Handle
  BY DEF undo_one, Within, Uninstalled
<1>2. /\ call \in [op : {"install", "undo"}, list : Lists, id : Nat, n : Nat, OldTpl : Nat,
                   OldHandle : Handles \union {NoHandle}, k : Nat]
      /\ I = <<call.id, call.list>> /\ I # Driver
  BY <1>1, InstallRecord
<1>3. /\ call'.op = "undo" /\ call'.n = call.n - 1 /\ call'.k = call.k + 1
      /\ call'.list = call.list /\ call'.id = call.id
  BY <1>1, <1>2
<1>4. Interface' = I
  BY <1>2, <1>3 DEF Interface
<1>5. Entries(db, I) \subseteq {<<Handle, call.list[j], I>> : j \in call.k .. call.k + call.n - 1}
  BY <1>1 DEF WholeInv
<1>6. x[3] = I
  OBVIOUS
<1> HIDE DEF I
<1>7. Entries(db', Interface') \subseteq
        {<<Handle', call'.list[j], Interface'>> : j \in call'.k .. call'.k + call'.n - 1}
  <2>1. ASSUME NEW d \in Entries(db', I)
        PROVE  d \in {<<Handle, call.list[j], I>> : j \in call.k + 1 .. call.k + call.n - 1}
    <3>1. d \in Entries(db, I) /\ d # x
      BY <1>1 DEF Entries
    <3>2. PICK j \in call.k .. call.k + call.n - 1 : d = <<Handle, call.list[j], I>>
      BY <1>5, <3>1
    <3>3. j # call.k
      BY <3>1, <3>2
    <3>4. j \in call.k + 1 .. call.k + call.n - 1
      BY <1>2, <3>2, <3>3
    <3> QED
      BY <3>2, <3>4
  <2>2. call'.k .. call'.k + call'.n - 1 = call.k + 1 .. call.k + call.n - 1
    BY <1>2, <1>3
  <2>3. Handle' = Handle /\ call'.list = call.list
    BY <1>1, <1>3
  <2> QED
    BY <1>4, <2>1, <2>2, <2>3
<1>8. ASSUME NEW d \in db' PROVE d[3] = Driver \/ Whole(db', d[3]) \/ UnderWay(d[3])'
  <2> DEFINE J == d[3]
  <2>1. CASE J = I
    BY <1>3, <1>4, <2>1 DEF UnderWay
  <2>2. CASE J # I
    <3>1. d \in db
      BY <1>1
    <3>2. J = Driver \/ Whole(db, J)
      BY <1>1, <2>2, <3>1 DEF WholeInv, UnderWay, I
    <3> HIDE DEF x, J
    <3>3. Whole(db, J) => Whole(db', J)
      BY <1>1, <1>6, <2>2, OthersUntouched
    <3> QED
      BY <3>2, <3>3 DEF J
  <2> QED
    BY <2>1, <2>2
<1> QED
  BY <1>3, <1>7, <1>8 DEF WholeInv

\* A call that has installed or undone all of its list leaves nothing half done.
LEMMA WholeReturn ==
  ASSUME DataInv, WholeInv, install_return
  PROVE  WholeInv'
<1> DEFINE I == Interface
<1>1. /\ db' = db /\ call' = NoCall
      /\ \/ call.op = "install" /\ call.n = Len(call.list)
         \/ call.op = "undo" /\ call.n = 0
  BY DEF install_return, Within
<1>2. /\ call \in [op : {"install", "undo"}, list : Lists, id : Nat, n : Nat, OldTpl : Nat,
                   OldHandle : Handles \union {NoHandle}, k : Nat]
      /\ Len(call.list) \in Nat /\ DOMAIN call.list = 1 .. Len(call.list)
      /\ I = <<call.id, call.list>>
  BY <1>1, InstallRecord
<1>3. I[2] = call.list
  BY <1>2
<1> HIDE DEF I
<1>4. ASSUME NEW d \in db, d[3] = I PROVE Whole(db, I)
  <2>1. d \in Entries(db, I)
    BY <1>4 DEF Entries
  <2>2. CASE call.op = "install" /\ call.n = Len(call.list)
    <3>1. /\ call.n > 0 => Handle \in Handles
          /\ Entries(db, I) = {<<Handle, call.list[j], I>> : j \in 1 .. call.n}
      BY <2>2 DEF WholeInv, I
    <3>2. call.n > 0
      BY <1>2, <2>1, <3>1
    <3>3. Entries(db, I) = {<<Handle, I[2][j], I>> : j \in DOMAIN I[2]}
      BY <1>2, <1>3, <2>2, <3>1
    <3> QED
      BY <3>1, <3>2, <3>3 DEF Whole
  <2>3. CASE call.op = "undo" /\ call.n = 0
    <3>1. Entries(db, I) \subseteq
            {<<Handle, call.list[j], I>> : j \in call.k .. call.k + call.n - 1}
      BY <2>3 DEF WholeInv, I
    <3>2. call.k .. call.k + call.n - 1 = {}
      BY <1>2, <2>3
    <3> QED
      BY <2>1, <3>1, <3>2
  <2> QED
    BY <1>1, <2>2, <2>3
<1>5. ASSUME NEW d \in db PROVE d[3] = Driver \/ Whole(db, d[3])
  BY <1>1, <1>4 DEF WholeInv, UnderWay, I
<1>6. call'.op \notin {"install", "undo", "uninstall"}
  BY <1>1 DEF NoCall
<1> QED
  BY <1>1, <1>5, <1>6, SettledIsWhole

LEMMA WholeUninstall ==
  ASSUME DataInv, WholeInv, LibUninstallProtocolInterfaces
  PROVE  WholeInv'
<1>1. PICK d \in db :
        /\ d[3] # Driver /\ call.op = "none" /\ db' = db
        /\ call' = [op |-> "uninstall", Handle |-> d[1], interface |-> d[3], n |-> 0]
  BY DEF LibUninstallProtocolInterfaces, Begin
<1> DEFINE I == d[3]
<1>2. /\ call'.op = "uninstall" /\ call'.Handle = d[1] /\ call'.interface = I /\ call'.n = 0
  BY <1>1
<1>3. /\ I \in Nat \X Lists /\ I[2] \in Seq(Protocols) /\ Len(I[2]) \in Nat
      /\ DOMAIN I[2] = 1 .. Len(I[2]) /\ d \in Entries(db, I)
  <2>1. I \in Nat \X Lists
    BY <1>1 DEF DataInv, DbInv
  <2>2. I[2] \in Seq(Protocols)
    BY <2>1, TasksAssumption
  <2> QED
    BY <2>1, <2>2 DEF Entries
<1>4. PICK h \in Handles : Entries(db, I) = {<<h, I[2][n], I>> : n \in DOMAIN I[2]}
  BY <1>1 DEF WholeInv, UnderWay, Whole
<1>5. d[1] = h
  BY <1>3, <1>4
<1>6. \A e \in db' : e[3] = Driver \/ Whole(db', e[3])
  BY <1>1, Zenon DEF WholeInv, UnderWay
<1> HIDE DEF I
<1>7. Entries(db', I) \subseteq
        {<<call'.Handle, I[2][j], I>> : j \in call'.n + 1 .. Len(I[2])}
  <2>1. call'.n + 1 .. Len(I[2]) = DOMAIN I[2]
    BY <1>2, <1>3
  <2> QED
    BY <1>1, <1>2, <1>4, <1>5, <2>1
<1>8. call'.interface # Driver /\ call'.n <= Len(I[2])
  BY <1>1, <1>2, <1>3 DEF I
<1> QED
  BY <1>2, <1>6, <1>7, <1>8 DEF WholeInv

LEMMA WholeUninstallOne ==
  ASSUME DataInv, WholeInv, uninstall_one
  PROVE  WholeInv'
<1> DEFINE I == call.interface
           list == I[2]
           x == <<call.Handle, list[call.n + 1], I>>
<1>1. /\ call.op = "uninstall"
      /\ \/ /\ call.n < Len(list) /\ db' = db \ {x} /\ call' = [call EXCEPT !.n = @ + 1]
         \/ call.n = Len(list) /\ call' = NoCall /\ db' = db
  BY DEF uninstall_one, Within, Uninstalled
<1>2. /\ call \in [op : {"uninstall"}, Handle : Handles, interface : Nat \X Lists, n : Nat]
      /\ Len(list) \in Nat
  BY <1>1, UninstallRecord
<1>3. /\ I # Driver
      /\ Entries(db, I) \subseteq {<<call.Handle, list[j], I>> : j \in call.n + 1 .. Len(list)}
  BY <1>1 DEF WholeInv
<1>4. x[3] = I
  OBVIOUS
<1>5. \A d \in db : d[3] = Driver \/ Whole(db, d[3]) \/ d[3] = I
  BY <1>1 DEF WholeInv, UnderWay
<1>6. CASE call.n < Len(list) /\ db' = db \ {x} /\ call' = [call EXCEPT !.n = @ + 1]
  <2>1. /\ call'.op = "uninstall" /\ call'.n = call.n + 1 /\ call'.interface = I
        /\ call'.Handle = call.Handle
    BY <1>2, <1>6
  <2> HIDE DEF I, list
  <2>2. Entries(db', I) \subseteq
          {<<call.Handle, list[j], I>> : j \in call'.n + 1 .. Len(list)}
    <3> SUFFICES ASSUME NEW d \in Entries(db', I)
                 PROVE  \E j \in call'.n + 1 .. Len(list) : d = <<call.Handle, list[j], I>>
      OBVIOUS
    <3>1. d \in Entries(db, I) /\ d # x
      BY <1>6 DEF Entries
    <3>2. PICK j \in call.n + 1 .. Len(list) : d = <<call.Handle, list[j], I>>
      BY <1>3, <3>1
    <3>3. j # call.n + 1
      BY <3>1, <3>2
    <3>4. j \in call'.n + 1 .. Len(list)
      BY <1>2, <2>1, <3>2, <3>3
    <3> QED
      BY <3>2, <3>4
  <2>3. ASSUME NEW d \in db' PROVE d[3] = Driver \/ Whole(db', d[3]) \/ UnderWay(d[3])'
    <3> DEFINE J == d[3]
    <3>1. CASE J = I
      BY <2>1, <3>1 DEF UnderWay
    <3>2. CASE J # I
      <4>1. J = Driver \/ Whole(db, J)
        BY <1>5, <1>6, <3>2
      <4> HIDE DEF x, J
      <4>2. Whole(db, J) => Whole(db', J)
        BY <1>4, <1>6, <3>2, OthersUntouched
      <4> QED
        BY <4>1, <4>2 DEF J
    <3> QED
      BY <3>1, <3>2
  <2>4. call'.n <= Len(list)
    BY <1>2, <1>6, <2>1
  <2> QED
    BY <1>3, <2>1, <2>2, <2>3, <2>4 DEF WholeInv, list
<1>7. CASE call.n = Len(list) /\ call' = NoCall /\ db' = db
  <2> HIDE DEF I, list
  <2>1. Entries(db, I) = {}
    <3>1. call.n + 1 .. Len(list) = {}
      BY <1>2, <1>7
    <3> QED
      BY <1>3, <3>1
  <2>2. \A d \in db : d[3] = Driver \/ Whole(db, d[3])
    BY <1>5, <2>1 DEF Entries
  <2>3. call'.op \notin {"install", "undo", "uninstall"}
    BY <1>7 DEF NoCall
  <2> QED
    BY <1>7, <2>2, <2>3, SettledIsWhole
<1> QED
  BY <1>1, <1>6, <1>7

LEMMA WholeNext ==
  ASSUME DataInv, WholeInv, [TasksNext]_task_vars
  PROVE  WholeInv'
<1>1. CASE UNCHANGED <<call, db, Handle>>
  BY <1>1 DEF WholeInv, UnderWay, Interface
<1>2. CASE \/ driver \/ LibInstallProtocolInterfaces \/ install_one \/ undo_one
           \/ install_return \/ LibUninstallProtocolInterfaces \/ uninstall_one
  BY <1>2, WholeDriver, WholeInstall, WholeInstallOne, WholeUndo, WholeReturn,
     WholeUninstall, WholeUninstallOne
<1>3. ASSUME db' = db, call.op \notin {"install", "undo", "uninstall"},
             call'.op \notin {"install", "undo", "uninstall"}
      PROVE  WholeInv'
  BY <1>3, SettledIsWhole DEF WholeInv, UnderWay
<1>4. CASE LibReinstallProtocolInterfaces \/ LibCreateProtocolNotifyEvent
  BY <1>3, <1>4 DEF LibReinstallProtocolInterfaces, LibCreateProtocolNotifyEvent, Begin
<1>5. CASE reinstall_refused \/ signal
  BY <1>3, <1>5 DEF reinstall_refused, signal, Within, NoCall
<1>6. CASE register
  BY <1>3, <1>6 DEF register, Within, NoCall
<1>7. CASE RtAcquireLock_raise
  BY <1>1, <1>7 DEF RtAcquireLock_raise, Locking
<1>8. CASE \/ dispatch \/ notify_return \/ notify_look \/ timer_tick \/ RtAcquireLock_count
           \/ RtReleaseLock_count \/ RtReleaseLock_restore \/ UNCHANGED task_vars
  BY <1>1, <1>8 DEF dispatch, notify_return, notify_look, timer_tick, RtAcquireLock_count,
     RtReleaseLock_count, RtReleaseLock_restore, Locking, task_vars
<1> QED
  BY <1>2, <1>4, <1>5, <1>6, <1>7, <1>8 DEF TasksNext, Tasks

\* LibInstallProtocolInterfaces installs all of its list or none of it, as far as anyone
\* can see who looks below TPL_NOTIFY or with the lock: for any handles, lists and
\* levels, and whatever the firmware refuses.
THEOREM InstallsAllOrNothing == TasksSpec => []NoHalfInstalled
<1>1. TasksSpec => []WholeInv
  <2>1. DataInv /\ WholeInv /\ [TasksNext]_task_vars => WholeInv'
    BY WholeNext
  <2> QED
    BY <2>1, WholeInit, LockInvariant, PTL DEF TasksSpec
<1>2. DataInv /\ LockInv /\ WholeInv => NoHalfInstalled
  <2> SUFFICES ASSUME DataInv, LockInv, WholeInv, NEW d \in db, d[3] # Driver,
                      tpl < NOTIFY \/ (top.who = "protocol" /\ top.pc = "locked"),
                      ~(call.op = "uninstall" /\ call.interface = d[3]),
                      NEW n \in DOMAIN d[3][2]
               PROVE  <<d[1], d[3][2][n], d[3]>> \in db
    BY DEF NoHalfInstalled
  <2>1. call.op \notin {"install", "undo"}
    <3> SUFFICES ASSUME call.op \in {"install", "undo"} PROVE FALSE
      OBVIOUS
    <3>1. tpl = NOTIFY /\ top.who = "application"
      BY SynchronizedAlone DEF Synchronized
    <3> QED
      BY <3>1 DEF NOTIFY
  <2>2. PICK h \in Handles : Entries(db, d[3]) = {<<h, d[3][2][m], d[3]>> : m \in DOMAIN d[3][2]}
    BY <2>1 DEF WholeInv, UnderWay, Whole
  <2>3. d \in Entries(db, d[3])
    BY DEF Entries
  <2>4. d[1] = h
    BY <2>2, <2>3
  <2>5. <<h, d[3][2][n], d[3]>> \in Entries(db, d[3])
    BY <2>2
  <2> QED
    BY <2>4, <2>5 DEF Entries
<1> QED
  BY <1>1, <1>2, LockInvariant, PTL

-------------------------------------------------------------------------------
(***************************************************************************)
(* Device paths are sequences of the nodes there are, which end in the     *)
(* node that ends the whole path.                                          *)
(***************************************************************************)
AllNodes == (UNION {Range(p) : p \in Paths}) \union {FileNode(name) : name \in Names}
            \union {EndDevicePath, EndInstanceDevicePath}

PathSeq == {p \in Seq(AllNodes) : p # << >> /\ p[Len(p)] = EndDevicePath}

LEMMA LeastIn ==
  ASSUME NEW S \in SUBSET Nat, S # {}
  PROVE  Min(S) \in S /\ \A k \in S : Min(S) <= k
<1> DEFINE less == {ss \in Nat \X Nat : ss[1] < ss[2]}
<1>1. IsWellFoundedOn(less, Nat)
  BY NatLessThanWellFounded DEF OpToRel
<1> HIDE DEF less
<1>2. PICK n \in S : \A k \in S : <<k, n>> \notin less
  BY <1>1, WFMin
<1>3. ASSUME NEW k \in S PROVE n <= k
  <2>1. CASE k < n
    BY <1>2, <2>1, k \in Nat, n \in Nat DEF less
  <2> QED
    BY <2>1, k \in Nat, n \in Nat
<1> QED
  BY <1>3 DEF Min

\* Every node is one; those that end something are two; the library makes none of
\* those of messages.
LEMMA NodesAreWellFormed ==
  ASSUME NEW node \in AllNodes
  PROVE  /\ IsNode(node)
         /\ IsDevicePathEndType(node) => node \in {EndDevicePath, EndInstanceDevicePath}
         /\ IsDevicePathEnd(node) <=> node = EndDevicePath
         /\ node.type = "msg" => WellFormed(node)
<1>1. IsNode(node) /\ (node.type \in {"msg", "end"} => WellFormed(node))
  <2>1. CASE \E p \in Paths : node \in Range(p)
    <3>1. PICK p \in Paths : node \in Range(p)
      BY <2>1
    <3>2. PICK n \in DOMAIN p : node = p[n]
      BY <3>1 DEF Range
    <3> QED
      BY <3>1, <3>2, PathsAssumption
  <2>2. CASE \E name \in Names : node = FileNode(name)
    <3>1. PICK name \in Names : node = FileNode(name)
      BY <2>2
    <3>2. name.size \in Nat
      BY <3>1, PathsAssumption
    <3>3. IsNode(node) /\ node.type = "media"
      BY <3>1, <3>2 DEF FileNode, NodeOf, IsNode, SIZE_OF_FILEPATH
    <3> QED
      BY <3>3
  <2>3. CASE node \in {EndDevicePath, EndInstanceDevicePath}
    BY <2>3 DEF IsNode, WellFormed, EndDevicePath, EndInstanceDevicePath, NodeOf, IsDevicePathEndType
  <2> QED
    BY <2>1, <2>2, <2>3 DEF AllNodes
<1>2. IsDevicePathEndType(node) => node \in {EndDevicePath, EndInstanceDevicePath}
  BY <1>1 DEF WellFormed, IsDevicePathEndType
<1>3. IsDevicePathEnd(EndDevicePath) /\ ~IsDevicePathEnd(EndInstanceDevicePath)
  BY DEF IsDevicePathEnd, EndDevicePath, EndInstanceDevicePath, NodeOf
<1> QED
  BY <1>1, <1>2, <1>3 DEF IsDevicePathEnd, IsDevicePathEndType

\* The paths there are.
LEMMA PathsAreSequences == Paths \subseteq PathSeq
<1> SUFFICES ASSUME NEW p \in Paths PROVE p \in PathSeq
  OBVIOUS
<1>1. /\ p \in Seq(Range(p)) /\ p # << >> /\ SelectInSeq(p, IsDevicePathEnd) = Len(p)
      /\ \A n \in DOMAIN p : IsNode(p[n]) /\ WellFormed(p[n])
  BY PathsAssumption
<1>2. Len(p) \in Nat /\ DOMAIN p = 1 .. Len(p) /\ Len(p) # 0
  BY <1>1, EmptySeq, LenProperties
<1>3. Range(p) \subseteq AllNodes
  BY DEF AllNodes
<1>4. p \in Seq(AllNodes)
  BY <1>1, <1>3
<1>5. IsDevicePathEnd(p[Len(p)])
  <2> DEFINE I == {i \in 1 .. Len(p) : IsDevicePathEnd(p[i])}
  <2>1. SelectInSeq(p, IsDevicePathEnd) = IF I # {} THEN Min(I) ELSE 0
    BY DEF SelectInSeq
  <2>2. I # {} /\ Min(I) = Len(p)
    BY <2>1, <1>1, <1>2
  <2>3. I \in SUBSET Nat
    BY <1>2
  <2>4. Len(p) \in I
    <3> HIDE DEF I
    <3> QED
      BY <2>2, <2>3, LeastIn
  <2> QED
    BY <2>4
<1>6. p[Len(p)] \in AllNodes
  BY <1>2, <1>4
<1>7. p[Len(p)] = EndDevicePath
  BY <1>5, <1>6, NodesAreWellFormed
<1> QED
  BY <1>1, <1>4, <1>7 DEF PathSeq

-------------------------------------------------------------------------------
(***************************************************************************)
(* Where an instance stops, and what is read from a node on.               *)
(***************************************************************************)
StopOf(p, a) == a - 1 + SelectInSeq(SubSeq(p, a, Len(p)), IsDevicePathEndType)

LEMMA PathFacts ==
  ASSUME NEW p \in PathSeq
  PROVE  /\ p \in Seq(AllNodes) /\ Len(p) \in Nat \ {0} /\ DOMAIN p = 1 .. Len(p)
         /\ p[Len(p)] = EndDevicePath
         /\ \A n \in 1 .. Len(p) : p[n] \in AllNodes
BY EmptySeq, LenProperties DEF PathSeq

LEMMA EndNodes ==
  /\ EndDevicePath \in AllNodes /\ EndInstanceDevicePath \in AllNodes
  /\ IsDevicePathEndType(EndDevicePath) /\ IsDevicePathEndType(EndInstanceDevicePath)
  /\ IsDevicePathEnd(EndDevicePath) /\ ~IsDevicePathEnd(EndInstanceDevicePath)
  /\ EndDevicePath.length = 4
BY DEF AllNodes, IsDevicePathEnd, IsDevicePathEndType, EndDevicePath, EndInstanceDevicePath, NodeOf

\* An instance stops at the first node that ends something.
LEMMA StopFacts ==
  ASSUME NEW p \in PathSeq, NEW a \in 1 .. Len(p)
  PROVE  /\ StopOf(p, a) \in a .. Len(p)
         /\ IsDevicePathEndType(p[StopOf(p, a)])
         /\ \A k \in a .. StopOf(p, a) - 1 : ~IsDevicePathEndType(p[k])
<1> DEFINE s == SubSeq(p, a, Len(p))
           I == {i \in 1 .. Len(s) : IsDevicePathEndType(s[i])}
<1>1. p \in Seq(AllNodes) /\ Len(p) \in Nat \ {0}
  BY PathFacts
<1>2. Len(s) = Len(p) - a + 1 /\ \A i \in 1 .. Len(p) - a + 1 : s[i] = p[a + i - 1]
  BY <1>1, SubSeqProperties
<1> HIDE DEF s
<1>3. Len(p) - a + 1 \in I
  <2>1. s[Len(p) - a + 1] = p[Len(p)]
    <3>1. Len(p) - a + 1 \in 1 .. Len(p) - a + 1 /\ a + (Len(p) - a + 1) - 1 = Len(p)
      BY <1>1
    <3> QED
      BY <1>2, <3>1
  <2> QED
    BY <1>1, <1>2, <2>1, PathFacts, EndNodes
<1>4. I \in SUBSET Nat /\ I # {}
  BY <1>1, <1>2, <1>3
<1>5. SelectInSeq(s, IsDevicePathEndType) = Min(I)
  BY <1>4 DEF SelectInSeq
<1> DEFINE m == Min(I)
<1>6. m \in I /\ \A k \in I : m <= k
  <2> HIDE DEF I
  <2> QED
    BY <1>4, LeastIn
<1> HIDE DEF m
<1>7. m \in 1 .. Len(p) - a + 1 /\ IsDevicePathEndType(s[m]) /\ s[m] = p[a - 1 + m]
  <2>1. m \in 1 .. Len(p) - a + 1 /\ IsDevicePathEndType(s[m])
    BY <1>2, <1>6
  <2>2. s[m] = p[a + m - 1] /\ a + m - 1 = a - 1 + m
    BY <1>1, <1>2, <2>1
  <2> QED
    BY <2>1, <2>2
<1>8. ASSUME NEW k \in a .. a - 1 + m - 1
      PROVE  ~IsDevicePathEndType(p[k])
  <2>1. k - a + 1 \in 1 .. Len(p) - a + 1 /\ a + (k - a + 1) - 1 = k /\ k - a + 1 < m
    BY <1>1, <1>7
  <2>2. s[k - a + 1] = p[k]
    BY <1>2, <2>1
  <2> QED
    BY <1>2, <1>6, <1>7, <2>1, <2>2
<1>9. StopOf(p, a) = a - 1 + m
  BY <1>5 DEF StopOf, s, m
<1>10. StopOf(p, a) \in a .. Len(p)
  BY <1>1, <1>7, <1>9
<1> QED
  BY <1>7, <1>8, <1>9, <1>10

Stops(p, a, m) ==
  /\ p \in PathSeq /\ a \in 1 .. Len(p) /\ m \in a .. Len(p)
  /\ IsDevicePathEndType(p[m]) /\ \A k \in a .. m - 1 : ~IsDevicePathEndType(p[k])

\* There is no other such node.
LEMMA StopIs ==
  ASSUME NEW p, NEW a, NEW m, Stops(p, a, m)
  PROVE  StopOf(p, a) = m
<1> USE DEF Stops
<1>1. Len(p) \in Nat
  BY PathFacts
<1> DEFINE t == StopOf(p, a)
<1>2. t \in a .. Len(p) /\ IsDevicePathEndType(p[t]) /\ \A k \in a .. t - 1 : ~IsDevicePathEndType(p[k])
  BY StopFacts
<1> HIDE DEF t
<1>3. ~(t < m) /\ ~(m < t)
  BY <1>1, <1>2
<1> QED
  BY <1>1, <1>2, <1>3 DEF t

\* The next instance is behind this one.
LEMMA NextFacts ==
  ASSUME NEW p \in PathSeq, NEW a \in 1 .. Len(p)
  PROVE  /\ DevicePathInstance(p, a).nodes = SubSeq(p, a, StopOf(p, a) - 1)
         /\ DevicePathInstance(p, a).next = IF IsDevicePathEnd(p[StopOf(p, a)]) THEN 0 ELSE StopOf(p, a) + 1
         /\ DevicePathInstance(p, a).next \in {0} \union (a + 1 .. Len(p))
<1>1. /\ DevicePathInstance(p, a).nodes = SubSeq(p, a, StopOf(p, a) - 1)
      /\ DevicePathInstance(p, a).next = IF IsDevicePathEnd(p[StopOf(p, a)]) THEN 0 ELSE StopOf(p, a) + 1
  BY DEF DevicePathInstance, StopOf
<1>2. Len(p) \in Nat /\ p[Len(p)] = EndDevicePath /\ StopOf(p, a) \in a .. Len(p)
  BY PathFacts, StopFacts
<1>3. StopOf(p, a) = Len(p) => IsDevicePathEnd(p[StopOf(p, a)])
  BY <1>2, EndNodes
<1> QED
  BY <1>1, <1>2, <1>3

\* The instances from a node on.
FromOf(p) ==
  CHOOSE from : from = [start \in 0 .. Len(p) |->
                          IF start = 0 THEN << >>
                          ELSE LET i == DevicePathInstance(p, start) IN <<i.nodes>> \o from[i.next]]

LEMMA InstancesAre == \A p : InstancesOf(p) = FromOf(p)[1]
BY Zenon DEF InstancesOf, FromOf

\* What is read from a node on, given what is read from later ones on.
FromHere(p, g, start) ==
  IF start = 0 THEN << >>
  ELSE <<DevicePathInstance(p, start).nodes>> \o g[DevicePathInstance(p, start).next]

\* The last n nodes can be read.
Readable(p, n) ==
  \E g : /\ g = [start \in 0 .. Len(p) |-> g[start]]
         /\ \A start \in {0} \union (Len(p) - n + 1 .. Len(p)) : g[start] = FromHere(p, g, start)

LEMMA ReadableMore ==
  ASSUME NEW p \in PathSeq, NEW n \in 0 .. Len(p) - 1, Readable(p, n)
  PROVE  Readable(p, n + 1)
<1> DEFINE len == Len(p)
           new == len - n
<1>1. len \in Nat \ {0} /\ new \in 1 .. len
  BY PathFacts
<1>2. PICK g : /\ g = [start \in 0 .. len |-> g[start]]
               /\ \A start \in {0} \union (len - n + 1 .. len) : g[start] = FromHere(p, g, start)
  BY DEF Readable
<1> DEFINE h == [start \in 0 .. len |-> IF start = new THEN FromHere(p, g, new) ELSE g[start]]
<1>3. /\ h = [start \in 0 .. len |-> h[start]]
      /\ \A start \in 0 .. len : start # new => h[start] = g[start]
      /\ h[new] = FromHere(p, g, new)
  BY <1>1
<1> HIDE DEF h
<1>4. ASSUME NEW start \in {0} \union (len - (n + 1) + 1 .. len)
      PROVE  h[start] = FromHere(p, h, start)
  <2>1. CASE start = 0
    <3>1. h[0] = g[0] /\ g[0] = FromHere(p, g, 0)
      BY <1>1, <1>2, <1>3
    <3>2. g[0] = << >>
      BY <3>1 DEF FromHere
    <3> QED
      BY <2>1, <3>1, <3>2 DEF FromHere
  <2>2. CASE start # 0
    <3> DEFINE next == DevicePathInstance(p, start).next
    <3>1. start \in 1 .. len /\ start >= new
      BY <1>1, <2>2
    <3>2. next \in {0} \union (start + 1 .. len)
      BY <3>1, NextFacts
    <3>3. h[next] = g[next]
      BY <1>1, <1>3, <3>1, <3>2
    <3>4. FromHere(p, h, start) = FromHere(p, g, start)
      BY <2>2, <3>3 DEF FromHere
    <3>5. CASE start = new
      BY <1>3, <3>4, <3>5
    <3>6. CASE start # new
      BY <1>1, <1>2, <1>3, <3>1, <3>4, <3>6
    <3> QED
      BY <3>5, <3>6
  <2> QED
    BY <2>1, <2>2
<1> QED
  BY <1>3, <1>4 DEF Readable

LEMMA AllReadable ==
  ASSUME NEW p \in PathSeq
  PROVE  Readable(p, Len(p))
<1>1. Len(p) \in Nat
  BY PathFacts
<1> DEFINE Not == {n \in 0 .. Len(p) : ~Readable(p, n)}
<1>2. Readable(p, 0)
  <2> DEFINE g == [start \in 0 .. Len(p) |-> << >>]
  <2>1. g = [start \in 0 .. Len(p) |-> g[start]] /\ g[0] = << >>
    BY <1>1
  <2> HIDE DEF g
  <2>2. \A start \in {0} \union (Len(p) - 0 + 1 .. Len(p)) : start = 0
    BY <1>1
  <2>3. \A start \in {0} \union (Len(p) - 0 + 1 .. Len(p)) : g[start] = FromHere(p, g, start)
    BY <2>1, <2>2 DEF FromHere
  <2> QED
    BY <2>1, <2>3 DEF Readable
<1>3. CASE Not = {}
  BY <1>1, <1>3
<1>4. CASE Not # {}
  <2> DEFINE m == Min(Not)
  <2>1. Not \in SUBSET Nat
    BY <1>1
  <2>2. m \in Not /\ \A k \in Not : m <= k
    <3> HIDE DEF Not
    <3> QED
      BY <1>4, <2>1, LeastIn
  <2> HIDE DEF m
  <2>3. m \in 0 .. Len(p) /\ ~Readable(p, m)
    BY <2>2
  <2>4. m # 0
    BY <1>2, <2>3
  <2>5. m - 1 \in 0 .. Len(p) - 1 /\ m - 1 + 1 = m
    BY <1>1, <2>3, <2>4
  <2>6. Readable(p, m - 1)
    BY <1>1, <2>2, <2>5
  <2>7. Readable(p, m - 1 + 1)
    BY <2>5, <2>6, ReadableMore
  <2> QED
    BY <2>3, <2>5, <2>7
<1> QED
  BY <1>3, <1>4

\* So what is read from a node on is its instance and what is read from the next.
LEMMA FromFacts ==
  ASSUME NEW p \in PathSeq
  PROVE  /\ FromOf(p)[0] = << >>
         /\ \A a \in 1 .. Len(p) :
              FromOf(p)[a] = <<DevicePathInstance(p, a).nodes>> \o FromOf(p)[DevicePathInstance(p, a).next]
<1>1. Len(p) \in Nat
  BY PathFacts
<1>2. PICK g : /\ g = [start \in 0 .. Len(p) |-> g[start]]
               /\ \A start \in {0} \union (Len(p) - Len(p) + 1 .. Len(p)) : g[start] = FromHere(p, g, start)
  BY AllReadable DEF Readable
<1>3. \A start \in 0 .. Len(p) : g[start] = FromHere(p, g, start)
  BY <1>1, <1>2
<1>4. g = [start \in 0 .. Len(p) |-> FromHere(p, g, start)]
  BY <1>2, <1>3
<1>5. FromOf(p) = [start \in 0 .. Len(p) |-> FromHere(p, FromOf(p), start)]
  BY <1>4 DEF FromOf, FromHere
<1> DEFINE f == FromOf(p)
<1> HIDE DEF f
<1>6. \A start \in 0 .. Len(p) : f[start] = FromHere(p, f, start)
  BY <1>5 DEF f
<1>7. 0 \in 0 .. Len(p) /\ \A a \in 1 .. Len(p) : a \in 0 .. Len(p) /\ a # 0
  BY <1>1
<1> QED
  BY <1>6, <1>7 DEF f, FromHere

-------------------------------------------------------------------------------
(***************************************************************************)
(* Reading depends on the nodes up to the path's end alone.                *)
(***************************************************************************)
SameNodes(p, a, q, b, m) ==
  /\ a \in 1 .. Len(p) /\ b \in 1 .. Len(q) /\ m \in Nat /\ a + m <= Len(p) /\ b + m <= Len(q)
  /\ \A k \in 0 .. m : p[a + k] = q[b + k]

SamePart(p, a, q, b, d) ==
  /\ p \in Seq(AllNodes) /\ q \in Seq(AllNodes) /\ a \in 1 .. Len(p) /\ b \in 1 .. Len(q) /\ d \in Nat
  /\ (a + d) - 1 <= Len(p) /\ (b + d) - 1 <= Len(q) /\ \A k \in 0 .. d - 1 : p[a + k] = q[b + k]

PartOf(p, a, d) == SubSeq(p, a, (a + d) - 1)

LEMMA SameSubSeq ==
  ASSUME NEW p, NEW q, NEW a, NEW b, NEW d, SamePart(p, a, q, b, d)
  PROVE  PartOf(p, a, d) = PartOf(q, b, d)
<1> USE DEF SamePart
<1> DEFINE s == SubSeq(p, a, (a + d) - 1)
           t == SubSeq(q, b, (b + d) - 1)
<1>1. s \in Seq(AllNodes) /\ Len(s) = d /\ \A i \in 1 .. d : s[i] = p[a + i - 1]
  BY SubSeqProperties
<1>2. t \in Seq(AllNodes) /\ Len(t) = d /\ \A i \in 1 .. d : t[i] = q[b + i - 1]
  BY SubSeqProperties
<1> HIDE DEF s, t
<1>3. ASSUME NEW i \in 1 .. d
      PROVE  s[i] = t[i]
  <2>1. i - 1 \in 0 .. d - 1 /\ a + (i - 1) = a + i - 1 /\ b + (i - 1) = b + i - 1
    OBVIOUS
  <2> QED
    BY <1>1, <1>2, <2>1
<1>4. s = t
  BY <1>1, <1>2, <1>3, SeqEqual
<1> QED
  BY <1>4 DEF s, t, PartOf

SameToEnd(p, a, q, b, m) ==
  p \in PathSeq /\ q \in PathSeq /\ SameNodes(p, a, q, b, m) /\ IsDevicePathEnd(p[a + m])

SameFirst(p, a, q, b, m) ==
  \E d \in 0 .. m :
    /\ StopOf(p, a) = a + d /\ StopOf(q, b) = b + d /\ p[a + d] = q[b + d]
    /\ DevicePathInstance(p, a).nodes = DevicePathInstance(q, b).nodes

\* The first instance is the same.
LEMMA SameStop ==
  ASSUME NEW p, NEW q, NEW a, NEW b, NEW m, SameToEnd(p, a, q, b, m)
  PROVE  SameFirst(p, a, q, b, m)
<1>0. p \in PathSeq /\ q \in PathSeq /\ SameNodes(p, a, q, b, m) /\ IsDevicePathEnd(p[a + m])
  BY DEF SameToEnd
<1>1. /\ a \in 1 .. Len(p) /\ b \in 1 .. Len(q) /\ m \in Nat /\ a + m <= Len(p) /\ b + m <= Len(q)
      /\ \A k \in 0 .. m : p[a + k] = q[b + k]
  BY <1>0 DEF SameNodes
<1>2. /\ p \in Seq(AllNodes) /\ Len(p) \in Nat /\ q \in Seq(AllNodes) /\ Len(q) \in Nat
  BY <1>0, PathFacts
<1> DEFINE d == StopOf(p, a) - a
<1>3. /\ StopOf(p, a) \in a .. Len(p) /\ IsDevicePathEndType(p[StopOf(p, a)])
      /\ \A k \in a .. StopOf(p, a) - 1 : ~IsDevicePathEndType(p[k])
  BY <1>0, <1>1, StopFacts
<1>4. StopOf(p, a) = a + d /\ d \in Nat
  BY <1>1, <1>2, <1>3
<1> HIDE DEF d
<1>5. d <= m
  <2>1. IsDevicePathEndType(p[a + m])
    BY <1>0 DEF IsDevicePathEnd, IsDevicePathEndType
  <2> QED
    BY <1>1, <1>2, <1>3, <1>4, <2>1
<1>6. p[a + d] = q[b + d] /\ IsDevicePathEndType(q[b + d])
  BY <1>1, <1>3, <1>4, <1>5
<1>7. ASSUME NEW k \in b .. (b + d) - 1
      PROVE  ~IsDevicePathEndType(q[k])
  <2>1. k - b \in 0 .. m /\ b + (k - b) = k /\ a + (k - b) \in a .. StopOf(p, a) - 1
    BY <1>1, <1>2, <1>4, <1>5
  <2> QED
    BY <1>1, <1>3, <2>1
<1>8. StopOf(q, b) = b + d
  <2>1. b + d \in b .. Len(q)
    BY <1>1, <1>2, <1>4, <1>5
  <2> QED
    <3>1. Stops(q, b, b + d)
      BY <1>0, <1>1, <1>6, <1>7, <2>1 DEF Stops
    <3> QED
      BY <3>1, StopIs
<1>9. PartOf(p, a, d) = PartOf(q, b, d)
  <2>1. a + d <= Len(p) /\ b + d <= Len(q) /\ a \in Nat /\ b \in Nat
    BY <1>1, <1>2, <1>4, <1>5
  <2>2. (a + d) - 1 <= Len(p) /\ (b + d) - 1 <= Len(q)
    BY <1>2, <1>4, <2>1
  <2>3. \A k \in 0 .. d - 1 : k \in 0 .. m
    BY <1>1, <1>4, <1>5
  <2>4. \A k \in 0 .. d - 1 : p[a + k] = q[b + k]
    BY <1>1, <2>3
  <2> QED
    <3>1. SamePart(p, a, q, b, d)
      BY <1>1, <1>2, <1>4, <2>2, <2>4 DEF SamePart
    <3> QED
      BY <3>1, SameSubSeq
<1>10. DevicePathInstance(p, a).nodes = DevicePathInstance(q, b).nodes
  BY <1>0, <1>1, <1>4, <1>8, <1>9, NextFacts DEF PartOf
<1> QED
  BY <1>4, <1>5, <1>6, <1>8, <1>10 DEF SameFirst

LEMMA SameFrom ==
  ASSUME NEW p, NEW q, NEW a, NEW b, NEW m, SameToEnd(p, a, q, b, m)
  PROVE  FromOf(p)[a] = FromOf(q)[b]
<1>0. p \in PathSeq /\ q \in PathSeq
  BY DEF SameToEnd
<1> DEFINE Bad(x, y, n) == SameToEnd(p, x, q, y, n) /\ FromOf(p)[x] # FromOf(q)[y]
           Not == {n \in Nat : \E x \in 1 .. Len(p), y \in 1 .. Len(q) : Bad(x, y, n)}
<1> SUFFICES ASSUME Not # {} PROVE FALSE
  <2>1. a \in 1 .. Len(p) /\ b \in 1 .. Len(q) /\ m \in Nat
    BY DEF SameToEnd, SameNodes
  <2>2. CASE Not = {}
    <3>1. ~Bad(a, b, m)
      BY <2>1, <2>2
    <3> QED
      BY <3>1
  <2> QED
    BY <2>2
<1>1. PICK n \in Not : \A k \in Not : n <= k
  <2>1. Not \in SUBSET Nat
    OBVIOUS
  <2> HIDE DEF Not
  <2> QED
    BY <2>1, LeastIn
<1>2. PICK x \in 1 .. Len(p), y \in 1 .. Len(q) : Bad(x, y, n)
  BY <1>1
<1>3. /\ Len(p) \in Nat /\ Len(q) \in Nat /\ n \in Nat /\ x + n <= Len(p) /\ y + n <= Len(q)
      /\ \A k \in 0 .. n : p[x + k] = q[y + k]
  BY <1>2, PathFacts DEF SameToEnd, SameNodes
<1>4. PICK d \in 0 .. n :
        /\ StopOf(p, x) = x + d /\ StopOf(q, y) = y + d /\ p[x + d] = q[y + d]
        /\ DevicePathInstance(p, x).nodes = DevicePathInstance(q, y).nodes
  <2>1. SameToEnd(p, x, q, y, n)
    BY <1>2
  <2>2. SameFirst(p, x, q, y, n)
    BY <2>1, SameStop
  <2> QED
    BY <2>2 DEF SameFirst
<1>5. FromOf(p)[DevicePathInstance(p, x).next] = FromOf(q)[DevicePathInstance(q, y).next]
  <2>1. CASE IsDevicePathEnd(p[x + d])
    <3>1. DevicePathInstance(p, x).next = 0 /\ DevicePathInstance(q, y).next = 0
      BY <1>0, <1>4, <2>1, NextFacts
    <3> QED
      BY <1>0, <3>1, FromFacts
  <2>2. CASE ~IsDevicePathEnd(p[x + d])
    <3>1. DevicePathInstance(p, x).next = x + d + 1 /\ DevicePathInstance(q, y).next = y + d + 1
      BY <1>0, <1>4, <2>2, NextFacts
    <3>2. d # n
      BY <1>2, <2>2 DEF SameToEnd
    <3>3. /\ n - d - 1 \in Nat /\ n - d - 1 < n /\ x + d + 1 \in 1 .. Len(p) /\ y + d + 1 \in 1 .. Len(q)
          /\ x + d + 1 + (n - d - 1) = x + n /\ y + d + 1 + (n - d - 1) = y + n
      BY <1>3, <3>2
    <3>4. \A k \in 0 .. n - d - 1 : p[x + d + 1 + k] = q[y + d + 1 + k]
      <4> SUFFICES ASSUME NEW k \in 0 .. n - d - 1
                   PROVE  p[x + d + 1 + k] = q[y + d + 1 + k]
        OBVIOUS
      <4>1. d + 1 + k \in 0 .. n /\ x + (d + 1 + k) = x + d + 1 + k /\ y + (d + 1 + k) = y + d + 1 + k
        BY <1>3, <3>3
      <4> QED
        BY <1>3, <4>1
    <3>5. SameToEnd(p, x + d + 1, q, y + d + 1, n - d - 1)
      BY <1>2, <1>3, <3>3, <3>4 DEF SameToEnd, SameNodes
    <3>6. FromOf(p)[x + d + 1] = FromOf(q)[y + d + 1]
      <4>1. n - d - 1 \notin Not
        <5>1. SUFFICES ASSUME n - d - 1 \in Not PROVE FALSE
          OBVIOUS
        <5>2. n <= n - d - 1
          BY <1>1, <5>1
        <5> QED
          BY <1>3, <3>3, <5>2
      <4> QED
        BY <3>3, <3>5, <4>1
    <3> QED
      BY <3>1, <3>6
  <2> QED
    BY <2>1, <2>2
<1>6. FromOf(p)[x] = FromOf(q)[y]
  BY <1>0, <1>4, <1>5, FromFacts
<1> QED
  BY <1>2, <1>6

-------------------------------------------------------------------------------
(***************************************************************************)
(* What an end, and what more nodes before it, do to the instances.        *)
(***************************************************************************)
EndOf(p) == SelectInSeq(p, IsDevicePathEnd)
NodeLists == Seq(Seq(AllNodes))

LEMMA ReachableFacts ==
  ASSUME NEW p \in PathSeq
  PROVE  /\ EndOf(p) \in 1 .. Len(p) /\ p[EndOf(p)] = EndDevicePath
         /\ \A k \in 1 .. EndOf(p) - 1 : ~IsDevicePathEnd(p[k])
         /\ Reachable(p) \in PathSeq /\ Len(Reachable(p)) = EndOf(p)
         /\ \A k \in 1 .. EndOf(p) : Reachable(p)[k] = p[k]
<1> DEFINE I == {i \in 1 .. Len(p) : IsDevicePathEnd(p[i])}
<1>1. p \in Seq(AllNodes) /\ Len(p) \in Nat \ {0} /\ p[Len(p)] = EndDevicePath
      /\ \A n \in 1 .. Len(p) : p[n] \in AllNodes
  BY PathFacts
<1>2. I \in SUBSET Nat /\ Len(p) \in I
  BY <1>1, EndNodes
<1>3. EndOf(p) = Min(I)
  BY <1>2 DEF EndOf, SelectInSeq
<1> DEFINE m == Min(I)
<1>4. m \in I /\ \A k \in I : m <= k
  <2> HIDE DEF I
  <2> QED
    BY <1>2, LeastIn
<1> HIDE DEF m
<1>5. m \in 1 .. Len(p) /\ IsDevicePathEnd(p[m])
  BY <1>4
<1>6. p[m] = EndDevicePath
  BY <1>1, <1>5, NodesAreWellFormed
<1>7. \A k \in 1 .. m - 1 : ~IsDevicePathEnd(p[k])
  BY <1>1, <1>4, <1>5
<1> DEFINE r == SubSeq(p, 1, m)
<1>8. r \in Seq(AllNodes) /\ Len(r) = m /\ \A k \in 1 .. m : r[k] = p[k]
  BY <1>1, <1>5, SubSeqProperties
<1>9. Reachable(p) = r
  BY <1>3 DEF Reachable, EndOf, m
<1> HIDE DEF r
<1>10. r \in PathSeq
  BY <1>5, <1>6, <1>8, EmptySeq DEF PathSeq
<1> QED
  BY <1>3, <1>5, <1>6, <1>7, <1>8, <1>9, <1>10 DEF m

\* Instances are sequences of nodes, and there is one at every node.
LEMMA FromType ==
  ASSUME NEW p \in PathSeq, NEW a \in 1 .. Len(p)
  PROVE  /\ FromOf(p)[a] \in NodeLists /\ FromOf(p)[a] # << >>
         /\ FromOf(p)[a][1] = DevicePathInstance(p, a).nodes
         /\ DevicePathInstance(p, a).nodes \in Seq(AllNodes)
         /\ FromOf(p)[DevicePathInstance(p, a).next] \in NodeLists
         /\ Tail(FromOf(p)[a]) = FromOf(p)[DevicePathInstance(p, a).next]
<1> DEFINE len == Len(p)
           Not == {n \in Nat : \E x \in 1 .. len : n = len - x /\ FromOf(p)[x] \notin NodeLists}
<1>1. len \in Nat /\ p \in Seq(AllNodes) /\ FromOf(p)[0] = << >> /\ << >> \in NodeLists
  BY PathFacts, FromFacts DEF NodeLists
<1>2. \A x \in 1 .. len : DevicePathInstance(p, x).nodes \in Seq(AllNodes)
  <2> SUFFICES ASSUME NEW x \in 1 .. len PROVE DevicePathInstance(p, x).nodes \in Seq(AllNodes)
    OBVIOUS
  <2>1. StopOf(p, x) \in x .. len
    BY StopFacts
  <2>2. SubSeq(p, x, StopOf(p, x) - 1) \in Seq(AllNodes)
    BY <1>1, <2>1, SubSeqProperties
  <2> QED
    BY <2>2, NextFacts
<1>3. Not = {}
  <2> SUFFICES ASSUME Not # {} PROVE FALSE
    OBVIOUS
  <2>1. PICK n \in Not : \A k \in Not : n <= k
    <3>1. Not \in SUBSET Nat
      OBVIOUS
    <3> HIDE DEF Not
    <3> QED
      BY <3>1, LeastIn
  <2>2. PICK x \in 1 .. len : n = len - x /\ FromOf(p)[x] \notin NodeLists
    BY <2>1
  <2> DEFINE next == DevicePathInstance(p, x).next
  <2>3. next \in {0} \union (x + 1 .. len)
    BY NextFacts
  <2>4. FromOf(p)[next] \in NodeLists
    <3>1. CASE next = 0
      BY <1>1, <3>1
    <3>2. CASE next # 0
      <4>1. next \in x + 1 .. len
        BY <2>3, <3>2
      <4>2. len - next \in Nat /\ len - next < n /\ next \in 1 .. len
        <5>1. x \in Nat /\ 1 <= x /\ n = len - x /\ x + 1 <= next /\ next <= len /\ next \in Int /\ len \in Nat
          BY <1>1, <2>2, <4>1
        <5> HIDE DEF len, next
        <5> QED
          BY <5>1
      <4>3. len - next \notin Not
        <5>1. n \in Nat /\ ~(n <= len - next)
          BY <2>2, <4>2
        <5> HIDE DEF Not, next
        <5> QED
          BY <2>1, <5>1
      <4> QED
        BY <4>2, <4>3
    <3> QED
      BY <3>1, <3>2
  <2>5. <<DevicePathInstance(p, x).nodes>> \in NodeLists
    BY <1>2 DEF NodeLists
  <2> DEFINE one == <<DevicePathInstance(p, x).nodes>>
             later == FromOf(p)[next]
  <2>7. FromOf(p)[x] = one \o later
    BY FromFacts
  <2> HIDE DEF one, later
  <2>8. one \o later \in NodeLists
    BY <2>4, <2>5 DEF NodeLists, one, later
  <2>6. FromOf(p)[x] \in NodeLists
    BY <2>7, <2>8
  <2> QED
    BY <2>2, <2>6
<1>4. \A x \in 1 .. len : FromOf(p)[x] \in NodeLists
  <2> SUFFICES ASSUME NEW x \in 1 .. len PROVE FromOf(p)[x] \in NodeLists
    OBVIOUS
  <2>1. len - x \in Nat
    BY <1>1
  <2> QED
    BY <1>3, <2>1
<1> DEFINE i == DevicePathInstance(p, a).nodes
           rest == FromOf(p)[DevicePathInstance(p, a).next]
<1>5. FromOf(p)[a] = <<i>> \o rest /\ i \in Seq(AllNodes)
  BY <1>2, FromFacts
<1>6. rest \in NodeLists
  BY <1>1, <1>4, NextFacts
<1> HIDE DEF i, rest, Not
<1>7. /\ <<i>> \o rest \in NodeLists /\ <<i>> \o rest # << >>
      /\ (<<i>> \o rest)[1] = i /\ Tail(<<i>> \o rest) = rest
  <2> DEFINE N == Seq(AllNodes)
  <2>1. i \in N /\ rest \in Seq(N)
    BY <1>5, <1>6 DEF NodeLists
  <2> HIDE DEF N
  <2>2. /\ <<i>> \o rest \in Seq(N) /\ <<i>> \o rest # << >>
        /\ (<<i>> \o rest)[1] = i /\ Tail(<<i>> \o rest) = rest
    BY <2>1
  <2> QED
    BY <2>2 DEF NodeLists, N
<1> QED
  BY <1>5, <1>6, <1>7 DEF i, rest

\* Nothing behind the end counts.
LEMMA EndCuts ==
  ASSUME NEW p \in PathSeq, NEW q \in PathSeq, EndOf(p) <= Len(q),
         \A k \in 1 .. EndOf(p) : q[k] = p[k]
  PROVE  InstancesOf(q) = InstancesOf(p)
<1>1. EndOf(p) \in 1 .. Len(p) /\ p[EndOf(p)] = EndDevicePath /\ Len(p) \in Nat /\ Len(q) \in Nat
  BY ReachableFacts, PathFacts
<1>2. \A k \in 0 .. EndOf(p) - 1 : p[1 + k] = q[1 + k]
  BY <1>1
<1>3. SameToEnd(p, 1, q, 1, EndOf(p) - 1)
  BY <1>1, <1>2, EndNodes DEF SameToEnd, SameNodes
<1>4. FromOf(p)[1] = FromOf(q)[1]
  BY <1>3, SameFrom
<1> QED
  BY <1>4, InstancesAre

Unended(s) == s \in Seq(AllNodes) /\ \A n \in 1 .. Len(s) : ~IsDevicePathEndType(s[n])

\* What is before the first node that ends something belongs to the first instance.
LEMMA Prepended ==
  ASSUME NEW s, Unended(s), NEW q \in PathSeq
  PROVE  /\ s \o q \in PathSeq
         /\ InstancesOf(s \o q) = <<s \o InstancesOf(q)[1]>> \o Tail(InstancesOf(q))
<1> DEFINE r == s \o q
           n == Len(s)
<1>1. /\ s \in Seq(AllNodes) /\ q \in Seq(AllNodes) /\ n \in Nat /\ Len(q) \in Nat \ {0}
      /\ q[Len(q)] = EndDevicePath
      /\ \A k \in 1 .. n : ~IsDevicePathEndType(s[k])
  BY PathFacts, LenProperties DEF Unended
<1>2. /\ r \in Seq(AllNodes) /\ Len(r) = n + Len(q)
      /\ \A k \in 1 .. n : r[k] = s[k]
      /\ \A k \in 1 .. Len(q) : r[n + k] = q[k]
  BY <1>1, ConcatProperties
<1> HIDE DEF r, n
<1>3. r \in PathSeq
  <2>1. r[n + Len(q)] = q[Len(q)] /\ Len(r) \in Nat \ {0}
    <3>1. Len(q) \in 1 .. Len(q)
      BY <1>1
    <3> QED
      BY <1>1, <1>2, <3>1
  <2>2. r # << >>
    BY <2>1
  <2> QED
    BY <1>1, <1>2, <2>1, <2>2 DEF PathSeq
<1> DEFINE t == StopOf(q, 1)
<1>4. t \in 1 .. Len(q) /\ IsDevicePathEndType(q[t]) /\ \A k \in 1 .. t - 1 : ~IsDevicePathEndType(q[k])
  BY <1>1, StopFacts
<1> HIDE DEF t
<1>5. r[n + t] = q[t] /\ n + t \in 1 .. Len(r)
  BY <1>1, <1>2, <1>4
<1>6. ASSUME NEW k \in 1 .. (n + t) - 1
      PROVE  ~IsDevicePathEndType(r[k])
  <2>1. CASE k <= n
    BY <1>1, <1>2, <1>4, <2>1
  <2>2. CASE k > n
    <3>1. k - n \in 1 .. t - 1 /\ k - n \in 1 .. Len(q) /\ n + (k - n) = k
      BY <1>1, <1>4, <2>2
    <3> QED
      BY <1>2, <1>4, <3>1
  <2> QED
    BY <1>1, <2>1, <2>2
<1>7. StopOf(r, 1) = n + t
  <2>1. 1 \in 1 .. Len(r) /\ n + t \in 1 .. Len(r) /\ IsDevicePathEndType(r[n + t])
    BY <1>1, <1>2, <1>4, <1>5
  <2>2. Stops(r, 1, n + t)
    BY <1>3, <1>6, <2>1 DEF Stops
  <2> QED
    BY <2>2, StopIs
<1>8. DevicePathInstance(r, 1).nodes = s \o DevicePathInstance(q, 1).nodes
  <2> DEFINE u == SubSeq(r, 1, (n + t) - 1)
             v == SubSeq(q, 1, t - 1)
             w == s \o v
  <2>1. u \in Seq(AllNodes) /\ Len(u) = (n + t) - 1 /\ \A k \in 1 .. (n + t) - 1 : u[k] = r[k]
    BY <1>1, <1>2, <1>4, SubSeqProperties
  <2>2. v \in Seq(AllNodes) /\ Len(v) = t - 1 /\ \A k \in 1 .. t - 1 : v[k] = q[k]
    BY <1>1, <1>4, SubSeqProperties
  <2> HIDE DEF u, v
  <2>3. /\ w \in Seq(AllNodes) /\ Len(w) = n + (t - 1)
        /\ \A k \in 1 .. n + (t - 1) : w[k] = IF k <= n THEN s[k] ELSE v[k - n]
    <3>1. s \in Seq(AllNodes) /\ v \in Seq(AllNodes)
      BY <1>1, <2>2
    <3>2. /\ w \in Seq(AllNodes) /\ Len(w) = Len(s) + Len(v)
          /\ \A k \in 1 .. Len(s) + Len(v) : w[k] = IF k <= Len(s) THEN s[k] ELSE v[k - Len(s)]
      BY <3>1, ConcatProperties
    <3>3. Len(s) = n /\ Len(v) = t - 1
      BY <2>2 DEF n
    <3> HIDE DEF w
    <3> QED
      BY <3>2, <3>3
  <2> HIDE DEF w
  <2>4. ASSUME NEW k \in 1 .. (n + t) - 1
        PROVE  u[k] = w[k]
    <3>1. CASE k <= n
      BY <1>1, <1>2, <1>4, <2>1, <2>3, <3>1
    <3>2. CASE k > n
      <4>1. k - n \in 1 .. t - 1 /\ k - n \in 1 .. Len(q) /\ n + (k - n) = k /\ k \in 1 .. n + (t - 1)
        BY <1>1, <1>4, <3>2
      <4>2. r[n + (k - n)] = q[k - n]
        BY <1>2, <4>1
      <4>3. u[k] = r[k] /\ v[k - n] = q[k - n]
        BY <2>1, <2>2, <4>1
      <4>4. w[k] = v[k - n]
        BY <1>1, <2>3, <3>2, <4>1
      <4> QED
        BY <4>1, <4>2, <4>3, <4>4
    <3> QED
      BY <1>1, <3>1, <3>2
  <2>5. Len(u) = Len(w)
    BY <1>1, <1>4, <2>1, <2>3
  <2>6. u = w
    BY <2>1, <2>3, <2>4, <2>5, SeqEqual
  <2>7. 1 \in 1 .. Len(r) /\ 1 \in 1 .. Len(q)
    BY <1>1, <1>2
  <2>8. DevicePathInstance(r, 1).nodes = u /\ DevicePathInstance(q, 1).nodes = v
    BY <1>3, <1>7, <2>7, NextFacts DEF u, v, t
  <2> QED
    BY <2>6, <2>8 DEF w
<1>9. FromOf(r)[DevicePathInstance(r, 1).next] = FromOf(q)[DevicePathInstance(q, 1).next]
  <2>1. 1 \in 1 .. Len(r) /\ 1 \in 1 .. Len(q)
    BY <1>1, <1>2
  <2>2. /\ DevicePathInstance(r, 1).next = IF IsDevicePathEnd(q[t]) THEN 0 ELSE n + t + 1
        /\ DevicePathInstance(q, 1).next = IF IsDevicePathEnd(q[t]) THEN 0 ELSE t + 1
        /\ DevicePathInstance(q, 1).next \in {0} \union (1 + 1 .. Len(q))
    BY <1>3, <1>5, <1>7, <2>1, NextFacts DEF t
  <2>3. CASE IsDevicePathEnd(q[t])
    BY <1>3, <2>2, <2>3, FromFacts
  <2>4. CASE ~IsDevicePathEnd(q[t])
    <3>1. t + 1 \in 1 .. Len(q)
      BY <1>1, <1>4, <2>2, <2>4
    <3>2. \A k \in 0 .. Len(q) - (t + 1) : r[n + t + 1 + k] = q[t + 1 + k]
      <4> SUFFICES ASSUME NEW k \in 0 .. Len(q) - (t + 1)
                   PROVE  r[n + t + 1 + k] = q[t + 1 + k]
        OBVIOUS
      <4>1. t + 1 + k \in 1 .. Len(q) /\ n + (t + 1 + k) = n + t + 1 + k
        BY <1>1, <1>4, <3>1
      <4> QED
        BY <1>2, <4>1
    <3>3. /\ n + t + 1 \in 1 .. Len(r) /\ Len(q) - (t + 1) \in Nat /\ n + t + 1 + (Len(q) - (t + 1)) = Len(r)
          /\ t + 1 + (Len(q) - (t + 1)) = Len(q)
      BY <1>1, <1>2, <1>4, <3>1
    <3>4. IsDevicePathEnd(r[Len(r)])
      BY <1>3, EndNodes, PathFacts
    <3>5. SameToEnd(r, n + t + 1, q, t + 1, Len(q) - (t + 1))
      <4>1. SameNodes(r, n + t + 1, q, t + 1, Len(q) - (t + 1))
        <5>1. n + t + 1 + (Len(q) - (t + 1)) <= Len(r) /\ t + 1 + (Len(q) - (t + 1)) <= Len(q)
          BY <1>1, <1>2, <3>3
        <5> QED
          BY <3>1, <3>2, <3>3, <5>1 DEF SameNodes
      <4> QED
        BY <1>3, <3>3, <3>4, <4>1 DEF SameToEnd
    <3>6. FromOf(r)[n + t + 1] = FromOf(q)[t + 1]
      BY <3>5, SameFrom
    <3> QED
      BY <2>2, <2>4, <3>6
  <2> QED
    BY <2>3, <2>4
<1>10. 1 \in 1 .. Len(r) /\ 1 \in 1 .. Len(q)
  BY <1>1, <1>2
<1>11. /\ FromOf(r)[1] = <<DevicePathInstance(r, 1).nodes>> \o FromOf(r)[DevicePathInstance(r, 1).next]
       /\ FromOf(q)[1][1] = DevicePathInstance(q, 1).nodes
       /\ Tail(FromOf(q)[1]) = FromOf(q)[DevicePathInstance(q, 1).next]
  BY <1>3, <1>10, FromFacts, FromType
<1>12. FromOf(r)[1] = <<s \o FromOf(q)[1][1]>> \o Tail(FromOf(q)[1])
  BY <1>8, <1>9, <1>11
<1> QED
  BY <1>3, <1>12, InstancesAre DEF r

\* Where there is one instance, the path ends behind it; the first is without ends.
LEMMA InstanceFacts ==
  ASSUME NEW p \in PathSeq
  PROVE  /\ InstancesOf(p) \in NodeLists /\ InstancesOf(p) # << >> /\ Unended(InstancesOf(p)[1])
         /\ Len(InstancesOf(p)) = 1 => InstancesOf(p)[1] = SubSeq(p, 1, EndOf(p) - 1)
<1>1. 1 \in 1 .. Len(p) /\ p \in Seq(AllNodes) /\ Len(p) \in Nat
  BY PathFacts
<1>2. /\ InstancesOf(p) = FromOf(p)[1]
      /\ FromOf(p)[1] \in NodeLists /\ FromOf(p)[1] # << >>
      /\ FromOf(p)[1][1] = DevicePathInstance(p, 1).nodes
      /\ DevicePathInstance(p, 1).nodes \in Seq(AllNodes)
      /\ Tail(FromOf(p)[1]) = FromOf(p)[DevicePathInstance(p, 1).next]
  BY <1>1, FromType, InstancesAre
<1> DEFINE t == StopOf(p, 1)
           i == SubSeq(p, 1, t - 1)
<1>3. /\ t \in 1 .. Len(p) /\ IsDevicePathEndType(p[t]) /\ \A k \in 1 .. t - 1 : ~IsDevicePathEndType(p[k])
      /\ DevicePathInstance(p, 1).nodes = i
      /\ DevicePathInstance(p, 1).next = IF IsDevicePathEnd(p[t]) THEN 0 ELSE t + 1
      /\ DevicePathInstance(p, 1).next \in {0} \union (1 + 1 .. Len(p))
  BY <1>1, StopFacts, NextFacts
<1>4. Unended(i)
  BY <1>1, <1>3, SubSeqProperties DEF Unended
<1> HIDE DEF t, i
<1>5. ASSUME Len(InstancesOf(p)) = 1
      PROVE  t = EndOf(p)
  <2> DEFINE l == FromOf(p)[1]
  <2>1. l \in Seq(Seq(AllNodes)) /\ Len(l) = 1 /\ l # << >>
    BY <1>2, <1>5 DEF NodeLists
  <2> HIDE DEF l
  <2>2. Tail(l) = << >>
    <3>1. Tail(l) \in Seq(Seq(AllNodes)) /\ Len(Tail(l)) = 0
      BY <2>1, HeadTailProperties, EmptySeq
    <3> QED
      BY <3>1, EmptySeq
  <2>3. FromOf(p)[DevicePathInstance(p, 1).next] = << >>
    BY <1>2, <2>2 DEF l
  <2>4. IsDevicePathEnd(p[t])
    <3>1. CASE ~IsDevicePathEnd(p[t])
      <4>1. t + 1 \in 1 .. Len(p) /\ DevicePathInstance(p, 1).next = t + 1
        BY <1>1, <1>3, <3>1
      <4>2. FromOf(p)[t + 1] # << >>
        BY <4>1, FromType
      <4> QED
        BY <2>3, <4>1, <4>2
    <3> QED
      BY <3>1
  <2>5. /\ EndOf(p) \in 1 .. Len(p) /\ IsDevicePathEnd(p[EndOf(p)])
        /\ \A k \in 1 .. EndOf(p) - 1 : ~IsDevicePathEnd(p[k])
    BY ReachableFacts, EndNodes
  <2>6. IsDevicePathEndType(p[EndOf(p)])
    BY <2>5 DEF IsDevicePathEnd, IsDevicePathEndType
  <2>7. ~(t < EndOf(p)) /\ ~(EndOf(p) < t)
    BY <1>1, <1>3, <2>4, <2>5, <2>6
  <2> QED
    BY <1>1, <1>3, <2>5, <2>7
<1> QED
  BY <1>2, <1>3, <1>4, <1>5 DEF i

LEMMA ListsAssociate == \A x, y, z \in NodeLists : x \o (y \o z) = (x \o y) \o z
<1> SUFFICES ASSUME NEW x \in NodeLists, NEW y \in NodeLists, NEW z \in NodeLists
             PROVE  (x \o y) \o z = x \o (y \o z)
  OBVIOUS
<1> DEFINE A == Seq(AllNodes)
<1>1. x \in Seq(A) /\ y \in Seq(A) /\ z \in Seq(A)
  BY DEF NodeLists
<1> HIDE DEF A
<1> QED
  BY <1>1, ConcatAssociative

\* With its end made the end of an instance, a path goes on with another.
LEMMA Joined ==
  ASSUME NEW p \in PathSeq, NEW q \in PathSeq
  PROVE  /\ SubSeq(p, 1, EndOf(p) - 1) \o <<EndInstanceDevicePath>> \o q \in PathSeq
         /\ InstancesOf(SubSeq(p, 1, EndOf(p) - 1) \o <<EndInstanceDevicePath>> \o q)
              = InstancesOf(p) \o InstancesOf(q)
<1> DEFINE n == EndOf(p)
           f == SubSeq(p, 1, n - 1)
           g == f \o <<EndInstanceDevicePath>>
           r == g \o q
           all == FromOf(q)[1]
<1>1. /\ p \in Seq(AllNodes) /\ q \in Seq(AllNodes) /\ Len(q) \in Nat \ {0} /\ q[Len(q)] = EndDevicePath
      /\ Len(p) \in Nat /\ n \in 1 .. Len(p) /\ p[n] = EndDevicePath
      /\ \A k \in 1 .. n - 1 : ~IsDevicePathEnd(p[k])
  BY PathFacts, ReachableFacts
<1> HIDE DEF n
<1>2. f \in Seq(AllNodes) /\ Len(f) = n - 1 /\ \A k \in 1 .. n - 1 : f[k] = p[k]
  BY <1>1, SubSeqProperties
<1> HIDE DEF f
<1>3. /\ g \in Seq(AllNodes) /\ Len(g) = n /\ g[n] = EndInstanceDevicePath
      /\ \A k \in 1 .. n - 1 : g[k] = p[k]
  <2> DEFINE e == <<EndInstanceDevicePath>>
  <2>1. e \in Seq(AllNodes) /\ Len(e) = 1 /\ e[1] = EndInstanceDevicePath
    BY EndNodes
  <2> HIDE DEF e
  <2>2. /\ f \o e \in Seq(AllNodes) /\ Len(f \o e) = Len(f) + Len(e)
        /\ \A k \in 1 .. Len(f) + Len(e) : (f \o e)[k] = IF k <= Len(f) THEN f[k] ELSE e[k - Len(f)]
    BY <1>2, <2>1, ConcatProperties
  <2>3. n \in 1 .. Len(f) + Len(e) /\ ~(n <= Len(f)) /\ n - Len(f) = 1 /\ Len(f) + Len(e) = n
    BY <1>1, <1>2, <2>1
  <2>4. (f \o e)[n] = EndInstanceDevicePath
    BY <2>1, <2>2, <2>3
  <2>5. ASSUME NEW k \in 1 .. n - 1
        PROVE  (f \o e)[k] = p[k]
    <3>1. k \in 1 .. Len(f) + Len(e) /\ k <= Len(f)
      BY <1>1, <1>2, <2>3
    <3>2. (f \o e)[k] = f[k] /\ f[k] = p[k]
      BY <1>2, <2>2, <3>1
    <3> QED
      BY <3>2
  <2> QED
    BY <2>2, <2>3, <2>4, <2>5 DEF e
<1> HIDE DEF g
<1>4. /\ r \in Seq(AllNodes) /\ Len(r) = n + Len(q) /\ r[n] = EndInstanceDevicePath
      /\ \A k \in 1 .. n - 1 : r[k] = p[k]
      /\ \A k \in 1 .. Len(q) : r[n + k] = q[k]
  <2>1. /\ r \in Seq(AllNodes) /\ Len(r) = Len(g) + Len(q)
        /\ \A k \in 1 .. Len(g) + Len(q) : r[k] = IF k <= Len(g) THEN g[k] ELSE q[k - Len(g)]
    BY <1>1, <1>3, ConcatProperties
  <2> QED
    BY <1>1, <1>3, <2>1
<1> HIDE DEF r
<1>5. r \in PathSeq
  <2>1. r[n + Len(q)] = q[Len(q)] /\ Len(r) \in Nat \ {0}
    <3>1. Len(q) \in 1 .. Len(q)
      BY <1>1
    <3> QED
      BY <1>1, <1>4, <3>1
  <2>2. r # << >>
    BY <2>1
  <2> QED
    BY <1>1, <1>4, <2>1, <2>2 DEF PathSeq
<1>6. FromOf(r)[n + 1] = all
  <2>1. \A k \in 0 .. Len(q) - 1 : r[n + 1 + k] = q[1 + k]
    <3> SUFFICES ASSUME NEW k \in 0 .. Len(q) - 1 PROVE r[n + 1 + k] = q[1 + k]
      OBVIOUS
    <3>1. 1 + k \in 1 .. Len(q) /\ n + (1 + k) = n + 1 + k
      BY <1>1
    <3> QED
      BY <1>4, <3>1
  <2>2. /\ n + 1 \in 1 .. Len(r) /\ 1 \in 1 .. Len(q) /\ Len(q) - 1 \in Nat /\ n + 1 + (Len(q) - 1) = Len(r)
        /\ 1 + (Len(q) - 1) = Len(q)
    BY <1>1, <1>4
  <2>3. IsDevicePathEnd(r[Len(r)])
    BY <1>5, EndNodes, PathFacts
  <2>4. SameToEnd(r, n + 1, q, 1, Len(q) - 1)
    BY <1>1, <1>5, <2>1, <2>2, <2>3 DEF SameToEnd, SameNodes
  <2> QED
    BY <2>4, SameFrom
<1>7. all \in NodeLists
  BY <1>1, FromType
<1> HIDE DEF all
<1>8. ASSUME NEW a \in 1 .. n
      PROVE  \E t \in a .. n :
               /\ StopOf(p, a) = t /\ StopOf(r, a) = t
               /\ DevicePathInstance(r, a).nodes = DevicePathInstance(p, a).nodes
  <2> DEFINE t == StopOf(p, a)
  <2>1. t \in a .. Len(p) /\ IsDevicePathEndType(p[t]) /\ \A k \in a .. t - 1 : ~IsDevicePathEndType(p[k])
    BY <1>1, StopFacts
  <2> HIDE DEF t
  <2>2. t <= n
    BY <1>1, <2>1, EndNodes
  <2>3. IsDevicePathEndType(r[t])
    <3>1. CASE t = n
      BY <1>4, <3>1, EndNodes
    <3>2. CASE t < n
      <4>1. t \in 1 .. n - 1
        BY <1>1, <2>1, <3>2
      <4> QED
        BY <1>4, <2>1, <4>1
    <3>3. t <= n /\ t \in Nat /\ n \in Nat
      BY <1>1, <2>1, <2>2
    <3> QED
      BY <3>1, <3>2, <3>3
  <2>4. \A k \in a .. t - 1 : r[k] = p[k]
    BY <1>1, <1>4, <2>1, <2>2
  <2>5. Stops(r, a, t)
    BY <1>1, <1>4, <1>5, <2>1, <2>2, <2>3, <2>4 DEF Stops
  <2>6. StopOf(r, a) = t
    BY <2>5, StopIs
  <2>7. SamePart(r, a, p, a, t - a)
    <3>1. /\ t - a \in Nat /\ (a + (t - a)) - 1 <= Len(r) /\ (a + (t - a)) - 1 <= Len(p)
          /\ a \in 1 .. Len(r) /\ a \in 1 .. Len(p)
      BY <1>1, <1>4, <2>1, <2>2
    <3>2. \A k \in 0 .. (t - a) - 1 : a + k \in a .. t - 1
      BY <1>1, <2>1
    <3>3. \A k \in 0 .. (t - a) - 1 : r[a + k] = p[a + k]
      BY <2>4, <3>2
    <3> QED
      BY <1>1, <1>4, <3>1, <3>3 DEF SamePart
  <2>8. PartOf(r, a, t - a) = PartOf(p, a, t - a)
    BY <2>7, SameSubSeq
  <2>9. a + (t - a) = t /\ a \in 1 .. Len(r) /\ a \in 1 .. Len(p)
    BY <1>1, <1>4, <2>1
  <2>10. DevicePathInstance(r, a).nodes = DevicePathInstance(p, a).nodes
    BY <1>5, <2>6, <2>8, <2>9, NextFacts DEF PartOf, t
  <2> QED
    BY <2>1, <2>2, <2>6, <2>10 DEF t
<1> DEFINE Bad(x) == FromOf(r)[x] # FromOf(p)[x] \o all
           Not == {d \in Nat : \E x \in 1 .. n : d = n - x /\ Bad(x)}
<1>9. CASE Not = {}
  <2>1. ~Bad(1)
    <3>1. n - 1 \in Nat /\ 1 \in 1 .. n
      BY <1>1
    <3> QED
      BY <1>9, <3>1
  <2> QED
    BY <1>5, <2>1, InstancesAre DEF all, r, g, f, n
<1>10. CASE Not # {}
  <2>1. PICK d \in Not : \A k \in Not : d <= k
    <3>1. Not \in SUBSET Nat
      OBVIOUS
    <3> HIDE DEF Not
    <3> QED
      BY <1>10, <3>1, LeastIn
  <2>2. PICK a \in 1 .. n : d = n - a /\ Bad(a)
    BY <2>1
  <2>3. PICK t \in a .. n :
          /\ StopOf(p, a) = t /\ StopOf(r, a) = t
          /\ DevicePathInstance(r, a).nodes = DevicePathInstance(p, a).nodes
    BY <1>8
  <2>4. a \in 1 .. Len(p) /\ a \in 1 .. Len(r)
    BY <1>1, <1>4
  <2> DEFINE nodes == DevicePathInstance(p, a).nodes
             later == FromOf(p)[DevicePathInstance(p, a).next]
  <2>5. nodes \in Seq(AllNodes) /\ later \in NodeLists /\ FromOf(p)[a] = <<nodes>> \o later
    BY <2>4, FromType, FromFacts
  <2>6. FromOf(r)[DevicePathInstance(r, a).next] = later \o all
    <3>1. CASE t = n
      <4>0. IsDevicePathEnd(p[t]) /\ ~IsDevicePathEnd(r[t])
        BY <1>1, <1>4, <3>1, EndNodes
      <4>1. DevicePathInstance(p, a).next = 0 /\ DevicePathInstance(r, a).next = n + 1
        BY <1>5, <2>3, <2>4, <3>1, <4>0, NextFacts
      <4>2. later = << >>
        BY <4>1, FromFacts
      <4>3. << >> \o all = all
        BY <1>7, EmptySeq, ConcatEmptySeq DEF NodeLists
      <4> QED
        BY <1>6, <4>1, <4>2, <4>3
    <3>2. CASE t # n
      <4>1. t \in 1 .. n - 1 /\ r[t] = p[t] /\ ~IsDevicePathEnd(p[t])
        BY <1>1, <1>4, <2>3, <3>2
      <4>2. DevicePathInstance(p, a).next = t + 1 /\ DevicePathInstance(r, a).next = t + 1
        BY <1>5, <2>3, <2>4, <4>1, NextFacts
      <4>3. t + 1 \in 1 .. n /\ n - (t + 1) \in Nat /\ n - (t + 1) < d
        BY <1>1, <2>2, <2>3, <4>1
      <4>4. ~Bad(t + 1)
        <5>1. CASE Bad(t + 1)
          <6>1. n - (t + 1) \in Not
            BY <4>3, <5>1
          <6>2. d <= n - (t + 1)
            BY <2>1, <6>1
          <6> QED
            BY <1>1, <2>2, <4>3, <6>2
        <5> QED
          BY <5>1
      <4> QED
        BY <4>2, <4>4
    <3> QED
      BY <3>1, <3>2
  <2>7. FromOf(r)[a] = <<nodes>> \o (later \o all)
    BY <1>5, <2>3, <2>4, <2>6, FromFacts
  <2> HIDE DEF nodes, later
  <2>8. <<nodes>> \o (later \o all) = (<<nodes>> \o later) \o all
    <3> HIDE DEF Not
    <3>1. <<nodes>> \in NodeLists
      BY <2>5 DEF NodeLists
    <3> DEFINE one == <<nodes>>
    <3> HIDE DEF one
    <3>2. one \in NodeLists
      BY <3>1 DEF one
    <3>3. one \o (later \o all) = (one \o later) \o all
      BY <1>7, <2>5, <3>2, ListsAssociate, Zenon
    <3> QED
      BY <3>3 DEF one
  <2> QED
    BY <2>2, <2>5, <2>7, <2>8
<1> QED
  BY <1>9, <1>10

-------------------------------------------------------------------------------
(***************************************************************************)
(* What flattening gives, part after part.                                 *)
(***************************************************************************)
FlatOf(L) ==
  CHOOSE flatten : flatten = [i \in 1 .. Len(L) |-> IF i = 1 THEN L[i] ELSE flatten[i - 1] \o L[i]]

FlatHere(L, g, i) == IF i = 1 THEN L[i] ELSE g[i - 1] \o L[i]

Flattens(L, n) ==
  \E g : /\ g = [i \in 1 .. Len(L) |-> g[i]]
         /\ \A i \in 1 .. n : g[i] = FlatHere(L, g, i)

LEMMA FlattensMore ==
  ASSUME NEW L, Len(L) \in Nat, NEW n \in 0 .. Len(L) - 1, Flattens(L, n)
  PROVE  Flattens(L, n + 1)
<1> DEFINE len == Len(L)
<1>1. PICK g : g = [i \in 1 .. len |-> g[i]] /\ \A i \in 1 .. n : g[i] = FlatHere(L, g, i)
  BY DEF Flattens
<1> DEFINE h == [i \in 1 .. len |-> IF i = n + 1 THEN FlatHere(L, g, n + 1) ELSE g[i]]
<1>2. /\ h = [i \in 1 .. len |-> h[i]] /\ h[n + 1] = FlatHere(L, g, n + 1)
      /\ \A i \in 1 .. n : h[i] = g[i]
  OBVIOUS
<1> HIDE DEF h
<1>3. ASSUME NEW i \in 1 .. n + 1
      PROVE  h[i] = FlatHere(L, h, i)
  <2>1. FlatHere(L, h, i) = FlatHere(L, g, i)
    <3>1. CASE i = 1
      BY <3>1 DEF FlatHere
    <3>2. CASE i # 1
      <4>1. i - 1 \in 1 .. n
        BY <3>2
      <4>2. h[i - 1] = g[i - 1]
        BY <1>2, <4>1
      <4> QED
        BY <3>2, <4>2 DEF FlatHere
    <3> QED
      BY <3>1, <3>2
  <2>2. i = n + 1 \/ i \in 1 .. n
    OBVIOUS
  <2>3. h[i] = FlatHere(L, g, i)
    BY <1>1, <1>2, <2>2
  <2> QED
    BY <2>1, <2>3
<1> QED
  BY <1>2, <1>3 DEF Flattens

LEMMA FlattensAll ==
  ASSUME NEW L, Len(L) \in Nat
  PROVE  Flattens(L, Len(L))
<1> DEFINE Not == {n \in 0 .. Len(L) : ~Flattens(L, n)}
<1>1. Flattens(L, 0)
  <2> DEFINE g == [i \in 1 .. Len(L) |-> 0]
  <2>1. g = [i \in 1 .. Len(L) |-> g[i]] /\ \A i \in 1 .. 0 : g[i] = FlatHere(L, g, i)
    OBVIOUS
  <2> HIDE DEF g
  <2> QED
    BY <2>1 DEF Flattens
<1>2. CASE Not # {}
  <2>1. Not \in SUBSET Nat
    OBVIOUS
  <2> DEFINE m == Min(Not)
  <2>2. m \in Not /\ \A k \in Not : m <= k
    <3> HIDE DEF Not
    <3> QED
      BY <1>2, <2>1, LeastIn
  <2> HIDE DEF m
  <2>3. m \in 0 .. Len(L) /\ ~Flattens(L, m) /\ m # 0
    BY <1>1, <2>2
  <2>4. m - 1 \in 0 .. Len(L) - 1 /\ (m - 1) + 1 = m
    BY <2>3
  <2>5. Flattens(L, m - 1)
    BY <2>2, <2>4
  <2>6. Flattens(L, (m - 1) + 1)
    BY <2>4, <2>5, FlattensMore
  <2> QED
    BY <2>3, <2>4, <2>6
<1> QED
  BY <1>2

LEMMA FlatFacts ==
  ASSUME NEW S, NEW L \in Seq(Seq(S)), L # << >>
  PROVE  /\ FlattenSeq(L) = FlatOf(L)[Len(L)]
         /\ FlatOf(L)[1] = L[1]
         /\ \A i \in 2 .. Len(L) : FlatOf(L)[i] = FlatOf(L)[i - 1] \o L[i]
         /\ \A i \in 1 .. Len(L) : FlatOf(L)[i] \in Seq(S)
<1>1. Len(L) \in Nat \ {0} /\ \A i \in 1 .. Len(L) : L[i] \in Seq(S)
  BY EmptySeq, LenProperties
<1>2. PICK g : g = [i \in 1 .. Len(L) |-> g[i]] /\ \A i \in 1 .. Len(L) : g[i] = FlatHere(L, g, i)
  BY <1>1, FlattensAll DEF Flattens
<1>3. g = [i \in 1 .. Len(L) |-> FlatHere(L, g, i)]
  BY <1>2
<1>4. FlatOf(L) = [i \in 1 .. Len(L) |-> FlatHere(L, FlatOf(L), i)]
  BY <1>3 DEF FlatOf, FlatHere
<1> DEFINE f == FlatOf(L)
<1>5. FlattenSeq(L) = f[Len(L)]
  BY <1>1, Zenon DEF FlattenSeq, FlatOf
<1> HIDE DEF f
<1>6. \A i \in 1 .. Len(L) : f[i] = FlatHere(L, f, i)
  BY <1>4 DEF f
<1>7. f[1] = L[1] /\ \A i \in 2 .. Len(L) : f[i] = f[i - 1] \o L[i]
  <2>1. 1 \in 1 .. Len(L) /\ \A i \in 2 .. Len(L) : i \in 1 .. Len(L) /\ i # 1
    BY <1>1
  <2> QED
    BY <1>6, <2>1 DEF FlatHere
<1> DEFINE Not == {i \in 1 .. Len(L) : f[i] \notin Seq(S)}
<1>8. Not = {}
  <2> SUFFICES ASSUME Not # {} PROVE FALSE
    OBVIOUS
  <2>1. PICK i \in Not : \A k \in Not : i <= k
    <3>1. Not \in SUBSET Nat
      OBVIOUS
    <3> HIDE DEF Not
    <3> QED
      BY <3>1, LeastIn
  <2>2. i \in 1 .. Len(L) /\ f[i] \notin Seq(S)
    OBVIOUS
  <2>3. CASE i = 1
    BY <1>1, <1>7, <2>2, <2>3
  <2>4. CASE i # 1
    <3>1. i - 1 \in 1 .. Len(L) /\ i - 1 < i /\ i \in 2 .. Len(L)
      BY <1>1, <2>2, <2>4
    <3>2. f[i - 1] \in Seq(S)
      BY <2>1, <3>1
    <3>3. f[i] = f[i - 1] \o L[i] /\ L[i] \in Seq(S)
      BY <1>1, <1>7, <3>1
    <3>4. f[i - 1] \o L[i] \in Seq(S)
      BY <3>2, <3>3, ConcatProperties
    <3> QED
      BY <2>2, <3>3, <3>4
  <2> QED
    BY <2>3, <2>4
<1> QED
  BY <1>5, <1>7, <1>8 DEF f

-------------------------------------------------------------------------------
(***************************************************************************)
(* What the functions that build paths make of the instances.              *)
(***************************************************************************)
EndBehind(n, count) == <<IF n = count THEN EndDevicePath ELSE EndInstanceDevicePath>>
Behind(all, q, n) == (all[n] \o Reachable(q)) \o EndBehind(n, Len(all))

LEMMA NodesAssociate == \A x, y, z \in Seq(AllNodes) : (x \o y) \o z = x \o (y \o z)
<1> SUFFICES ASSUME NEW x \in Seq(AllNodes), NEW y \in Seq(AllNodes), NEW z \in Seq(AllNodes)
             PROVE  (x \o y) \o z = x \o (y \o z)
  OBVIOUS
<1> QED
  BY ConcatAssociative

Begins(L, i) == \E rest \in Seq(AllNodes) : FlatOf(L)[i] = L[1] \o rest /\ (i = 1 => rest = << >>)

\* Sequences that are put behind the first leave it where it is, and what ends the last
\* ends them all.
LEMMA FlatBegins ==
  ASSUME NEW L \in Seq(Seq(AllNodes)), L # << >>, \A i \in 1 .. Len(L) : Len(L[i]) # 0
  PROVE  /\ \E rest \in Seq(AllNodes) : FlattenSeq(L) = L[1] \o rest /\ (Len(L) = 1 => rest = << >>)
         /\ FlattenSeq(L) \in Seq(AllNodes) /\ Len(FlattenSeq(L)) # 0
         /\ FlattenSeq(L)[Len(FlattenSeq(L))] = L[Len(L)][Len(L[Len(L)])]
<1> DEFINE f == FlatOf(L)
           len == Len(L)
           Not == {i \in 1 .. len : ~Begins(L, i)}
<1>1. len \in Nat \ {0} /\ \A i \in 1 .. len : L[i] \in Seq(AllNodes)
  BY EmptySeq, LenProperties
<1>2. /\ FlattenSeq(L) = f[len] /\ f[1] = L[1]
      /\ \A i \in 2 .. len : f[i] = f[i - 1] \o L[i]
      /\ \A i \in 1 .. len : f[i] \in Seq(AllNodes)
  BY FlatFacts
<1> HIDE DEF f, len
<1>3. Begins(L, 1)
  <2>1. << >> \in Seq(AllNodes) /\ L[1] \in Seq(AllNodes)
    BY <1>1
  <2>2. f[1] = L[1] \o << >>
    BY <1>2, <2>1, ConcatEmptySeq
  <2> QED
    BY <2>1, <2>2 DEF Begins, f
<1>4. ASSUME Not # {} PROVE FALSE
  <2>1. PICK i \in Not : \A k \in Not : i <= k
    <3>1. Not \in SUBSET Nat
      OBVIOUS
    <3> HIDE DEF Not
    <3> QED
      BY <1>4, <3>1, LeastIn
  <2>2. i \in 2 .. len /\ ~Begins(L, i)
    <3>1. i \in 1 .. len /\ ~Begins(L, i)
      OBVIOUS
    <3>2. i # 1
      BY <1>3, <3>1
    <3> QED
      BY <1>1, <3>1, <3>2
  <2>3. i - 1 \in 1 .. len /\ i - 1 < i
    BY <1>1, <2>2
  <2>4. Begins(L, i - 1)
    BY <2>1, <2>3
  <2>5. PICK rest \in Seq(AllNodes) : f[i - 1] = L[1] \o rest
    BY <2>4 DEF Begins, f
  <2>6. f[i] = (L[1] \o rest) \o L[i]
    BY <1>2, <2>2, <2>5
  <2>7. 1 \in 1 .. len /\ i \in 1 .. len
    BY <1>1, <2>2
  <2>8. L[1] \in Seq(AllNodes) /\ L[i] \in Seq(AllNodes)
    BY <1>1, <2>7
  <2>9. f[i] = L[1] \o (rest \o L[i])
    BY <2>6, <2>8, NodesAssociate
  <2>10. rest \o L[i] \in Seq(AllNodes)
    BY <2>8, ConcatProperties
  <2>11. i # 1
    BY <1>1, <2>2
  <2> QED
    BY <2>2, <2>9, <2>10, <2>11 DEF Begins, f
<1>5. Begins(L, len)
  <2>1. CASE Not = {}
    <3>1. len \in 1 .. len
      BY <1>1
    <3>2. len \notin Not
      <4> HIDE DEF Not
      <4> QED
        BY <2>1
    <3> QED
      BY <3>1, <3>2
  <2> QED
    BY <1>4, <2>1
<1>6. Len(f[len]) # 0 /\ f[len][Len(f[len])] = L[len][Len(L[len])]
  <2>1. CASE len = 1
    BY <1>1, <1>2, <2>1 DEF len
  <2>2. CASE len # 1
    <3>1. len \in 2 .. len /\ len - 1 \in 1 .. len /\ len \in 1 .. len
      BY <1>1, <2>2
    <3> DEFINE s == f[len - 1]
               t == L[len]
    <3>2. f[len] = s \o t
      BY <1>2, <3>1
    <3>3. s \in Seq(AllNodes) /\ t \in Seq(AllNodes) /\ Len(t) # 0
      BY <1>1, <1>2, <3>1 DEF len
    <3> HIDE DEF s, t
    <3>4. /\ Len(s \o t) = Len(s) + Len(t) /\ Len(s) \in Nat /\ Len(t) \in Nat
          /\ \A k \in 1 .. Len(s) + Len(t) : (s \o t)[k] = IF k <= Len(s) THEN s[k] ELSE t[k - Len(s)]
      BY <3>3, ConcatProperties, LenProperties
    <3>5. /\ Len(s) + Len(t) \in 1 .. Len(s) + Len(t) /\ ~(Len(s) + Len(t) <= Len(s))
          /\ (Len(s) + Len(t)) - Len(s) = Len(t)
      BY <3>3, <3>4
    <3>6. (s \o t)[Len(s) + Len(t)] = t[Len(t)]
      BY <3>4, <3>5
    <3> QED
      BY <3>2, <3>4, <3>5, <3>6 DEF t
  <2> QED
    BY <2>1, <2>2
<1>7. PICK rest \in Seq(AllNodes) : f[len] = L[1] \o rest /\ (len = 1 => rest = << >>)
  BY <1>5 DEF Begins, f
<1>8. f[len] \in Seq(AllNodes)
  BY <1>1, <1>2
<1> QED
  BY <1>2, <1>6, <1>7, <1>8 DEF len

LEMMA AppendedPath ==
  ASSUME NEW p \in PathSeq, NEW q \in PathSeq
  PROVE  /\ AppendDevicePath(p, q) \in PathSeq
         /\ InstancesOf(AppendDevicePath(p, q))
              = <<InstancesOf(p)[1] \o InstancesOf(q)[1]>> \o Tail(InstancesOf(q))
         /\ Len(InstancesOf(p)) = 1 =>
              AppendDevicePath(p, q) = (InstancesOf(p)[1] \o Reachable(q)) \o <<EndDevicePath>>
<1> DEFINE all == InstancesOf(p)
           r == Reachable(q)
           L == [n \in DOMAIN all |-> (all[n] \o r) \o EndBehind(n, Len(all))]
<1>1. all \in NodeLists /\ all # << >> /\ Unended(all[1])
  BY InstanceFacts
<1>2. r \in PathSeq /\ r \in Seq(AllNodes) /\ Len(r) = EndOf(q) /\ EndOf(q) \in 1 .. Len(q)
      /\ \A k \in 1 .. EndOf(q) : r[k] = q[k]
  BY ReachableFacts DEF PathSeq
<1>3. AppendDevicePath(p, q) = FlattenSeq(L)
  BY DEF AppendDevicePath, EndBehind
<1> HIDE DEF all, r
<1>4. Len(all) \in Nat \ {0} /\ DOMAIN all = 1 .. Len(all) /\ \A n \in 1 .. Len(all) : all[n] \in Seq(AllNodes)
  BY <1>1, EmptySeq, LenProperties DEF NodeLists
<1>5. ASSUME NEW n \in 1 .. Len(all)
      PROVE  /\ (all[n] \o r) \o EndBehind(n, Len(all)) \in Seq(AllNodes)
             /\ Len((all[n] \o r) \o EndBehind(n, Len(all))) \in Nat \ {0}
             /\ n = Len(all) =>
                  ((all[n] \o r) \o EndBehind(n, Len(all)))[Len((all[n] \o r) \o EndBehind(n, Len(all)))]
                    = EndDevicePath
  <2> DEFINE s == all[n] \o r
             e == EndBehind(n, Len(all))
  <2>1. s \in Seq(AllNodes)
    BY <1>2, <1>4, ConcatProperties
  <2>2. e \in Seq(AllNodes) /\ Len(e) = 1 /\ (n = Len(all) => e[1] = EndDevicePath)
    BY EndNodes DEF EndBehind
  <2> HIDE DEF s, e
  <2>3. /\ s \o e \in Seq(AllNodes) /\ Len(s \o e) = Len(s) + Len(e) /\ Len(s) \in Nat
        /\ \A k \in 1 .. Len(s) + Len(e) : (s \o e)[k] = IF k <= Len(s) THEN s[k] ELSE e[k - Len(s)]
    BY <2>1, <2>2, ConcatProperties, LenProperties
  <2>4. Len(s) + Len(e) \in 1 .. Len(s) + Len(e) /\ ~(Len(s) + Len(e) <= Len(s))
          /\ (Len(s) + Len(e)) - Len(s) = 1
    BY <2>2, <2>3
  <2>5. n = Len(all) => (s \o e)[Len(s \o e)] = EndDevicePath
    BY <2>2, <2>3, <2>4
  <2>6. Len(s \o e) \in Nat \ {0}
    BY <2>2, <2>3
  <2> QED
    BY <2>3, <2>5, <2>6 DEF s, e
<1>6. /\ L = [n \in 1 .. Len(all) |-> L[n]]
      /\ \A n \in 1 .. Len(all) : L[n] = (all[n] \o r) \o EndBehind(n, Len(all))
  BY <1>4
<1> HIDE DEF L
<1>7. L \in Seq(Seq(AllNodes)) /\ Len(L) = Len(all)
  <2>1. \A n \in 1 .. Len(all) : L[n] \in Seq(AllNodes)
    BY <1>5, <1>6
  <2>2. L \in [1 .. Len(all) -> Seq(AllNodes)]
    BY <1>6, <2>1
  <2>3. L \in Seq(Seq(AllNodes))
    BY <1>4, <2>2
  <2> QED
    BY <1>4, <2>2, <2>3, LenProperties
<1>8. L # << >> /\ \A n \in 1 .. Len(L) : Len(L[n]) # 0
  BY <1>4, <1>5, <1>6, <1>7, EmptySeq
<1> DEFINE flat == FlattenSeq(L)
<1>9. /\ \E rest \in Seq(AllNodes) : flat = L[1] \o rest /\ (Len(L) = 1 => rest = << >>)
      /\ flat \in Seq(AllNodes) /\ Len(flat) # 0
      /\ flat[Len(flat)] = L[Len(L)][Len(L[Len(L)])]
  BY <1>7, <1>8, FlatBegins
<1> HIDE DEF flat
<1>10. PICK rest \in Seq(AllNodes) : flat = L[1] \o rest /\ (Len(L) = 1 => rest = << >>)
  BY <1>9
<1>11. flat[Len(flat)] = EndDevicePath
  <2>1. Len(all) \in 1 .. Len(all)
    BY <1>4
  <2> DEFINE l == L[Len(all)]
  <2>2. l[Len(l)] = EndDevicePath
    BY <1>5, <1>6, <2>1
  <2> HIDE DEF l
  <2> QED
    BY <1>7, <1>9, <2>2 DEF l
<1>12. flat \in PathSeq
  <2>1. flat # << >>
    BY <1>9, EmptySeq
  <2> QED
    BY <1>9, <1>11, <2>1 DEF PathSeq
<1> DEFINE e == EndBehind(1, Len(all))
           w == r \o (e \o rest)
<1>13. e \in Seq(AllNodes) /\ e \o rest \in Seq(AllNodes)
  BY EndNodes DEF EndBehind
<1> HIDE DEF e
<1>14. flat = all[1] \o w /\ w \in Seq(AllNodes)
  <2>1. 1 \in 1 .. Len(all)
    BY <1>4
  <2>2. all[1] \in Seq(AllNodes) /\ all[1] \o r \in Seq(AllNodes)
    BY <1>2, <1>4, <2>1, ConcatProperties
  <2>3. flat = ((all[1] \o r) \o e) \o rest
    BY <1>6, <1>10, <2>1 DEF e
  <2> DEFINE ahead == all[1]
             both == ahead \o r
             back == e \o rest
  <2>4. /\ ahead \in Seq(AllNodes) /\ both \in Seq(AllNodes) /\ back \in Seq(AllNodes)
        /\ r \in Seq(AllNodes)
    BY <1>2, <1>13, <2>2
  <2>5. flat = ahead \o (r \o back)
    <3> HIDE DEF ahead
    <3>1. both \o back = ahead \o (r \o back)
      <4> HIDE DEF back
      <4> QED
        BY <2>4, NodesAssociate
    <3>2. (both \o e) \o rest = both \o back
      <4> HIDE DEF both
      <4>1. both \in Seq(AllNodes) /\ e \in Seq(AllNodes) /\ rest \in Seq(AllNodes)
        BY <1>13, <2>4
      <4> QED
        BY <4>1, NodesAssociate
    <3>3. flat = (both \o e) \o rest
      BY <2>3 DEF ahead
    <3> HIDE DEF both, back
    <3> QED
      BY <3>1, <3>2, <3>3
  <2> QED
    BY <2>4, <2>5, ConcatProperties
<1>15. /\ Len(w) = EndOf(q) + Len(e \o rest) /\ Len(e \o rest) \in Nat
       /\ \A k \in 1 .. EndOf(q) : w[k] = q[k]
  <2> DEFINE z == e \o rest
  <2>1. z \in Seq(AllNodes)
    BY <1>13
  <2> HIDE DEF z
  <2>2. Len(r \o z) = EndOf(q) + Len(z) /\ Len(z) \in Nat /\ \A k \in 1 .. EndOf(q) : (r \o z)[k] = r[k]
    BY <1>2, <2>1, ConcatProperties, LenProperties
  <2> QED
    BY <1>2, <2>2 DEF z
<1> HIDE DEF w
<1>16. w \in PathSeq
  <2> DEFINE a == all[1]
  <2>1. a \in Seq(AllNodes) /\ Len(w) \in Nat \ {0}
    BY <1>2, <1>4, <1>15, PathFacts
  <2> HIDE DEF a
  <2>2. /\ Len(a \o w) = Len(a) + Len(w) /\ Len(a) \in Nat
        /\ \A k \in 1 .. Len(a) + Len(w) : (a \o w)[k] = IF k <= Len(a) THEN a[k] ELSE w[k - Len(a)]
    BY <1>14, <2>1, ConcatProperties, LenProperties
  <2>3. /\ Len(a) + Len(w) \in 1 .. Len(a) + Len(w) /\ ~(Len(a) + Len(w) <= Len(a))
        /\ (Len(a) + Len(w)) - Len(a) = Len(w)
    BY <2>1, <2>2
  <2>4. w[Len(w)] = EndDevicePath
    BY <1>11, <1>14, <2>2, <2>3 DEF a
  <2>5. w # << >>
    BY <2>1
  <2> QED
    BY <1>14, <2>4, <2>5 DEF PathSeq
<1>17. InstancesOf(w) = InstancesOf(q)
  <2>1. EndOf(q) <= Len(w)
    BY <1>2, <1>15, PathFacts
  <2> QED
    BY <1>15, <1>16, <2>1, EndCuts
<1>18. InstancesOf(all[1] \o w) = <<all[1] \o InstancesOf(w)[1]>> \o Tail(InstancesOf(w))
  BY <1>1, <1>16, Prepended
<1>19. Len(all) = 1 => flat = (all[1] \o r) \o <<EndDevicePath>>
  <2> SUFFICES ASSUME Len(all) = 1 PROVE flat = (all[1] \o r) \o <<EndDevicePath>>
    OBVIOUS
  <2>1. flat = L[1] \o << >> /\ L[1] = (all[1] \o r) \o EndBehind(1, 1) /\ L[1] \in Seq(AllNodes)
    BY <1>5, <1>6, <1>7, <1>10
  <2>2. flat = (all[1] \o r) \o EndBehind(1, 1)
    BY <2>1, ConcatEmptySeq
  <2> QED
    BY <2>2 DEF EndBehind
<1> QED
  BY <1>3, <1>12, <1>14, <1>17, <1>18, <1>19 DEF flat, all, r

-------------------------------------------------------------------------------
(***************************************************************************)
(* Folding a sequence: over the places in a set, from the least on, each   *)
(* step given by a function of the value so far and the place.             *)
(***************************************************************************)
Folded(F, base, g, s) == IF s = {} THEN base ELSE F[<<g[s \ {Max(s)}], Max(s)>>]

Folds(V, F, base, n) ==
  \E g \in [SUBSET (1 .. n) -> V] : \A s \in SUBSET (1 .. n) : g[s] = Folded(F, base, g, s)

LEMMA GreatestIs ==
  ASSUME NEW S \in SUBSET Nat, NEW m \in S, \A k \in S : k <= m
  PROVE  Max(S) = m
<1> DEFINE x == Max(S)
<1>1. x \in S /\ \A k \in S : x >= k
  BY DEF Max
<1> HIDE DEF x
<1>2. x \in Nat /\ m \in Nat /\ x >= m /\ x <= m
  BY <1>1
<1>3. x = m
  BY <1>2
<1> QED
  BY <1>3 DEF x

LEMMA FoldsMore ==
  ASSUME NEW V, NEW base \in V, NEW n \in Nat, NEW F, \A v \in V : F[<<v, n + 1>>] \in V,
         Folds(V, F, base, n)
  PROVE  Folds(V, F, base, n + 1)
<1>1. PICK g \in [SUBSET (1 .. n) -> V] : \A s \in SUBSET (1 .. n) : g[s] = Folded(F, base, g, s)
  BY DEF Folds
<1> DEFINE h == [s \in SUBSET (1 .. n + 1) |-> IF n + 1 \in s THEN F[<<g[s \ {n + 1}], n + 1>>] ELSE g[s]]
<1>2. \A s \in SUBSET (1 .. n + 1) : IF n + 1 \in s THEN s \ {n + 1} \in SUBSET (1 .. n)
                                     ELSE s \in SUBSET (1 .. n)
  OBVIOUS
<1>3. \A s \in SUBSET (1 .. n + 1) : h[s] \in V
  <2> SUFFICES ASSUME NEW s \in SUBSET (1 .. n + 1) PROVE h[s] \in V
    OBVIOUS
  <2>1. CASE n + 1 \in s
    <3>1. s \ {n + 1} \in SUBSET (1 .. n)
      BY <1>2, <2>1
    <3>2. g[s \ {n + 1}] \in V
      BY <3>1
    <3> QED
      BY <2>1, <3>2
  <2>2. CASE n + 1 \notin s
    <3>1. s \in SUBSET (1 .. n)
      BY <1>2, <2>2
    <3> QED
      BY <2>2, <3>1
  <2> QED
    BY <2>1, <2>2
<1>4. h \in [SUBSET (1 .. n + 1) -> V]
  BY <1>3
<1>5. \A s \in SUBSET (1 .. n + 1) : h[s] = IF n + 1 \in s THEN F[<<g[s \ {n + 1}], n + 1>>] ELSE g[s]
  OBVIOUS
<1>6. \A s \in SUBSET (1 .. n) : h[s] = g[s]
  <2> SUFFICES ASSUME NEW s \in SUBSET (1 .. n) PROVE h[s] = g[s]
    OBVIOUS
  <2>1. s \in SUBSET (1 .. n + 1) /\ n + 1 \notin s
    OBVIOUS
  <2> QED
    BY <1>5, <2>1
<1> HIDE DEF h
<1>7. ASSUME NEW s \in SUBSET (1 .. n + 1)
      PROVE  h[s] = Folded(F, base, h, s)
  <2>1. CASE n + 1 \in s
    <3>1. Max(s) = n + 1
      <4>1. s \in SUBSET Nat /\ \A k \in s : k <= n + 1
        OBVIOUS
      <4> QED
        BY <2>1, <4>1, GreatestIs
    <3>2. s \ {n + 1} \in SUBSET (1 .. n) /\ s # {}
      BY <1>2, <2>1
    <3>3. h[s \ {n + 1}] = g[s \ {n + 1}]
      BY <1>6, <3>2
    <3> QED
      BY <1>5, <2>1, <3>1, <3>2, <3>3 DEF Folded
  <2>2. CASE n + 1 \notin s
    <3>1. s \in SUBSET (1 .. n)
      BY <1>2, <2>2
    <3>2. h[s] = Folded(F, base, g, s)
      BY <1>1, <1>6, <3>1
    <3>3. s \ {Max(s)} \in SUBSET (1 .. n)
      BY <3>1
    <3>4. h[s \ {Max(s)}] = g[s \ {Max(s)}]
      BY <1>6, <3>3
    <3> QED
      BY <3>2, <3>4 DEF Folded
  <2> QED
    BY <2>1, <2>2
<1> QED
  BY <1>4, <1>7 DEF Folds

LEMMA FoldsAll ==
  ASSUME NEW V, NEW base \in V, NEW n \in Nat, NEW F, \A v \in V, k \in 1 .. n : F[<<v, k>>] \in V
  PROVE  Folds(V, F, base, n)
<1> DEFINE Not == {m \in 0 .. n : ~Folds(V, F, base, m)}
<1>1. Folds(V, F, base, 0)
  <2> DEFINE g == [s \in SUBSET (1 .. 0) |-> base]
  <2>1. g \in [SUBSET (1 .. 0) -> V] /\ \A s \in SUBSET (1 .. 0) : s = {} /\ g[s] = base
    OBVIOUS
  <2> HIDE DEF g
  <2> QED
    BY <2>1 DEF Folds, Folded
<1>2. CASE Not # {}
  <2>1. Not \in SUBSET Nat
    OBVIOUS
  <2> DEFINE m == Min(Not)
  <2>2. m \in Not /\ \A k \in Not : m <= k
    <3> HIDE DEF Not
    <3> QED
      BY <1>2, <2>1, LeastIn
  <2> HIDE DEF m
  <2>3. m \in 0 .. n /\ ~Folds(V, F, base, m) /\ m # 0
    BY <1>1, <2>2
  <2>4. m - 1 \in 0 .. n /\ m - 1 < m /\ m - 1 \in Nat /\ (m - 1) + 1 = m /\ m \in 1 .. n
    BY <2>3
  <2>5. Folds(V, F, base, m - 1)
    BY <2>2, <2>4
  <2>6. \A v \in V : F[<<v, (m - 1) + 1>>] \in V
    BY <2>4
  <2>7. Folds(V, F, base, (m - 1) + 1)
    BY <2>4, <2>5, <2>6, FoldsMore
  <2> QED
    BY <2>3, <2>4, <2>7
<1>3. CASE Not = {}
  BY <1>3
<1> QED
  BY <1>2, <1>3


LEMMA GreatestIn ==
  ASSUME NEW S \in SUBSET Nat, S # {}, NEW n \in Nat, \A k \in S : k <= n
  PROVE  Max(S) \in S
<1> DEFINE T == {n - k : k \in S}
<1>1. T \in SUBSET Nat /\ T # {}
  <2>1. \A k \in S : n - k \in Nat
    OBVIOUS
  <2> QED
    BY <2>1
<1>2. Min(T) \in T /\ \A k \in T : Min(T) <= k
  <2> HIDE DEF T
  <2> QED
    BY <1>1, LeastIn
<1>3. PICK m \in S : Min(T) = n - m
  BY <1>2
<1>4. \A k \in S : k <= m
  <2> SUFFICES ASSUME NEW k \in S PROVE k <= m
    OBVIOUS
  <2>1. n - k \in T
    OBVIOUS
  <2>2. n - m <= n - k
    BY <1>2, <1>3, <2>1
  <2> QED
    BY <2>2
<1>5. Max(S) = m
  BY <1>4, GreatestIs
<1> QED
  BY <1>5

-------------------------------------------------------------------------------
(***************************************************************************)
(* Sizes of paths.                                                         *)
(***************************************************************************)
SumsOf(nodes) ==
  CHOOSE iter : iter = [s \in SUBSET DOMAIN nodes |->
                          IF s = {} THEN 0 ELSE iter[s \ {Max(s)}] + nodes[Max(s)].length]
SumTo(nodes, k) == SumsOf(nodes)[1 .. k]

LEMMA TotalIs == \A nodes : Total(nodes) = SumsOf(nodes)[DOMAIN nodes]
BY Zenon DEF Total, FoldLeft, MapThenFoldSet, SumsOf

\* The size of a sequence up to a node is the size up to the one before, and the node's.
LEMMA SumFacts ==
  ASSUME NEW nodes \in Seq(AllNodes)
  PROVE  /\ Total(nodes) = SumTo(nodes, Len(nodes)) /\ SumTo(nodes, 0) = 0
         /\ \A k \in 1 .. Len(nodes) : SumTo(nodes, k) = SumTo(nodes, k - 1) + nodes[k].length
         /\ \A k \in 0 .. Len(nodes) : SumTo(nodes, k) \in Nat
<1> DEFINE n == Len(nodes)
           F == [vk \in Nat \X (1 .. n) |-> vk[1] + nodes[vk[2]].length]
<1>1. n \in Nat /\ DOMAIN nodes = 1 .. n /\ \A k \in 1 .. n : nodes[k] \in AllNodes
  BY LenProperties
<1>2. \A k \in 1 .. n : nodes[k].length \in Nat
  BY <1>1, NodesAreWellFormed DEF IsNode
<1>3. \A v \in Nat, k \in 1 .. n : F[<<v, k>>] = v + nodes[k].length
  OBVIOUS
<1> HIDE DEF F, n
<1>4. \A v \in Nat, k \in 1 .. n : F[<<v, k>>] \in Nat
  <2> SUFFICES ASSUME NEW v \in Nat, NEW k \in 1 .. n PROVE F[<<v, k>>] \in Nat
    OBVIOUS
  <2>1. v + nodes[k].length \in Nat
    BY <1>2
  <2> QED
    BY <1>3, <2>1
<1>5. Folds(Nat, F, 0, n)
  BY <1>1, <1>4, FoldsAll
<1>6. PICK g \in [SUBSET (1 .. n) -> Nat] : \A s \in SUBSET (1 .. n) : g[s] = Folded(F, 0, g, s)
  BY <1>5 DEF Folds
<1>7. ASSUME NEW s \in SUBSET (1 .. n), s # {}
      PROVE  Max(s) \in s /\ Max(s) \in 1 .. n /\ s \ {Max(s)} \in SUBSET (1 .. n)
  <2>1. s \in SUBSET Nat /\ \A k \in s : k <= n
    BY <1>1
  <2>2. Max(s) \in s
    BY <1>7, <2>1, <1>1, GreatestIn
  <2> QED
    BY <2>2
<1>8. \A s \in SUBSET (1 .. n) : g[s] = IF s = {} THEN 0 ELSE g[s \ {Max(s)}] + nodes[Max(s)].length
  <2> SUFFICES ASSUME NEW s \in SUBSET (1 .. n)
               PROVE  g[s] = IF s = {} THEN 0 ELSE g[s \ {Max(s)}] + nodes[Max(s)].length
    OBVIOUS
  <2>1. CASE s = {}
    BY <1>6, <2>1 DEF Folded
  <2>2. CASE s # {}
    <3>1. Max(s) \in 1 .. n /\ s \ {Max(s)} \in SUBSET (1 .. n)
      BY <1>7, <2>2
    <3>2. g[s \ {Max(s)}] \in Nat
      BY <3>1
    <3>3. g[s] = F[<<g[s \ {Max(s)}], Max(s)>>]
      BY <1>6, <2>2 DEF Folded
    <3> QED
      BY <1>3, <2>2, <3>1, <3>2, <3>3
  <2> QED
    BY <2>1, <2>2
<1>9. g = [s \in SUBSET DOMAIN nodes |-> IF s = {} THEN 0 ELSE g[s \ {Max(s)}] + nodes[Max(s)].length]
  BY <1>1, <1>8
<1> DEFINE h == SumsOf(nodes)
<1>10. h = [s \in SUBSET DOMAIN nodes |-> IF s = {} THEN 0 ELSE h[s \ {Max(s)}] + nodes[Max(s)].length]
  BY <1>9 DEF SumsOf
<1> HIDE DEF h
<1>11. \A s \in SUBSET (1 .. n) : h[s] = IF s = {} THEN 0 ELSE h[s \ {Max(s)}] + nodes[Max(s)].length
  BY <1>1, <1>10
<1>12. SumTo(nodes, 0) = 0
  <2>1. 1 .. 0 = {}
    OBVIOUS
  <2>2. h[{}] = 0
    BY <1>11
  <2> QED
    BY <2>1, <2>2 DEF SumTo, h
<1>13. ASSUME NEW k \in 1 .. n
       PROVE  SumTo(nodes, k) = SumTo(nodes, k - 1) + nodes[k].length
  <2>1. 1 .. k \in SUBSET (1 .. n) /\ 1 .. k # {} /\ 1 .. k \in SUBSET Nat /\ k \in 1 .. k
    <3>1. k \in Nat /\ 1 <= k /\ k <= n /\ n \in Nat
      BY <1>1
    <3>2. k \in 1 .. k
      BY <3>1
    <3>3. \A i \in 1 .. k : i \in 1 .. n /\ i \in Nat
      BY <3>1
    <3> QED
      BY <3>2, <3>3
  <2>2. Max(1 .. k) = k
    <3>1. \A i \in 1 .. k : i <= k
      BY <1>1
    <3> DEFINE S == 1 .. k
    <3>2. S \in SUBSET Nat /\ k \in S /\ \A i \in S : i <= k
      BY <2>1, <3>1
    <3> HIDE DEF S
    <3>3. Max(S) = k
      BY <3>2, GreatestIs
    <3> QED
      BY <3>3 DEF S
  <2>3. (1 .. k) \ {k} = 1 .. (k - 1)
    BY <1>1
  <2>4. h[1 .. k] = h[1 .. (k - 1)] + nodes[k].length
    BY <1>11, <2>1, <2>2, <2>3
  <2> QED
    BY <2>4 DEF SumTo, h
<1>14. \A k \in 0 .. n : SumTo(nodes, k) \in Nat
  <2> DEFINE Not == {k \in 0 .. n : SumTo(nodes, k) \notin Nat}
  <2>1. ASSUME Not # {} PROVE FALSE
    <3>1. Not \in SUBSET Nat
      BY <1>1
    <3> DEFINE m == Min(Not)
    <3>2. m \in Not /\ \A k \in Not : m <= k
      <4> HIDE DEF Not
      <4> QED
        BY <2>1, <3>1, LeastIn
    <3> HIDE DEF m
    <3>3. m \in 0 .. n /\ SumTo(nodes, m) \notin Nat /\ m # 0
      BY <1>12, <3>2
    <3>4. m \in 1 .. n /\ m - 1 \in 0 .. n /\ m - 1 < m
      BY <1>1, <3>3
    <3>5. SumTo(nodes, m - 1) \in Nat
      BY <3>2, <3>4
    <3> QED
      BY <1>2, <1>13, <3>3, <3>4, <3>5
  <2> QED
    BY <2>1
<1>15. Total(nodes) = SumTo(nodes, n)
  BY <1>1, TotalIs DEF SumTo
<1> QED
  BY <1>12, <1>13, <1>14, <1>15 DEF n

\* Parts of the same nodes have the same size.
SamePieces(s, t, a, b, n) ==
  /\ s \in Seq(AllNodes) /\ t \in Seq(AllNodes) /\ a \in Nat /\ b \in Nat /\ n \in Nat
  /\ a + n <= Len(s) /\ b + n <= Len(t) /\ \A k \in 1 .. n : s[a + k] = t[b + k]

LEMMA SameSums ==
  ASSUME NEW s, NEW t, NEW a, NEW b, NEW n, SamePieces(s, t, a, b, n)
  PROVE  SumTo(s, a + n) - SumTo(s, a) = SumTo(t, b + n) - SumTo(t, b)
<1> USE DEF SamePieces
<1> DEFINE Not == {k \in 0 .. n : SumTo(s, a + k) - SumTo(s, a) # SumTo(t, b + k) - SumTo(t, b)}
<1>1. Len(s) \in Nat /\ Len(t) \in Nat
  BY LenProperties
<1>2. \A k \in 0 .. Len(s) : SumTo(s, k) \in Nat
  BY SumFacts
<1>3. \A k \in 0 .. Len(t) : SumTo(t, k) \in Nat
  BY SumFacts
<1>4. ASSUME Not # {} PROVE FALSE
  <2> DEFINE m == Min(Not)
  <2>1. m \in Not /\ \A k \in Not : m <= k
    <3>1. Not \in SUBSET Nat
      OBVIOUS
    <3> HIDE DEF Not
    <3> QED
      BY <1>4, <3>1, LeastIn
  <2> HIDE DEF m
  <2>2. m \in 0 .. n /\ SumTo(s, a + m) - SumTo(s, a) # SumTo(t, b + m) - SumTo(t, b)
    BY <2>1
  <2>3. m # 0
    <3>1. a + 0 = a /\ b + 0 = b /\ SumTo(s, a) \in Nat /\ SumTo(t, b) \in Nat
      BY <1>1, <1>2, <1>3
    <3> QED
      BY <2>2, <3>1
  <2>4. m \in 1 .. n /\ m - 1 \in 0 .. n /\ m - 1 < m /\ a + (m - 1) = (a + m) - 1 /\ b + (m - 1) = (b + m) - 1
    BY <2>2, <2>3
  <2>5. SumTo(s, a + (m - 1)) - SumTo(s, a) = SumTo(t, b + (m - 1)) - SumTo(t, b)
    <3>1. m - 1 \notin Not
      <4>1. m - 1 \in Nat /\ m \in Nat /\ ~(m <= m - 1)
        BY <2>4
      <4> HIDE DEF Not
      <4> QED
        BY <2>1, <4>1
    <3> QED
      BY <2>4, <3>1
  <2>6. /\ a \in 0 .. Len(s) /\ a + (m - 1) \in 0 .. Len(s) /\ a + m \in 1 .. Len(s)
        /\ b \in 0 .. Len(t) /\ b + (m - 1) \in 0 .. Len(t) /\ b + m \in 1 .. Len(t)
    BY <1>1, <2>4
  <2>7. SumTo(s, a + m) = SumTo(s, (a + m) - 1) + s[a + m].length
    BY <2>6, SumFacts
  <2>8. SumTo(t, b + m) = SumTo(t, (b + m) - 1) + t[b + m].length
    BY <2>6, SumFacts
  <2>9. s[a + m] = t[b + m] /\ s[a + m] \in AllNodes
    BY <2>4, <2>6
  <2>10. s[a + m].length \in Nat
    BY <2>9, NodesAreWellFormed DEF IsNode
  <2> DEFINE x == SumTo(s, a + m)
             y == SumTo(s, (a + m) - 1)
             z == SumTo(s, a)
             u == SumTo(t, b + m)
             v == SumTo(t, (b + m) - 1)
             w == SumTo(t, b)
             l == s[a + m].length
  <2>11. y \in Nat /\ z \in Nat /\ v \in Nat /\ w \in Nat
    BY <1>2, <1>3, <2>4, <2>6
  <2>12. x = y + l /\ u = v + l /\ y - z = v - w /\ x - z # u - w /\ l \in Nat
    BY <2>2, <2>4, <2>5, <2>7, <2>8, <2>9, <2>10
  <2> HIDE DEF x, y, z, u, v, w, l
  <2> QED
    BY <2>11, <2>12
<1>5. n \in 0 .. n
  OBVIOUS
<1>6. n \notin Not
  <2> HIDE DEF Not
  <2> QED
    BY <1>4
<1> QED
  BY <1>5, <1>6

LEMMA TotalsAdd ==
  ASSUME NEW s \in Seq(AllNodes), NEW t \in Seq(AllNodes)
  PROVE  Total(s \o t) = Total(s) + Total(t) /\ Total(s) \in Nat /\ Total(t) \in Nat
<1> DEFINE r == s \o t
<1>1. /\ r \in Seq(AllNodes) /\ Len(r) = Len(s) + Len(t) /\ Len(s) \in Nat /\ Len(t) \in Nat
      /\ \A k \in 1 .. Len(s) + Len(t) : r[k] = IF k <= Len(s) THEN s[k] ELSE t[k - Len(s)]
  BY ConcatProperties, LenProperties
<1> HIDE DEF r
<1>2. \A k \in 1 .. Len(s) : r[0 + k] = s[0 + k]
  BY <1>1
<1>3. \A k \in 1 .. Len(t) : r[Len(s) + k] = t[0 + k]
  <2> SUFFICES ASSUME NEW k \in 1 .. Len(t) PROVE r[Len(s) + k] = t[0 + k]
    OBVIOUS
  <2>1. Len(s) + k \in 1 .. Len(s) + Len(t) /\ ~(Len(s) + k <= Len(s)) /\ (Len(s) + k) - Len(s) = 0 + k
    BY <1>1
  <2> QED
    BY <1>1, <2>1
<1>4. SumTo(r, 0 + Len(s)) - SumTo(r, 0) = SumTo(s, 0 + Len(s)) - SumTo(s, 0)
  <2>1. 0 \in Nat /\ 0 + Len(s) <= Len(r) /\ 0 + Len(s) <= Len(s)
    BY <1>1
  <2>2. SamePieces(r, s, 0, 0, Len(s))
    BY <1>1, <1>2, <2>1 DEF SamePieces
  <2> QED
    BY <2>2, SameSums
<1>5. SumTo(r, Len(s) + Len(t)) - SumTo(r, Len(s)) = SumTo(t, 0 + Len(t)) - SumTo(t, 0)
  <2>1. 0 \in Nat /\ Len(s) + Len(t) <= Len(r) /\ 0 + Len(t) <= Len(t)
    BY <1>1
  <2>2. SamePieces(r, t, Len(s), 0, Len(t))
    BY <1>1, <1>3, <2>1 DEF SamePieces
  <2> QED
    BY <2>2, SameSums
<1>6. /\ SumTo(r, 0) = 0 /\ SumTo(s, 0) = 0 /\ SumTo(t, 0) = 0 /\ Total(r) = SumTo(r, Len(r))
      /\ Total(s) = SumTo(s, Len(s)) /\ Total(t) = SumTo(t, Len(t))
  BY <1>1, SumFacts
<1>7. /\ SumTo(r, Len(r)) \in Nat /\ SumTo(r, Len(s)) \in Nat /\ SumTo(s, Len(s)) \in Nat
      /\ SumTo(t, Len(t)) \in Nat
  <2>1. Len(r) \in 0 .. Len(r) /\ Len(s) \in 0 .. Len(r) /\ Len(s) \in 0 .. Len(s) /\ Len(t) \in 0 .. Len(t)
    BY <1>1
  <2> QED
    BY <1>1, <2>1, SumFacts
<1>8. 0 + Len(s) = Len(s) /\ 0 + Len(t) = Len(t)
  BY <1>1
<1>9. Total(r) = Total(s) + Total(t)
  BY <1>1, <1>4, <1>5, <1>6, <1>7, <1>8
<1> QED
  BY <1>6, <1>7, <1>9 DEF r

LEMMA TotalOfOne ==
  ASSUME NEW x \in AllNodes
  PROVE  Total(<<x>>) = x.length
<1> DEFINE s == <<x>>
<1>1. s \in Seq(AllNodes) /\ Len(s) = 1 /\ s[1] = x
  OBVIOUS
<1> HIDE DEF s
<1>2. Total(s) = SumTo(s, 1) /\ SumTo(s, 0) = 0 /\ \A k \in 1 .. 1 : SumTo(s, k) = SumTo(s, k - 1) + s[k].length
  BY <1>1, SumFacts
<1>3. SumTo(s, 1) = SumTo(s, 1 - 1) + s[1].length /\ 1 - 1 = 0
  BY <1>2
<1>4. x.length \in Nat
  BY NodesAreWellFormed DEF IsNode
<1> QED
  BY <1>1, <1>2, <1>3, <1>4 DEF s

\* A path of one instance is extended within what was allocated.
LEMMA Fits ==
  ASSUME NEW p \in PathSeq, NEW q \in PathSeq, Len(InstancesOf(p)) = 1
  PROVE  Total(AppendDevicePath(p, q)) = PathAllocated(p, q) /\ Total(AppendDevicePath(p, q)) \in Nat
<1> DEFINE i == InstancesOf(p)[1]
           r == Reachable(q)
           j == Front(r)
           e == <<EndDevicePath>>
<1>1. AppendDevicePath(p, q) = (i \o r) \o e
  BY AppendedPath
<1>2. i = SubSeq(p, 1, EndOf(p) - 1)
  BY InstanceFacts
<1>3. /\ EndOf(p) \in 1 .. Len(p) /\ Reachable(p) \in PathSeq /\ Len(Reachable(p)) = EndOf(p)
      /\ \A k \in 1 .. EndOf(p) : Reachable(p)[k] = p[k]
  BY ReachableFacts
<1>4. /\ EndOf(q) \in 1 .. Len(q) /\ q[EndOf(q)] = EndDevicePath /\ r \in PathSeq /\ Len(r) = EndOf(q)
      /\ \A k \in 1 .. EndOf(q) : r[k] = q[k]
  BY ReachableFacts
<1>5. Front(Reachable(p)) = i /\ i \in Seq(AllNodes)
  <2> DEFINE s == Reachable(p)
             n == EndOf(p)
  <2>1. s \in Seq(AllNodes) /\ p \in Seq(AllNodes) /\ Len(s) = n /\ n \in Nat \ {0}
          /\ n <= Len(p) /\ Len(p) \in Nat
        /\ \A k \in 1 .. n : s[k] = p[k]
    BY <1>3, PathFacts
  <2> HIDE DEF s, n
  <2>2. (1 + (n - 1)) - 1 = n - 1
    BY <2>1
  <2>3. SamePart(s, 1, p, 1, n - 1)
    <3>1. \A k \in 0 .. (n - 1) - 1 : s[1 + k] = p[1 + k]
      BY <2>1
    <3>2. 1 \in 1 .. Len(s) /\ 1 \in 1 .. Len(p) /\ n - 1 \in Nat
      BY <2>1
    <3> QED
      BY <2>1, <3>1, <3>2 DEF SamePart
  <2>4. PartOf(s, 1, n - 1) = PartOf(p, 1, n - 1)
    BY <2>3, SameSubSeq
  <2>5. SubSeq(s, 1, n - 1) = SubSeq(p, 1, n - 1)
    BY <2>2, <2>4 DEF PartOf
  <2>6. SubSeq(p, 1, n - 1) \in Seq(AllNodes)
    BY <2>1, SubSeqProperties
  <2> QED
    BY <1>2, <2>1, <2>5, <2>6 DEF Front, s, n
<1>6. r = j \o e /\ j \in Seq(AllNodes)
  <2>1. r \in Seq(AllNodes) /\ r # << >> /\ r[Len(r)] = EndDevicePath
    BY <1>4 DEF PathSeq
  <2> HIDE DEF r
  <2>2. /\ j \in Seq(AllNodes) /\ Len(j) = Len(r) - 1 /\ Len(r) \in Nat \ {0}
        /\ \A k \in 1 .. Len(r) - 1 : j[k] = r[k]
    <3>1. Len(r) \in Nat \ {0}
      BY <2>1, EmptySeq, LenProperties
    <3>2. Len(r) - 1 = (Len(r) - 1) - 1 + 1 /\ \A k \in 1 .. Len(r) - 1 : k \in 1 .. Len(r)
      BY <3>1
    <3>3. /\ SubSeq(r, 1, Len(r) - 1) \in Seq(AllNodes) /\ Len(SubSeq(r, 1, Len(r) - 1)) = Len(r) - 1
          /\ \A k \in 1 .. Len(r) - 1 : SubSeq(r, 1, Len(r) - 1)[k] = r[1 + k - 1]
      BY <2>1, <3>1, <3>2, SubSeqProperties
    <3>4. \A k \in 1 .. Len(r) - 1 : 1 + k - 1 = k
      BY <3>1
    <3> QED
      BY <3>1, <3>3, <3>4 DEF Front
  <2>3. j \o e = r
    <3> DEFINE w == j \o e
    <3>1. e \in Seq(AllNodes) /\ Len(e) = 1 /\ e[1] = EndDevicePath
      BY EndNodes
    <3> HIDE DEF j, e
    <3>2. /\ w \in Seq(AllNodes) /\ Len(w) = Len(j) + Len(e)
          /\ \A k \in 1 .. Len(j) + Len(e) : w[k] = IF k <= Len(j) THEN j[k] ELSE e[k - Len(j)]
      BY <2>2, <3>1, ConcatProperties
    <3> HIDE DEF w
    <3>3. Len(w) = Len(r) /\ \A k \in 1 .. Len(w) : w[k] = r[k]
      <4>1. Len(w) = Len(r)
        BY <2>2, <3>1, <3>2
      <4>2. ASSUME NEW k \in 1 .. Len(w) PROVE w[k] = r[k]
        <5>1. CASE k <= Len(j)
          BY <2>2, <3>1, <3>2, <5>1
        <5>2. CASE ~(k <= Len(j))
          <6>1. k = Len(r) /\ k - Len(j) = 1
            BY <2>2, <3>1, <3>2, <5>2
          <6> QED
            BY <2>1, <2>2, <3>1, <3>2, <5>2, <6>1
        <5> QED
          BY <5>1, <5>2
      <4> QED
        BY <4>1, <4>2
    <3>4. w = r
      BY <2>1, <3>2, <3>3, SeqEqual
    <3> QED
      BY <3>4 DEF w
  <2> QED
    BY <2>2, <2>3
<1>7. e \in Seq(AllNodes) /\ Total(e) = 4 /\ EndDevicePath.length = 4
  BY EndNodes, TotalOfOne
<1> HIDE DEF i, j, e, r
<1>8. /\ Total(r) = Total(j) + 4 /\ Total(j) \in Nat
  BY <1>6, <1>7, TotalsAdd
<1>9. Total(i \o r) = Total(i) + Total(r) /\ Total(i) \in Nat /\ i \o r \in Seq(AllNodes)
  BY <1>4, <1>5, TotalsAdd, ConcatProperties DEF PathSeq
<1>10. Total((i \o r) \o e) = Total(i \o r) + 4
  BY <1>7, <1>9, TotalsAdd
<1>11. DevicePathSize(p) = Total(i) + 4 /\ DevicePathSize(q) = Total(j) + 4
  BY <1>5, <1>7 DEF DevicePathSize, j, r
<1>12. PathAllocated(p, q) = (Total(i) + 4) + (Total(j) + 4)
  BY <1>8, <1>9, <1>11 DEF PathAllocated, DevicePathInstanceCount
<1> QED
  BY <1>1, <1>8, <1>9, <1>10, <1>12


-------------------------------------------------------------------------------
(***************************************************************************)
(* The bytes of a node's fields, in whatever order they are added up.      *)
(***************************************************************************)
BytesIn(fields) ==
  CHOOSE iter : iter = [s \in SUBSET DOMAIN fields |->
                          IF s = {} THEN 0
                          ELSE LET x == CHOOSE x \in s : TRUE IN fields[x] + iter[s \ {x}]]

LEMMA BytesAre == \A fields : BytesOf(fields) = BytesIn(fields)[DOMAIN fields]
BY Zenon DEF BytesOf, MapThenSumSet, MapThenFoldSet, BytesIn

Adds(fields, sums) ==
  /\ sums \in [SUBSET DOMAIN fields -> Nat] /\ sums[{}] = 0
  /\ \A s \in SUBSET DOMAIN fields : \A x \in s : sums[s] = fields[x] + sums[s \ {x}]

LEMMA BytesAddUp ==
  ASSUME NEW fields, NEW sums, Adds(fields, sums), IsFiniteSet(DOMAIN fields)
  PROVE  BytesOf(fields) = sums[DOMAIN fields]
<1> DEFINE S == DOMAIN fields
           h == BytesIn(fields)
<1>1. /\ sums \in [SUBSET S -> Nat] /\ sums[{}] = 0
      /\ \A s \in SUBSET S : \A x \in s : sums[s] = fields[x] + sums[s \ {x}]
  BY DEF Adds
<1>2. sums = [s \in SUBSET S |-> IF s = {} THEN 0
                                 ELSE LET x == CHOOSE x \in s : TRUE IN fields[x] + sums[s \ {x}]]
  <2>1. ASSUME NEW s \in SUBSET S
        PROVE  sums[s] = IF s = {} THEN 0 ELSE LET x == CHOOSE x \in s : TRUE IN fields[x] + sums[s \ {x}]
    <3>1. CASE s = {}
      BY <1>1, <3>1
    <3>2. CASE s # {}
      <4> DEFINE y == CHOOSE x \in s : TRUE
      <4>1. y \in s
        BY <3>2
      <4> HIDE DEF y
      <4>2. sums[s] = fields[y] + sums[s \ {y}]
        BY <1>1, <4>1
      <4> QED
        BY <3>2, <4>2 DEF y
    <3> QED
      BY <3>1, <3>2
  <2> QED
    BY <1>1, <2>1
<1>3. h = [s \in SUBSET S |-> IF s = {} THEN 0
                              ELSE LET x == CHOOSE x \in s : TRUE IN fields[x] + h[s \ {x}]]
  BY <1>2, Zenon DEF BytesIn
<1> HIDE DEF h
<1> DEFINE Not == {s \in SUBSET S : h[s] # sums[s]}
           Sizes == {Cardinality(s) : s \in Not}
<1>4. ASSUME Not # {} PROVE FALSE
  <2>1. Sizes \in SUBSET Nat /\ Sizes # {}
    <3>1. \A s \in SUBSET S : Cardinality(s) \in Nat
      BY FS_Subset, FS_CardinalityType
    <3> QED
      BY <1>4, <3>1
  <2> DEFINE n == Min(Sizes)
  <2>2. n \in Sizes /\ \A k \in Sizes : n <= k
    <3> HIDE DEF Sizes
    <3> QED
      BY <2>1, LeastIn
  <2> HIDE DEF n
  <2>3. PICK s \in Not : n = Cardinality(s)
    BY <2>2
  <2>4. s \in SUBSET S /\ h[s] # sums[s]
    OBVIOUS
  <2>5. CASE s = {}
    BY <1>1, <1>3, <2>4, <2>5
  <2>6. CASE s # {}
    <3> DEFINE y == CHOOSE x \in s : TRUE
    <3>1. y \in s
      BY <2>6
    <3>2. h[s] = fields[y] + h[s \ {y}]
      BY <1>3, <2>4, <2>6
    <3> HIDE DEF y
    <3>3. sums[s] = fields[y] + sums[s \ {y}]
      BY <1>1, <2>4, <3>1
    <3>4. h[s \ {y}] # sums[s \ {y}]
      BY <2>4, <3>2, <3>3
    <3>5. s \ {y} \in Not
      BY <2>4, <3>4
    <3>6. Cardinality(s \ {y}) \in Sizes
      <4> HIDE DEF Not
      <4> QED
        BY <3>5
    <3>7. Cardinality(s \ {y}) = Cardinality(s) - 1 /\ Cardinality(s) \in Nat
      BY <2>4, <3>1, FS_Subset, FS_RemoveElement, FS_CardinalityType
    <3> QED
      BY <2>2, <2>3, <3>6, <3>7
  <2> QED
    BY <2>5, <2>6
<1>5. S \in SUBSET S /\ S \notin Not
  <2> HIDE DEF Not
  <2> QED
    BY <1>4
<1>6. h[S] = sums[S]
  BY <1>5
<1> QED
  BY <1>6, BytesAre DEF h


IPv4Fields ==
  [LocalIpAddress |-> 4, RemoteIpAddress |-> 4, LocalPort |-> 2, RemotePort |-> 2,
   Protocol |-> 2, StaticIpAddress |-> 1, GatewayIpAddress |-> 4, SubnetMask |-> 4]
IPv6Fields ==
  [LocalIpAddress |-> 16, RemoteIpAddress |-> 16, LocalPort |-> 2, RemotePort |-> 2,
   Protocol |-> 2, IPAddressOrigin |-> 1, PrefixLength |-> 1, GatewayIpAddress |-> 16]

LEMMA Tables ==
  /\ "msg" \in DOMAIN NodeTypes
  /\ "ipv4" \in DOMAIN NodeTypes["msg"] /\ NodeTypes["msg"]["ipv4"] = IPv4Fields
  /\ "ipv6" \in DOMAIN NodeTypes["msg"] /\ NodeTypes["msg"]["ipv6"] = IPv6Fields
<1>1. /\ "msg" \in DOMAIN NodeTypes
      /\ NodeTypes["msg"] = [sub \in (DOMAIN BusTypes) \union DOMAIN NetworkTypes |->
                               IF sub \in DOMAIN BusTypes THEN BusTypes[sub] ELSE NetworkTypes[sub]]
  BY DEF NodeTypes
<1>2. "ipv4" \notin DOMAIN BusTypes /\ "ipv6" \notin DOMAIN BusTypes
  BY DEF BusTypes
<1>3. /\ "ipv4" \in DOMAIN NetworkTypes /\ NetworkTypes["ipv4"] = IPv4Fields
      /\ "ipv6" \in DOMAIN NetworkTypes /\ NetworkTypes["ipv6"] = IPv6Fields
  BY DEF NetworkTypes, IPv4Fields, IPv6Fields
<1> QED
  BY <1>1, <1>2, <1>3

\* The sum of the fields in a set, and finite many of them.
Part(fields, S) == [x \in S |-> fields[x]]
Summed(fields, S, n) ==
  /\ IsFiniteSet(S) /\ n \in Nat /\ \A x \in S : fields[x] \in Nat
  /\ \E sums : Adds(Part(fields, S), sums) /\ sums[S] = n

LEMMA NoneSummed == \A fields : Summed(fields, {}, 0)
<1> SUFFICES ASSUME NEW fields PROVE Summed(fields, {}, 0)
  OBVIOUS
<1> DEFINE sums == [s \in SUBSET {} |-> 0]
<1>1. DOMAIN Part(fields, {}) = {}
  BY DEF Part
<1>2. sums \in [SUBSET {} -> Nat] /\ sums[{}] = 0
  OBVIOUS
<1> HIDE DEF sums
<1>3. Adds(Part(fields, {}), sums)
  BY <1>1, <1>2 DEF Adds
<1> QED
  BY <1>2, <1>3, FS_EmptySet DEF Summed

LEMMA OneMore ==
  ASSUME NEW fields, NEW S, NEW n, Summed(fields, S, n), NEW x, x \notin S, fields[x] \in Nat
  PROVE  Summed(fields, S \union {x}, n + fields[x])
<1> DEFINE T == S \union {x}
           k == fields[x]
<1>1. IsFiniteSet(S) /\ n \in Nat /\ \A y \in S : fields[y] \in Nat
  BY DEF Summed
<1>2. PICK g : Adds(Part(fields, S), g) /\ g[S] = n
  BY DEF Summed
<1>3. /\ g \in [SUBSET S -> Nat] /\ g[{}] = 0
      /\ \A s \in SUBSET S : \A y \in s : g[s] = fields[y] + g[s \ {y}]
  BY <1>2 DEF Adds, Part
<1> DEFINE h == [s \in SUBSET T |-> IF x \in s THEN k + g[s \ {x}] ELSE g[s]]
<1>4. \A s \in SUBSET T : h[s] = (IF x \in s THEN k + g[s \ {x}] ELSE g[s]) /\ s \ {x} \in SUBSET S
                            /\ (x \notin s => s \in SUBSET S)
  OBVIOUS
<1>5. h \in [SUBSET T -> Nat]
  <2> SUFFICES ASSUME NEW s \in SUBSET T PROVE (IF x \in s THEN k + g[s \ {x}] ELSE g[s]) \in Nat
    OBVIOUS
  <2>1. CASE x \in s
    <3>1. g[s \ {x}] \in Nat
      BY <1>3
    <3> QED
      BY <2>1, <3>1
  <2>2. CASE x \notin s
    <3>1. g[s] \in Nat
      BY <1>3, <2>2
    <3> QED
      BY <2>2, <3>1
  <2> QED
    BY <2>1, <2>2
<1> HIDE DEF h
<1>6. h[{}] = 0
  BY <1>3, <1>4
<1>7. ASSUME NEW s \in SUBSET T, NEW y \in s
      PROVE  h[s] = fields[y] + h[s \ {y}]
  <2>1. s \ {y} \in SUBSET T
    OBVIOUS
  <2>2. CASE y = x
    <3>1. h[s] = k + g[s \ {x}]
      BY <1>4, <2>2
    <3>2. h[s \ {y}] = g[s \ {x}]
      BY <1>4, <2>1, <2>2
    <3> QED
      BY <2>2, <3>1, <3>2
  <2>3. CASE y # x /\ x \in s
    <3> DEFINE a == g[s \ {x}]
               b == g[(s \ {y}) \ {x}]
               l == fields[y]
    <3>1. h[s] = k + a
      BY <1>4, <2>3
    <3>2. h[s \ {y}] = k + b
      BY <1>4, <2>1, <2>3
    <3>3. s \ {x} \in SUBSET S /\ y \in s \ {x} /\ (s \ {x}) \ {y} = (s \ {y}) \ {x}
      BY <2>3
    <3>4. a = l + b
      BY <1>3, <3>3
    <3>5. a \in Nat /\ b \in Nat
      BY <1>3
    <3>6. k + a = l + (k + b)
      <4>1. k \in Nat /\ l \in Nat
        BY <1>1, <3>3
      <4> HIDE DEF a, b, k, l
      <4> QED
        BY <3>4, <3>5, <4>1
    <3> QED
      BY <3>1, <3>2, <3>6
  <2>4. CASE x \notin s
    <3>1. s \in SUBSET S /\ h[s] = g[s] /\ h[s \ {y}] = g[s \ {y}]
      BY <1>4, <2>1, <2>4
    <3> QED
      BY <1>3, <3>1
  <2> QED
    BY <2>2, <2>3, <2>4
<1>8. Adds(Part(fields, T), h)
  BY <1>5, <1>6, <1>7 DEF Adds, Part
<1>9. h[T] = n + k
  <2>1. T \in SUBSET T /\ x \in T /\ T \ {x} = S
    OBVIOUS
  <2>2. h[T] = k + g[T \ {x}] /\ k \in Nat
    BY <1>4, <2>1
  <2>3. h[T] = k + n
    BY <1>2, <2>1, <2>2
  <2> QED
    BY <1>1, <2>2, <2>3
<1>10. IsFiniteSet(T) /\ n + k \in Nat /\ \A y \in T : fields[y] \in Nat
  BY <1>1, FS_AddElement
<1> QED
  BY <1>8, <1>9, <1>10 DEF Summed

More(fields, S, n, x, T, m) ==
  Summed(fields, S, n) /\ x \notin S /\ fields[x] \in Nat /\ T = S \union {x} /\ m = n + fields[x]

LEMMA MoreSummed ==
  ASSUME NEW fields, NEW S, NEW n, NEW x, NEW T, NEW m, More(fields, S, n, x, T, m)
  PROVE  Summed(fields, T, m)
BY OneMore DEF More

LEMMA BytesAreSummed ==
  ASSUME NEW fields, NEW S, fields = Part(fields, S), NEW n, Summed(fields, S, n)
  PROVE  BytesOf(fields) = n
<1>1. IsFiniteSet(S) /\ \E sums : Adds(fields, sums) /\ sums[S] = n
  BY DEF Summed
<1>2. PICK sums : Adds(fields, sums) /\ sums[S] = n
  BY <1>1
<1>3. DOMAIN fields = S
  BY DEF Part
<1> QED
  BY <1>1, <1>2, <1>3, BytesAddUp

LEMMA IPv4Bytes == BytesOf(IPv4Fields) = 23
<1> DEFINE s1 == {"LocalIpAddress"}
           s2 == s1 \union {"RemoteIpAddress"}
           s3 == s2 \union {"LocalPort"}
           s4 == s3 \union {"RemotePort"}
           s5 == s4 \union {"Protocol"}
           s6 == s5 \union {"StaticIpAddress"}
           s7 == s6 \union {"GatewayIpAddress"}
           s8 == s7 \union {"SubnetMask"}
<1>0. Summed(IPv4Fields, {}, 0)
  BY NoneSummed
<1>1. Summed(IPv4Fields, s1, 4)
  <2>1. More(IPv4Fields, {}, 0, "LocalIpAddress", s1, 4)
    BY <1>0 DEF More, IPv4Fields
  <2> QED
    BY <2>1, MoreSummed
<1>2. Summed(IPv4Fields, s2, 8)
  <2>1. More(IPv4Fields, s1, 4, "RemoteIpAddress", s2, 8)
    BY <1>1 DEF More, IPv4Fields
  <2> QED
    BY <2>1, MoreSummed
<1>3. Summed(IPv4Fields, s3, 10)
  <2>1. More(IPv4Fields, s2, 8, "LocalPort", s3, 10)
    BY <1>2 DEF More, IPv4Fields
  <2> QED
    BY <2>1, MoreSummed
<1>4. Summed(IPv4Fields, s4, 12)
  <2>1. More(IPv4Fields, s3, 10, "RemotePort", s4, 12)
    BY <1>3 DEF More, IPv4Fields
  <2> QED
    BY <2>1, MoreSummed
<1>5. Summed(IPv4Fields, s5, 14)
  <2>1. More(IPv4Fields, s4, 12, "Protocol", s5, 14)
    BY <1>4 DEF More, IPv4Fields
  <2> QED
    BY <2>1, MoreSummed
<1>6. Summed(IPv4Fields, s6, 15)
  <2>1. More(IPv4Fields, s5, 14, "StaticIpAddress", s6, 15)
    BY <1>5 DEF More, IPv4Fields
  <2> QED
    BY <2>1, MoreSummed
<1>7. Summed(IPv4Fields, s7, 19)
  <2>1. More(IPv4Fields, s6, 15, "GatewayIpAddress", s7, 19)
    BY <1>6 DEF More, IPv4Fields
  <2> QED
    BY <2>1, MoreSummed
<1>8. Summed(IPv4Fields, s8, 23)
  <2>1. More(IPv4Fields, s7, 19, "SubnetMask", s8, 23)
    BY <1>7 DEF More, IPv4Fields
  <2> QED
    BY <2>1, MoreSummed
<1> QED
  BY <1>8, BytesAreSummed DEF IPv4Fields, Part

LEMMA IPv6Bytes == BytesOf(IPv6Fields) = 56
<1> DEFINE s1 == {"LocalIpAddress"}
           s2 == s1 \union {"RemoteIpAddress"}
           s3 == s2 \union {"LocalPort"}
           s4 == s3 \union {"RemotePort"}
           s5 == s4 \union {"Protocol"}
           s6 == s5 \union {"IPAddressOrigin"}
           s7 == s6 \union {"PrefixLength"}
           s8 == s7 \union {"GatewayIpAddress"}
<1>0. Summed(IPv6Fields, {}, 0)
  BY NoneSummed
<1>1. Summed(IPv6Fields, s1, 16)
  <2>1. More(IPv6Fields, {}, 0, "LocalIpAddress", s1, 16)
    BY <1>0 DEF More, IPv6Fields
  <2> QED
    BY <2>1, MoreSummed
<1>2. Summed(IPv6Fields, s2, 32)
  <2>1. More(IPv6Fields, s1, 16, "RemoteIpAddress", s2, 32)
    BY <1>1 DEF More, IPv6Fields
  <2> QED
    BY <2>1, MoreSummed
<1>3. Summed(IPv6Fields, s3, 34)
  <2>1. More(IPv6Fields, s2, 32, "LocalPort", s3, 34)
    BY <1>2 DEF More, IPv6Fields
  <2> QED
    BY <2>1, MoreSummed
<1>4. Summed(IPv6Fields, s4, 36)
  <2>1. More(IPv6Fields, s3, 34, "RemotePort", s4, 36)
    BY <1>3 DEF More, IPv6Fields
  <2> QED
    BY <2>1, MoreSummed
<1>5. Summed(IPv6Fields, s5, 38)
  <2>1. More(IPv6Fields, s4, 36, "Protocol", s5, 38)
    BY <1>4 DEF More, IPv6Fields
  <2> QED
    BY <2>1, MoreSummed
<1>6. Summed(IPv6Fields, s6, 39)
  <2>1. More(IPv6Fields, s5, 38, "IPAddressOrigin", s6, 39)
    BY <1>5 DEF More, IPv6Fields
  <2> QED
    BY <2>1, MoreSummed
<1>7. Summed(IPv6Fields, s7, 40)
  <2>1. More(IPv6Fields, s6, 39, "PrefixLength", s7, 40)
    BY <1>6 DEF More, IPv6Fields
  <2> QED
    BY <2>1, MoreSummed
<1>8. Summed(IPv6Fields, s8, 56)
  <2>1. More(IPv6Fields, s7, 40, "GatewayIpAddress", s8, 56)
    BY <1>7 DEF More, IPv6Fields
  <2> QED
    BY <2>1, MoreSummed
<1> QED
  BY <1>8, BytesAreSummed DEF IPv6Fields, Part

IPv4Optional == Part(IPv4Fields, {"GatewayIpAddress", "SubnetMask"})
IPv6Optional == Part(IPv6Fields, {"PrefixLength", "GatewayIpAddress"})

LEMMA IPv4OptionalBytes == BytesOf(IPv4Optional) = 8
<1> DEFINE s1 == {"GatewayIpAddress"}
           s2 == s1 \union {"SubnetMask"}
<1>0. Summed(IPv4Optional, {}, 0)
  BY NoneSummed
<1>1. Summed(IPv4Optional, s1, 4)
  <2>1. More(IPv4Optional, {}, 0, "GatewayIpAddress", s1, 4)
    BY <1>0 DEF More, IPv4Optional, IPv4Fields, Part
  <2> QED
    BY <2>1, MoreSummed
<1>2. Summed(IPv4Optional, s2, 8)
  <2>1. More(IPv4Optional, s1, 4, "SubnetMask", s2, 8)
    BY <1>1 DEF More, IPv4Optional, IPv4Fields, Part
  <2> QED
    BY <2>1, MoreSummed
<1> QED
  BY <1>2, BytesAreSummed DEF IPv4Optional, IPv4Fields, Part

LEMMA IPv6OptionalBytes == BytesOf(IPv6Optional) = 17
<1> DEFINE s1 == {"PrefixLength"}
           s2 == s1 \union {"GatewayIpAddress"}
<1>0. Summed(IPv6Optional, {}, 0)
  BY NoneSummed
<1>1. Summed(IPv6Optional, s1, 1)
  <2>1. More(IPv6Optional, {}, 0, "PrefixLength", s1, 1)
    BY <1>0 DEF More, IPv6Optional, IPv6Fields, Part
  <2> QED
    BY <2>1, MoreSummed
<1>2. Summed(IPv6Optional, s2, 17)
  <2>1. More(IPv6Optional, s1, 1, "GatewayIpAddress", s2, 17)
    BY <1>1 DEF More, IPv6Optional, IPv6Fields, Part
  <2> QED
    BY <2>1, MoreSummed
<1> QED
  BY <1>2, BytesAreSummed DEF IPv6Optional, IPv6Fields, Part

LEMMA AddressLengths ==
  /\ LengthOf("msg", "ipv4") = 27 /\ IPv4Length = 28
  /\ LengthOf("msg", "ipv6") = 60 /\ IPv6Length = 60
<1>1. LengthOf("msg", "ipv4") = 27 /\ LengthOf("msg", "ipv6") = 60
  BY Tables, IPv4Bytes, IPv6Bytes DEF LengthOf, EndDevicePath, NodeOf
<1> QED
  BY <1>1 DEF IPv4Length, IPv6Length, Even

LEMMA LengthsOfAddresses ==
  ASSUME NEW node, node.type = "msg", WellFormed(node)
  PROVE  /\ node.sub = "ipv4" => node.length \in {27, 19}
         /\ node.sub = "ipv6" => node.length \in {60, 43}
<1>1. EndDevicePath.length = 4
  BY DEF EndDevicePath, NodeOf
<1>2. ASSUME node.sub = "ipv4" PROVE node.length \in {27, 19}
  <2>1. Described(node) /\ Structure(node) = IPv4Fields
    BY <1>2, Tables DEF Described, Structure, UnknownVendor
  <2>2. node.length \in LengthsOf(node)
    BY <2>1 DEF WellFormed, IsDevicePathEndType
  <2>3. /\ node.sub \notin OpenEnded /\ node.sub \in DOMAIN Optional
        /\ Optional[node.sub] = {"GatewayIpAddress", "SubnetMask"}
    BY <1>2 DEF OpenEnded, Optional
  <2>4. [name \in Optional[node.sub] |-> IPv4Fields[name]] = IPv4Optional
    BY <2>3 DEF IPv4Optional, Part
  <2>5. LengthsOf(node) = {4 + 23, (4 + 23) - 8}
    BY <1>1, <2>1, <2>3, <2>4, IPv4Bytes, IPv4OptionalBytes DEF LengthsOf
  <2> QED
    BY <2>2, <2>5
<1>3. ASSUME node.sub = "ipv6" PROVE node.length \in {60, 43}
  <2>1. Described(node) /\ Structure(node) = IPv6Fields
    BY <1>3, Tables DEF Described, Structure, UnknownVendor
  <2>2. node.length \in LengthsOf(node)
    BY <2>1 DEF WellFormed, IsDevicePathEndType
  <2>3. /\ node.sub \notin OpenEnded /\ node.sub \in DOMAIN Optional
        /\ Optional[node.sub] = {"PrefixLength", "GatewayIpAddress"}
    BY <1>3 DEF OpenEnded, Optional
  <2>4. [name \in Optional[node.sub] |-> IPv6Fields[name]] = IPv6Optional
    BY <2>3 DEF IPv6Optional, Part
  <2>5. LengthsOf(node) = {4 + 56, (4 + 56) - 17}
    BY <1>1, <2>1, <2>3, <2>4, IPv6Bytes, IPv6OptionalBytes DEF LengthsOf
  <2> QED
    BY <2>2, <2>5
<1> QED
  BY <1>2, <1>3

-------------------------------------------------------------------------------
(***************************************************************************)
(* What is shown of a node.                                                *)
(***************************************************************************)
KindOf(node) == <<node.type, node.sub>>
SameKind(a, b) == a.type = b.type /\ a.sub = b.sub /\ a.fields = b.fields
ShownAlike(a, b) ==
  /\ SameKind(a, b)
  /\ KindOf(a) = <<"msg", "mac">> => a.length = b.length
  /\ KindOf(a) = <<"msg", "ipv4">> => (a.length = IPv4Length <=> b.length = IPv4Length)
  /\ KindOf(a) = <<"msg", "ipv6">> => (a.length = IPv6Length <=> b.length = IPv6Length)
  /\ KindOf(a) \notin {<<"msg", "ipv4">>, <<"msg", "ipv6">>} => NodeText(a) # _DevPathNodeUnknown(a)

\* Of nodes that have a text of their own, the kind and the fields say what is shown, but
\* for addresses.
LEMMA SameText ==
  ASSUME NEW a, NEW b, ShownAlike(a, b)
  PROVE  NodeText(a) = NodeText(b)
<1> DEFINE of == <<a.type, a.sub>>
           f == a.fields
<1>1. /\ KindOf(a) = of /\ KindOf(b) = of /\ <<b.type, b.sub>> = of /\ b.fields = f
      /\ a.type = b.type /\ a.sub = b.sub /\ \A names : Fields(a, names) = Fields(b, names)
  BY Zenon DEF SameKind, KindOf, Fields, ShownAlike
<1>3. CASE of = <<"acpi", "acpi">>
  BY SMT, <1>1, <1>3 DEF NodeText
<1>4. of = <<"msg", "mac">> => _DevPathMacAddr(f, a.length) = _DevPathMacAddr(f, b.length)
  BY <1>1 DEF ShownAlike
<1>5. of = <<"msg", "ipv4">> => _DevPathIPv4(f, a.length) = _DevPathIPv4(f, b.length)
  BY <1>1, Zenon DEF ShownAlike, _DevPathIPv4
<1>6. of = <<"msg", "ipv6">> => _DevPathIPv6(f, a.length) = _DevPathIPv6(f, b.length)
  BY <1>1, Zenon DEF ShownAlike, _DevPathIPv6
<1>7. of \notin {<<"msg", "ipv4">>, <<"msg", "ipv6">>} => NodeText(a) # _DevPathNodeUnknown(a)
  BY <1>1 DEF ShownAlike
<1>2. CASE of \in DOMAIN Plain
  BY SMT, <1>1, <1>2, <1>4, <1>5, <1>6 DEF NodeText
<1>8. CASE of \in {<<"msg", "mac">>, <<"msg", "ipv4">>, <<"msg", "ipv6">>}
  BY <1>1, <1>2, <1>4, <1>5, <1>6, <1>8 DEF NodeText
<1>9. CASE of \notin {<<"msg", "mac">>, <<"msg", "ipv4">>, <<"msg", "ipv6">>}
  BY <1>1, <1>2, <1>3, <1>7, <1>9 DEF NodeText
<1> QED
  BY <1>8, <1>9

LEMMA RoundedLengths ==
  /\ \A n \in {27, 19} : Rounded(n) = IPv4Length <=> n = 27 /\ MinAlignment = 4
  /\ MinAlignment = 4 => \A n \in {60, 43} : Rounded(n) = IPv6Length <=> n = IPv6Length
  /\ MinAlignment # 4 => \A n \in {60, 43} : Rounded(n) # IPv6Length
<1>1. CASE MinAlignment = 4
  <2>1. Rounded(27) = 28 /\ Rounded(19) = 20 /\ Rounded(60) = 60 /\ Rounded(43) = 44
    BY <1>1 DEF Rounded
  <2> QED
    BY <1>1, <2>1, AddressLengths
<1>2. CASE MinAlignment = 8
  <2>1. Rounded(27) = 32 /\ Rounded(19) = 24 /\ Rounded(60) = 64 /\ Rounded(43) = 48
    BY <1>2 DEF Rounded
  <2> QED
    BY <1>2, <2>1, AddressLengths
<1> QED
  BY <1>1, <1>2, PathsAssumption

\* What an unpacked node shows is what the caller's does, as ShownOf says.
LEMMA UnpackedShows ==
  ASSUME NEW node, IsNode(node), node.type = "msg" => WellFormed(node)
  PROVE  NodeText(Unpacked(node)) = ShownOf(node)
<1> DEFINE u == Unpacked(node)
           n == node.length
<1>1. /\ u.type = node.type /\ u.sub = node.sub /\ u.fields = node.fields /\ u.length = Rounded(n)
      /\ SameKind(u, node)
  BY DEF Unpacked, IsNode, SameKind
<1>2. \A l : LET v == [node EXCEPT !.length = l] IN
               v.type = node.type /\ v.sub = node.sub /\ v.fields = node.fields /\ v.length = l
  BY DEF IsNode
<1> HIDE DEF u
<1>3. CASE KindOf(node) = <<"msg", "ipv4">>
  <2> DEFINE l == IF n = LengthOf("msg", "ipv4") /\ MinAlignment = 4 THEN IPv4Length ELSE 0
             v == [node EXCEPT !.length = IF @ = LengthOf("msg", "ipv4") /\ MinAlignment = 4
                                          THEN IPv4Length ELSE 0]
  <2>1. ShownOf(node) = NodeText(v)
    BY <1>3, Zenon DEF ShownOf, KindOf
  <2>2. node.type = "msg" /\ node.sub = "ipv4" /\ n \in {27, 19}
    BY <1>3, LengthsOfAddresses DEF KindOf
  <2>3. (l = IPv4Length) <=> (Rounded(n) = IPv4Length)
    BY <2>2, RoundedLengths, AddressLengths
  <2>4. v.type = node.type /\ v.sub = node.sub /\ v.fields = node.fields /\ v.length = l
    BY DEF IsNode
  <2> HIDE DEF v, l
  <2>5. ShownAlike(u, v)
    BY <1>1, <1>3, <2>3, <2>4 DEF ShownAlike, SameKind, KindOf
  <2> QED
    BY <2>1, <2>5, SameText DEF u
<1>4. CASE KindOf(node) = <<"msg", "ipv6">> /\ MinAlignment = 8
  <2> DEFINE v == [node EXCEPT !.length = 0]
  <2>1. ShownOf(node) = NodeText(v)
    <3>1. <<node.type, node.sub>> = <<"msg", "ipv6">> /\ MinAlignment = 8
            /\ <<node.type, node.sub>> # <<"msg", "ipv4">>
      BY <1>4 DEF KindOf
    <3> QED
      BY <3>1, Zenon DEF ShownOf
  <2>2. node.type = "msg" /\ node.sub = "ipv6" /\ n \in {60, 43}
    BY <1>4, LengthsOfAddresses DEF KindOf
  <2>3. Rounded(n) # IPv6Length /\ 0 # IPv6Length
    BY <1>4, <2>2, RoundedLengths, AddressLengths
  <2>4. v.type = node.type /\ v.sub = node.sub /\ v.fields = node.fields /\ v.length = 0
    BY <1>2
  <2> HIDE DEF v
  <2>5. ShownAlike(u, v)
    BY <1>1, <1>4, <2>3, <2>4 DEF ShownAlike, SameKind, KindOf
  <2> QED
    BY <2>1, <2>5, SameText DEF u
<1> DEFINE Rest == KindOf(node) # <<"msg", "ipv4">> /\ ~(KindOf(node) = <<"msg", "ipv6">> /\ MinAlignment = 8)
           Long == /\ KindOf(node) \notin {<<"msg", "ipv4">>, <<"msg", "ipv6">>}
                   /\ KindOf(node) = <<"msg", "mac">> \/ NodeText(node) = _DevPathNodeUnknown(node)
<1>5. CASE Rest /\ Long
  BY <1>5 DEF ShownOf, KindOf
<1>6. CASE Rest /\ ~Long
  <2>1. ShownOf(node) = NodeText(node)
    BY <1>6 DEF ShownOf, KindOf
  <2>2. KindOf(node) = <<"msg", "ipv6">> => (Rounded(n) = IPv6Length <=> n = IPv6Length)
    <3> SUFFICES ASSUME KindOf(node) = <<"msg", "ipv6">> PROVE Rounded(n) = IPv6Length <=> n = IPv6Length
      OBVIOUS
    <3>1. MinAlignment = 4
      BY <1>6, PathsAssumption
    <3>2. node.type = "msg" /\ node.sub = "ipv6" /\ n \in {60, 43}
      BY LengthsOfAddresses DEF KindOf
    <3> QED
      BY <3>1, <3>2, RoundedLengths
  <2>3. ShownAlike(node, u)
    <3>1. SameKind(node, u)
      BY <1>1 DEF SameKind
    <3> QED
      BY <1>1, <1>6, <2>2, <3>1 DEF ShownAlike
  <2> QED
    BY <2>1, <2>3, SameText DEF u
<1> QED
  BY <1>3, <1>4, <1>5, <1>6


-------------------------------------------------------------------------------
(***************************************************************************)
(* The text of a path: what is shown of its nodes one after the other is   *)
(* the text of its instances.                                              *)
(***************************************************************************)
Words == {ShownOf(node) : node \in AllNodes} \union {",", "/"}

\* What is shown of a list of instances.
Comma(i) == IF i > 1 THEN <<",">> ELSE << >>
Slash(i, k) == IF i > 1 \/ k > 1 THEN <<"/">> ELSE << >>
NodesShown(s, i) == [k \in DOMAIN s |-> Slash(i, k) \o <<ShownOf(s[k])>>]
InstanceShown(s, i) == Comma(i) \o FlattenSeq(NodesShown(s, i))
AllShown(all) == [i \in DOMAIN all |-> InstanceShown(all[i], i)]
TextOf(all) == FlattenSeq(AllShown(all))

LEMMA TextIs == List!Text = TextOf(InstancesOf(path))
BY Zenon DEF List!Text, List!FlattenSeq, FlattenSeq, Comma, Slash, NodesShown, InstanceShown, AllShown, TextOf

\* What one more node makes of a text.
WithNode(sofar, node) ==
  IF IsDevicePathEndType(node) THEN Append(sofar, ",")
  ELSE (IF sofar # << >> THEN Append(sofar, "/") ELSE sofar) \o <<NodeText(node)>>

TextsOf(nodes) ==
  CHOOSE iter : iter = [s \in SUBSET DOMAIN nodes |->
                          IF s = {} THEN << >> ELSE WithNode(iter[s \ {Max(s)}], nodes[Max(s)])]

LEMMA StringIs ==
  \A p : DevicePathToStr(p) = TextsOf(Front(UnpackDevicePath(p)))[DOMAIN Front(UnpackDevicePath(p))]
BY Zenon DEF DevicePathToStr, FoldLeft, MapThenFoldSet, TextsOf, WithNode

LEMMA WordsAreAppended ==
  ASSUME NEW sofar \in Seq(Words), NEW node, ~IsDevicePathEndType(node) => NodeText(node) \in Words
  PROVE  WithNode(sofar, node) \in Seq(Words)
<1>1. "," \in Words /\ "/" \in Words
  BY DEF Words
<1>2. CASE IsDevicePathEndType(node)
  BY <1>1, <1>2, AppendProperties DEF WithNode
<1>3. CASE ~IsDevicePathEndType(node)
  <2> DEFINE t == IF sofar # << >> THEN Append(sofar, "/") ELSE sofar
             w == <<NodeText(node)>>
  <2>1. t \in Seq(Words)
    BY <1>1, AppendProperties
  <2>2. w \in Seq(Words)
    BY <1>3
  <2> HIDE DEF t, w
  <2>3. t \o w \in Seq(Words)
    BY <2>1, <2>2, ConcatProperties
  <2> QED
    BY <1>3, <2>3 DEF WithNode, t, w
<1> QED
  BY <1>2, <1>3

Named(nodes) == \A k \in 1 .. Len(nodes) : ~IsDevicePathEndType(nodes[k]) => NodeText(nodes[k]) \in Words
TextTo(nodes, k) == TextsOf(nodes)[1 .. k]

\* The text up to a node is the text up to the one before, and what the node makes of it.
LEMMA TextFacts ==
  ASSUME NEW nodes, Len(nodes) \in Nat, DOMAIN nodes = 1 .. Len(nodes), Named(nodes)
  PROVE  /\ TextTo(nodes, 0) = << >>
         /\ \A k \in 1 .. Len(nodes) : TextTo(nodes, k) = WithNode(TextTo(nodes, k - 1), nodes[k])
<1> DEFINE n == Len(nodes)
           V == Seq(Words)
           F == [vk \in V \X (1 .. n) |-> WithNode(vk[1], nodes[vk[2]])]
<1>1. n \in Nat /\ DOMAIN nodes = 1 .. n
  OBVIOUS
<1>2. << >> \in V /\ \A v \in V, k \in 1 .. n : WithNode(v, nodes[k]) \in V
  BY WordsAreAppended DEF Named
<1>3. \A v \in V, k \in 1 .. n : F[<<v, k>>] = WithNode(v, nodes[k])
  OBVIOUS
<1> HIDE DEF F, n, V
<1>4. \A v \in V, k \in 1 .. n : F[<<v, k>>] \in V
  BY <1>2, <1>3
<1>5. Folds(V, F, << >>, n)
  BY <1>1, <1>2, <1>4, FoldsAll
<1>6. PICK g \in [SUBSET (1 .. n) -> V] : \A s \in SUBSET (1 .. n) : g[s] = Folded(F, << >>, g, s)
  BY <1>5 DEF Folds
<1>7. ASSUME NEW s \in SUBSET (1 .. n), s # {}
      PROVE  Max(s) \in 1 .. n /\ s \ {Max(s)} \in SUBSET (1 .. n)
  <2>1. s \in SUBSET Nat /\ \A k \in s : k <= n
    BY <1>1
  <2>2. Max(s) \in s
    BY <1>7, <2>1, <1>1, GreatestIn
  <2> QED
    BY <2>2
<1>8. \A s \in SUBSET (1 .. n) : g[s] = IF s = {} THEN << >> ELSE WithNode(g[s \ {Max(s)}], nodes[Max(s)])
  <2> SUFFICES ASSUME NEW s \in SUBSET (1 .. n)
               PROVE  g[s] = IF s = {} THEN << >> ELSE WithNode(g[s \ {Max(s)}], nodes[Max(s)])
    OBVIOUS
  <2>1. CASE s = {}
    BY <1>6, <2>1 DEF Folded
  <2>2. CASE s # {}
    <3>1. Max(s) \in 1 .. n /\ s \ {Max(s)} \in SUBSET (1 .. n)
      BY <1>7, <2>2
    <3>2. g[s \ {Max(s)}] \in V
      BY <3>1
    <3>3. g[s] = F[<<g[s \ {Max(s)}], Max(s)>>]
      BY <1>6, <2>2 DEF Folded
    <3> QED
      BY <1>3, <2>2, <3>1, <3>2, <3>3
  <2> QED
    BY <2>1, <2>2
<1>9. g = [s \in SUBSET DOMAIN nodes |-> IF s = {} THEN << >> ELSE WithNode(g[s \ {Max(s)}], nodes[Max(s)])]
  BY <1>1, <1>8
<1> DEFINE h == TextsOf(nodes)
<1>10. h = [s \in SUBSET DOMAIN nodes |-> IF s = {} THEN << >> ELSE WithNode(h[s \ {Max(s)}], nodes[Max(s)])]
  BY <1>9 DEF TextsOf
<1> HIDE DEF h
<1>11. \A s \in SUBSET (1 .. n) : h[s] = IF s = {} THEN << >> ELSE WithNode(h[s \ {Max(s)}], nodes[Max(s)])
  BY <1>1, <1>10
<1>12. TextTo(nodes, 0) = << >>
  <2>1. 1 .. 0 = {}
    OBVIOUS
  <2>2. h[{}] = << >>
    BY <1>11
  <2> QED
    BY <2>1, <2>2 DEF TextTo, h
<1>13. ASSUME NEW k \in 1 .. n
       PROVE  TextTo(nodes, k) = WithNode(TextTo(nodes, k - 1), nodes[k])
  <2>1. 1 .. k \in SUBSET (1 .. n) /\ 1 .. k # {} /\ 1 .. k \in SUBSET Nat /\ k \in 1 .. k
    <3>1. k \in Nat /\ 1 <= k /\ k <= n /\ n \in Nat
      BY <1>1
    <3>2. k \in 1 .. k
      BY <3>1
    <3>3. \A i \in 1 .. k : i \in 1 .. n /\ i \in Nat
      BY <3>1
    <3> QED
      BY <3>2, <3>3
  <2>2. Max(1 .. k) = k
    <3>1. \A i \in 1 .. k : i <= k
      BY <1>1
    <3> DEFINE S == 1 .. k
    <3>2. S \in SUBSET Nat /\ k \in S /\ \A i \in S : i <= k
      BY <2>1, <3>1
    <3> HIDE DEF S
    <3>3. Max(S) = k
      BY <3>2, GreatestIs
    <3> QED
      BY <3>3 DEF S
  <2>3. (1 .. k) \ {k} = 1 .. (k - 1)
    BY <1>1
  <2>4. h[1 .. k] = WithNode(h[1 .. (k - 1)], nodes[k])
    BY <1>11, <2>1, <2>2, <2>3
  <2> QED
    BY <2>4 DEF TextTo, h
<1> QED
  BY <1>12, <1>13 DEF n

\* Flattened sequences, from none on.
FlatTo(L, k) == IF k = 0 THEN << >> ELSE FlatOf(L)[k]

LEMMA FlatUpTo ==
  ASSUME NEW S, NEW L \in Seq(Seq(S))
  PROVE  /\ FlattenSeq(L) = FlatTo(L, Len(L)) /\ FlatTo(L, 0) = << >>
         /\ \A k \in 1 .. Len(L) : FlatTo(L, k) = FlatTo(L, k - 1) \o L[k]
         /\ \A k \in 0 .. Len(L) : FlatTo(L, k) \in Seq(S)
<1>1. Len(L) \in Nat /\ \A k \in 1 .. Len(L) : L[k] \in Seq(S)
  BY LenProperties
<1>2. CASE L = << >>
  <2>1. FlattenSeq(L) = << >> /\ Len(L) = 0
    BY <1>2 DEF FlattenSeq
  <2>2. FlatTo(L, 0) = << >> /\ \A k \in 0 .. Len(L) : k = 0
    BY <2>1 DEF FlatTo
  <2>3. \A k \in 1 .. Len(L) : FALSE
    BY <2>1
  <2>4. << >> \in Seq(S)
    BY EmptySeq
  <2>5. \A k \in 0 .. Len(L) : FlatTo(L, k) \in Seq(S)
    BY <2>2, <2>4
  <2> QED
    BY <2>1, <2>2, <2>3, <2>5
<1>3. CASE L # << >>
  <2>1. Len(L) # 0
    BY <1>3, EmptySeq
  <2>2. /\ FlattenSeq(L) = FlatOf(L)[Len(L)] /\ FlatOf(L)[1] = L[1]
        /\ \A i \in 2 .. Len(L) : FlatOf(L)[i] = FlatOf(L)[i - 1] \o L[i]
        /\ \A i \in 1 .. Len(L) : FlatOf(L)[i] \in Seq(S)
    BY <1>3, FlatFacts
  <2>3. ASSUME NEW k \in 1 .. Len(L) PROVE FlatTo(L, k) = FlatTo(L, k - 1) \o L[k]
    <3>1. CASE k = 1
      <4>1. << >> \o L[1] = L[1]
        BY <1>1, <3>1, ConcatEmptySeq
      <4> QED
        BY <2>2, <3>1, <4>1 DEF FlatTo
    <3>2. CASE k # 1
      <4>1. k \in 2 .. Len(L) /\ k # 0 /\ k - 1 # 0
        BY <1>1, <3>2
      <4> QED
        BY <2>2, <4>1 DEF FlatTo
    <3> QED
      BY <3>1, <3>2
  <2>4. ASSUME NEW k \in 0 .. Len(L) PROVE FlatTo(L, k) \in Seq(S)
    <3>1. k = 0 \/ k \in 1 .. Len(L)
      BY <1>1
    <3> QED
      BY <2>2, <3>1 DEF FlatTo
  <2>5. FlattenSeq(L) = FlatTo(L, Len(L)) /\ FlatTo(L, 0) = << >>
    BY <2>1, <2>2 DEF FlatTo
  <2> QED
    BY <2>3, <2>4, <2>5
<1> QED
  BY <1>2, <1>3

LEMMA WordsAssociate == \A x, y, z \in Seq(Words) : (x \o y) \o z = x \o (y \o z)
<1> SUFFICES ASSUME NEW x \in Seq(Words), NEW y \in Seq(Words), NEW z \in Seq(Words)
             PROVE  (x \o y) \o z = x \o (y \o z)
  OBVIOUS
<1> QED
  BY ConcatAssociative


PathText(p, k) == TextTo(Front(UnpackDevicePath(p)), k)

\* The text of a path, node by node as the caller has them.
LEMMA PathTextFacts ==
  ASSUME NEW p \in PathSeq
  PROVE  /\ DevicePathToStr(p) = PathText(p, EndOf(p) - 1) /\ PathText(p, 0) = << >>
         /\ \A k \in 1 .. EndOf(p) - 1 :
              PathText(p, k) =
                IF IsDevicePathEndType(p[k]) THEN Append(PathText(p, k - 1), ",")
                ELSE (IF PathText(p, k - 1) # << >> THEN Append(PathText(p, k - 1), "/")
                      ELSE PathText(p, k - 1))
                       \o <<ShownOf(p[k])>>
<1> DEFINE r == Reachable(p)
           u == UnpackDevicePath(p)
           nodes == Front(u)
           n == EndOf(p)
<1>1. /\ n \in 1 .. Len(p) /\ r \in Seq(AllNodes) /\ Len(r) = n /\ n \in Nat /\ \A k \in 1 .. n : r[k] = p[k]
      /\ \A k \in 1 .. n : p[k] \in AllNodes
  BY ReachableFacts, PathFacts DEF PathSeq
<1>2. DOMAIN r = 1 .. n
  BY <1>1, LenProperties
<1>3. /\ u = [k \in 1 .. n |-> u[k]] /\ \A k \in 1 .. n : u[k] = Unpacked(p[k])
  BY <1>1, <1>2 DEF UnpackDevicePath
<1> HIDE DEF r, u, n
<1> DEFINE U == {Unpacked(node) : node \in AllNodes}
<1>4. u \in Seq(U) /\ Len(u) = n
  <2>1. \A k \in 1 .. n : u[k] \in U
    BY <1>1, <1>3
  <2> HIDE DEF U
  <2>2. u \in [1 .. n -> U]
    BY <1>3, <2>1
  <2>3. u \in Seq(U)
    BY <1>1, <2>2
  <2> QED
    BY <1>1, <2>2, <2>3, LenProperties
<1>5. /\ nodes \in Seq(U) /\ Len(nodes) = n - 1 /\ DOMAIN nodes = 1 .. n - 1
      /\ \A k \in 1 .. n - 1 : nodes[k] = Unpacked(p[k])
  <2> HIDE DEF U
  <2>1. \A k \in 1 .. n - 1 : k \in 1 .. n /\ 1 + k - 1 = k
    BY <1>1
  <2>2. \A k \in 1 .. n - 1 : u[k] \in U
    BY <1>4, <2>1, LenProperties
  <2>3. n - 1 \in Int /\ n - 1 \in Nat /\ (n - 1) - 1 + 1 = n - 1
    BY <1>1
  <2>4. /\ SubSeq(u, 1, n - 1) \in Seq(U) /\ Len(SubSeq(u, 1, n - 1)) = n - 1
        /\ \A k \in 1 .. n - 1 : SubSeq(u, 1, n - 1)[k] = u[1 + k - 1]
    BY <2>2, <2>3, SubSeqProperties
  <2>5. nodes = SubSeq(u, 1, n - 1)
    BY <1>4 DEF Front
  <2> HIDE DEF nodes
  <2> QED
    BY <1>3, <2>1, <2>4, <2>5, LenProperties
<1> HIDE DEF nodes
<1>6. ASSUME NEW k \in 1 .. n - 1
      PROVE  /\ IsDevicePathEndType(nodes[k]) <=> IsDevicePathEndType(p[k])
             /\ NodeText(nodes[k]) = ShownOf(p[k]) /\ ShownOf(p[k]) \in Words
  <2>1. p[k] \in AllNodes /\ nodes[k] = Unpacked(p[k])
    BY <1>1, <1>5
  <2>2. IsNode(p[k]) /\ (p[k].type = "msg" => WellFormed(p[k]))
    BY <2>1, NodesAreWellFormed
  <2>3. NodeText(nodes[k]) = ShownOf(p[k])
    BY <2>1, <2>2, UnpackedShows
  <2>4. nodes[k].type = p[k].type
    BY <2>1, <2>2 DEF Unpacked, IsNode
  <2> QED
    BY <2>1, <2>3, <2>4 DEF IsDevicePathEndType, Words
<1>7. Named(nodes)
  BY <1>5, <1>6 DEF Named
<1>8. /\ TextTo(nodes, 0) = << >>
      /\ \A k \in 1 .. n - 1 : TextTo(nodes, k) = WithNode(TextTo(nodes, k - 1), nodes[k])
  <2>1. Len(nodes) = n - 1 /\ n - 1 \in Nat
    BY <1>1, <1>5
  <2>2. /\ TextTo(nodes, 0) = << >>
        /\ \A k \in 1 .. Len(nodes) : TextTo(nodes, k) = WithNode(TextTo(nodes, k - 1), nodes[k])
    BY <1>5, <1>7, <2>1, TextFacts
  <2> QED
    BY <2>1, <2>2
<1>9. DevicePathToStr(p) = TextTo(nodes, n - 1)
  BY <1>5, StringIs DEF TextTo, nodes, u
<1> QED
  BY <1>6, <1>8, <1>9 DEF PathText, WithNode, nodes, u, n

LEMMA WordsEmpty == \A x, y \in Seq(Words) : x \o y = << >> <=> x = << >> /\ y = << >>
<1> SUFFICES ASSUME NEW x \in Seq(Words), NEW y \in Seq(Words)
             PROVE  x \o y = << >> <=> x = << >> /\ y = << >>
  OBVIOUS
<1> QED
  BY ConcatEqualIffEmpty

\* The nodes of an instance have texts, and all but the first of all begin with a slash.
LEMMA NodesShownFacts ==
  ASSUME NEW s \in Seq(AllNodes), NEW i \in Nat
  PROVE  /\ NodesShown(s, i) \in Seq(Seq(Words)) /\ Len(NodesShown(s, i)) = Len(s)
         /\ \A k \in 1 .. Len(s) :
              /\ NodesShown(s, i)[k] = Slash(i, k) \o <<ShownOf(s[k])>> /\ NodesShown(s, i)[k] # << >>
              /\ Slash(i, k) \in Seq(Words) /\ <<ShownOf(s[k])>> \in Seq(Words)
<1> DEFINE M == NodesShown(s, i)
<1>1. Len(s) \in Nat /\ DOMAIN s = 1 .. Len(s) /\ \A k \in 1 .. Len(s) : s[k] \in AllNodes
  BY LenProperties
<1>2. M = [k \in 1 .. Len(s) |-> M[k]] /\ \A k \in 1 .. Len(s) : M[k] = Slash(i, k) \o <<ShownOf(s[k])>>
  BY <1>1 DEF NodesShown
<1> HIDE DEF M
<1>3. ASSUME NEW k \in 1 .. Len(s)
      PROVE  Slash(i, k) \in Seq(Words) /\ <<ShownOf(s[k])>> \in Seq(Words)
               /\ M[k] \in Seq(Words) /\ M[k] # << >>
  <2> DEFINE w == <<ShownOf(s[k])>>
             l == Slash(i, k)
  <2>1. ShownOf(s[k]) \in Words /\ "/" \in Words
    BY <1>1 DEF Words
  <2>2. w \in Seq(Words) /\ w # << >>
    BY <2>1
  <2>3. l \in Seq(Words)
    BY <2>1 DEF Slash
  <2> HIDE DEF w, l
  <2>4. l \o w \in Seq(Words) /\ l \o w # << >>
    BY <2>2, <2>3, WordsEmpty, ConcatProperties
  <2> QED
    BY <1>2, <2>2, <2>3, <2>4 DEF w, l
<1>4. M \in [1 .. Len(s) -> Seq(Words)]
  BY <1>2, <1>3
<1>5. M \in Seq(Seq(Words))
  BY <1>1, <1>4
<1>6. Len(M) = Len(s)
  BY <1>1, <1>4, <1>5, LenProperties
<1> QED
  BY <1>2, <1>3, <1>5, <1>6 DEF M

Reads(p, a, i) ==
  /\ p \in PathSeq /\ a \in 1 .. EndOf(p) /\ i \in Nat \ {0}
  /\ PathText(p, a - 1) \in Seq(Words) /\ (PathText(p, a - 1) # << >> <=> i > 1)

\* An instance stops where the path ends, or before.
LEMMA StopsInTime ==
  ASSUME NEW p \in PathSeq, NEW a \in 1 .. EndOf(p)
  PROVE  /\ StopOf(p, a) \in a .. EndOf(p) /\ IsDevicePathEndType(p[StopOf(p, a)])
         /\ \A k \in a .. StopOf(p, a) - 1 : ~IsDevicePathEndType(p[k])
         /\ IsDevicePathEnd(p[StopOf(p, a)]) <=> StopOf(p, a) = EndOf(p)
         /\ StopOf(p, a) \in Nat /\ a \in 1 .. Len(p)
<1>1. /\ EndOf(p) \in 1 .. Len(p) /\ p[EndOf(p)] = EndDevicePath /\ Len(p) \in Nat
      /\ \A k \in 1 .. EndOf(p) - 1 : ~IsDevicePathEnd(p[k])
  BY ReachableFacts, PathFacts
<1>2. a \in 1 .. Len(p)
  BY <1>1
<1> DEFINE s == StopOf(p, a)
<1>3. s \in a .. Len(p) /\ IsDevicePathEndType(p[s]) /\ \A k \in a .. s - 1 : ~IsDevicePathEndType(p[k])
  BY <1>2, StopFacts
<1> HIDE DEF s
<1>4. IsDevicePathEndType(p[EndOf(p)]) /\ IsDevicePathEnd(p[EndOf(p)])
  BY <1>1, EndNodes
<1>5. ~(EndOf(p) < s)
  <2> SUFFICES ASSUME EndOf(p) < s PROVE FALSE
    OBVIOUS
  <2>1. EndOf(p) \in a .. s - 1
    BY <1>1, <1>2, <1>3
  <2> QED
    BY <1>3, <1>4, <2>1
<1>6. IsDevicePathEnd(p[s]) => s = EndOf(p)
  <2> SUFFICES ASSUME s # EndOf(p) PROVE ~IsDevicePathEnd(p[s])
    OBVIOUS
  <2>1. s \in 1 .. EndOf(p) - 1
    BY <1>1, <1>2, <1>3, <1>5
  <2> QED
    BY <1>1, <2>1
<1> QED
  BY <1>1, <1>2, <1>3, <1>4, <1>5, <1>6 DEF s


\* Up to where an instance stops, what was shown is followed by what is shown of its nodes.
LEMMA InstanceIsShown ==
  ASSUME NEW p, NEW a, NEW i, Reads(p, a, i)
  PROVE  /\ PathText(p, StopOf(p, a) - 1)
              = PathText(p, a - 1) \o FlattenSeq(NodesShown(DevicePathInstance(p, a).nodes, i))
         /\ FlattenSeq(NodesShown(DevicePathInstance(p, a).nodes, i)) \in Seq(Words)
<1> DEFINE s == StopOf(p, a)
           d == s - a
           nodes == DevicePathInstance(p, a).nodes
           M == NodesShown(nodes, i)
           t == PathText(p, a - 1)
<1>1. p \in PathSeq /\ a \in 1 .. EndOf(p) /\ i \in Nat \ {0} /\ t \in Seq(Words) /\ (t # << >> <=> i > 1)
  BY DEF Reads
<1>2. /\ s \in a .. EndOf(p) /\ s \in Nat /\ a \in 1 .. Len(p) /\ a \in Nat /\ EndOf(p) \in Nat
      /\ \A k \in a .. s - 1 : ~IsDevicePathEndType(p[k])
  BY <1>1, StopsInTime, ReachableFacts
<1> HIDE DEF s, t
<1>3. nodes \in Seq(AllNodes) /\ Len(nodes) = d /\ d \in Nat /\ \A k \in 1 .. d : nodes[k] = p[(a + k) - 1]
  <2>1. nodes = SubSeq(p, a, s - 1) /\ nodes \in Seq(AllNodes)
    BY <1>1, <1>2, NextFacts, FromType DEF s
  <2>2. \A k \in a .. s - 1 : p[k] \in AllNodes
    BY <1>1, <1>2, PathFacts, ReachableFacts
  <2>3. d \in Nat /\ s - 1 \in Int /\ (s - 1) - a + 1 = d /\ (~(a <= s - 1) => d = 0)
    BY <1>2
  <2>4. /\ Len(SubSeq(p, a, s - 1)) = IF a <= s - 1 THEN (s - 1) - a + 1 ELSE 0
        /\ \A k \in 1 .. (s - 1) - a + 1 : SubSeq(p, a, s - 1)[k] = p[a + k - 1]
    BY <1>2, <2>2, <2>3, SubSeqProperties
  <2>5. \A k \in 1 .. d : a + k - 1 = (a + k) - 1
    BY <1>2, <2>3
  <2> HIDE DEF nodes
  <2> QED
    BY <2>1, <2>3, <2>4, <2>5
<1> HIDE DEF nodes, d
<1>4. /\ M \in Seq(Seq(Words)) /\ Len(M) = d
      /\ \A k \in 1 .. d :
           /\ M[k] = Slash(i, k) \o <<ShownOf(nodes[k])>> /\ M[k] # << >>
           /\ Slash(i, k) \in Seq(Words) /\ <<ShownOf(nodes[k])>> \in Seq(Words)
  BY <1>1, <1>3, NodesShownFacts
<1> HIDE DEF M
<1>5. /\ FlattenSeq(M) = FlatTo(M, d) /\ FlatTo(M, 0) = << >>
      /\ \A k \in 1 .. d : FlatTo(M, k) = FlatTo(M, k - 1) \o M[k]
      /\ \A k \in 0 .. d : FlatTo(M, k) \in Seq(Words)
  BY <1>4, FlatUpTo
<1> DEFINE Not == {k \in 0 .. d : PathText(p, (a + k) - 1) # t \o FlatTo(M, k)}
<1>6. ASSUME Not # {} PROVE FALSE
  <2>1. PICK k \in Not : \A m \in Not : k <= m
    <3>1. Not \in SUBSET Nat
      OBVIOUS
    <3> HIDE DEF Not
    <3> QED
      BY <1>6, <3>1, LeastIn
  <2>2. k \in 0 .. d /\ PathText(p, (a + k) - 1) # t \o FlatTo(M, k)
    OBVIOUS
  <2>3. k # 0
    <3>1. t \o << >> = t
      BY <1>1, ConcatEmptySeq
    <3>2. (a + 0) - 1 = a - 1
      BY <1>2
    <3> QED
      BY <1>5, <2>2, <3>1, <3>2 DEF t
  <2>4. k \in 1 .. d /\ k - 1 \in 0 .. d /\ k - 1 < k /\ (a + (k - 1)) - 1 = ((a + k) - 1) - 1
    BY <1>2, <1>3, <2>2, <2>3
  <2> DEFINE x == PathText(p, ((a + k) - 1) - 1)
             l == Slash(i, k)
             w == <<ShownOf(nodes[k])>>
             y == FlatTo(M, k - 1)
  <2>5. x = t \o y
    <3>1. k - 1 \notin Not
      <4>1. ~(k <= k - 1)
        BY <1>3, <2>4
      <4> HIDE DEF Not
      <4> QED
        BY <2>1, <4>1
    <3> QED
      BY <2>4, <3>1
  <2>6. y \in Seq(Words) /\ l \in Seq(Words) /\ w \in Seq(Words)
          /\ M[k] = l \o w /\ FlatTo(M, k) = y \o (l \o w)
    BY <1>4, <1>5, <2>4
  <2>7. (a + k) - 1 \in 1 .. EndOf(p) - 1 /\ ~IsDevicePathEndType(p[(a + k) - 1]) /\ nodes[k] = p[(a + k) - 1]
    <3>1. (a + k) - 1 \in a .. s - 1 /\ (a + k) - 1 \in 1 .. EndOf(p) - 1
      <4>1. k \in Nat /\ 1 <= k /\ k <= s - a /\ 1 <= a /\ s <= EndOf(p)
        BY <1>2, <2>4 DEF d
      <4>2. a \in Nat /\ s \in Nat /\ EndOf(p) \in Nat
        BY <1>2
      <4> QED
        BY <4>1, <4>2
    <3> QED
      BY <1>2, <1>3, <2>4, <3>1
  <2>8. PathText(p, (a + k) - 1) = (IF x # << >> THEN Append(x, "/") ELSE x) \o w
    BY <1>1, <2>7, PathTextFacts
  <2> HIDE DEF x, l, w, y
  <2>9. x \in Seq(Words)
    BY <1>1, <2>5, <2>6, ConcatProperties
  <2>10. x # << >> <=> i > 1 \/ k > 1
    <3>1. x = << >> <=> t = << >> /\ y = << >>
      BY <1>1, <2>5, <2>6, WordsEmpty
    <3>2. CASE k = 1
      <4>1. y = << >> /\ ~(k > 1)
        BY <1>5, <3>2 DEF y
      <4> QED
        BY <1>1, <3>1, <4>1
    <3>3. CASE k # 1
      <4>1. k - 1 \in 1 .. d /\ k > 1 /\ (k - 1) - 1 \in 0 .. d
        BY <1>3, <2>4, <3>3
      <4>2. y = FlatTo(M, (k - 1) - 1) \o M[k - 1] /\ M[k - 1] # << >>
        BY <1>4, <1>5, <4>1 DEF y
      <4>3. FlatTo(M, (k - 1) - 1) \in Seq(Words) /\ M[k - 1] \in Seq(Words)
        <5>1. k - 1 \in DOMAIN M
          BY <1>4, <4>1, LenProperties
        <5> QED
          BY <1>4, <1>5, <4>1, <5>1, LenProperties
      <4>4. y # << >>
        BY <4>2, <4>3, WordsEmpty
      <4> QED
        BY <3>1, <4>1, <4>4
    <3> QED
      BY <3>2, <3>3
  <2>11. (IF x # << >> THEN Append(x, "/") ELSE x) = x \o l
    <3>1. CASE i > 1 \/ k > 1
      <4>1. "/" \in Words
        BY DEF Words
      <4>2. Append(x, "/") = x \o <<"/">>
        BY <2>9, <4>1, AppendIsConcat
      <4> QED
        BY <2>10, <3>1, <4>2 DEF l, Slash
    <3>2. CASE ~(i > 1 \/ k > 1)
      <4>1. x \o << >> = x
        BY <2>9, ConcatEmptySeq
      <4> QED
        BY <2>10, <3>2, <4>1 DEF l, Slash
    <3> QED
      BY <3>1, <3>2
  <2>12. (x \o l) \o w = t \o (y \o (l \o w))
    <3>1. (x \o l) \o w = x \o (l \o w)
      BY <2>6, <2>9, WordsAssociate
    <3>2. l \o w \in Seq(Words)
      BY <2>6, ConcatProperties
    <3>3. (t \o y) \o (l \o w) = t \o (y \o (l \o w))
      BY <1>1, <2>6, <3>2, WordsAssociate
    <3> QED
      BY <2>5, <3>1, <3>3
  <2> QED
    BY <2>2, <2>6, <2>8, <2>11, <2>12
<1>7. d \in 0 .. d /\ d \notin Not
  <2>1. d \in 0 .. d
    BY <1>3
  <2> HIDE DEF Not
  <2> QED
    BY <1>6, <2>1
<1>8. PathText(p, (a + d) - 1) = t \o FlatTo(M, d)
  BY <1>7
<1>9. (a + d) - 1 = s - 1 /\ FlatTo(M, d) \in Seq(Words)
  BY <1>2, <1>3, <1>5 DEF d
<1> QED
  BY <1>5, <1>8, <1>9 DEF s, t, M, nodes


LEMMA AllShownFacts ==
  ASSUME NEW all \in NodeLists
  PROVE  /\ AllShown(all) \in Seq(Seq(Words)) /\ Len(AllShown(all)) = Len(all)
         /\ \A i \in 1 .. Len(all) :
              /\ AllShown(all)[i] = Comma(i) \o FlattenSeq(NodesShown(all[i], i))
              /\ Comma(i) \in Seq(Words) /\ FlattenSeq(NodesShown(all[i], i)) \in Seq(Words)
<1> DEFINE L == AllShown(all)
<1>1. Len(all) \in Nat /\ DOMAIN all = 1 .. Len(all) /\ \A i \in 1 .. Len(all) : all[i] \in Seq(AllNodes)
  BY LenProperties DEF NodeLists
<1>2. L = [i \in 1 .. Len(all) |-> L[i]]
      /\ \A i \in 1 .. Len(all) : L[i] = Comma(i) \o FlattenSeq(NodesShown(all[i], i))
  BY <1>1 DEF AllShown, InstanceShown
<1> HIDE DEF L
<1>3. ASSUME NEW i \in 1 .. Len(all)
      PROVE  /\ Comma(i) \in Seq(Words) /\ FlattenSeq(NodesShown(all[i], i)) \in Seq(Words)
             /\ L[i] \in Seq(Words)
  <2> DEFINE s == all[i]
             M == NodesShown(s, i)
             c == Comma(i)
             f == FlattenSeq(M)
  <2>1. s \in Seq(AllNodes) /\ i \in Nat
    BY <1>1
  <2> HIDE DEF s
  <2>2. M \in Seq(Seq(Words))
    BY <2>1, NodesShownFacts
  <2> HIDE DEF M
  <2>3. f = FlatTo(M, Len(M)) /\ \A k \in 0 .. Len(M) : FlatTo(M, k) \in Seq(Words)
    BY <2>2, FlatUpTo
  <2>4. f \in Seq(Words)
    <3>1. Len(M) \in Nat
      BY <2>2, LenProperties
    <3>2. Len(M) \in 0 .. Len(M)
      BY <3>1
    <3> QED
      BY <2>3, <3>2
  <2>5. c \in Seq(Words)
    <3>1. "," \in Words
      BY DEF Words
    <3>2. \A w \in Words : <<w>> \in Seq(Words)
      OBVIOUS
    <3>3. <<",">> \in Seq(Words) /\ << >> \in Seq(Words)
      BY <3>1, <3>2, EmptySeq
    <3> QED
      BY <3>3 DEF Comma
  <2> HIDE DEF c, f
  <2>6. c \o f \in Seq(Words)
    BY <2>4, <2>5, ConcatProperties
  <2> QED
    BY <1>2, <2>4, <2>5, <2>6 DEF c, f, M, s
<1>4. L \in [1 .. Len(all) -> Seq(Words)]
  BY <1>2, <1>3
<1>5. L \in Seq(Seq(Words))
  BY <1>1, <1>4
<1>6. Len(L) = Len(all)
  BY <1>1, <1>4, <1>5, LenProperties
<1> QED
  BY <1>2, <1>3, <1>5, <1>6 DEF L

\* The text has come to the i-th instance.
ShownTo(p, i) ==
  \E a \in 1 .. EndOf(p) :
    /\ Len(FromOf(p)[a]) = (Len(InstancesOf(p)) - i) + 1
    /\ \A j \in 1 .. (Len(InstancesOf(p)) - i) + 1 : FromOf(p)[a][j] = InstancesOf(p)[(i + j) - 1]
    /\ PathText(p, a - 1) = FlatTo(AllShown(InstancesOf(p)), i - 1) \o Comma(i)

LEMMA NextIsShown ==
  ASSUME NEW p \in PathSeq, NEW i \in 1 .. Len(InstancesOf(p)), ShownTo(p, i)
  PROVE  /\ i = Len(InstancesOf(p)) => DevicePathToStr(p) = FlatTo(AllShown(InstancesOf(p)), i)
         /\ i < Len(InstancesOf(p)) => ShownTo(p, i + 1)
<1> DEFINE all == InstancesOf(p)
           count == Len(all)
           L == AllShown(all)
           n == EndOf(p)
<1>1. PICK a \in 1 .. n :
        /\ Len(FromOf(p)[a]) = (count - i) + 1
        /\ \A j \in 1 .. (count - i) + 1 : FromOf(p)[a][j] = all[(i + j) - 1]
        /\ PathText(p, a - 1) = FlatTo(L, i - 1) \o Comma(i)
  BY DEF ShownTo
<1> DEFINE f == FromOf(p)[a]
           s == StopOf(p, a)
           next == DevicePathInstance(p, a).next
           nodes == DevicePathInstance(p, a).nodes
<1>2. /\ n \in 1 .. Len(p) /\ n \in Nat /\ Len(p) \in Nat
      /\ all \in NodeLists /\ count \in Nat /\ i \in 1 .. count
  BY ReachableFacts, PathFacts, InstanceFacts, LenProperties DEF NodeLists
<1>3. /\ s \in a .. n /\ IsDevicePathEndType(p[s]) /\ (IsDevicePathEnd(p[s]) <=> s = n)
      /\ s \in Nat /\ a \in 1 .. Len(p)
  BY StopsInTime
<1>4. next = IF IsDevicePathEnd(p[s]) THEN 0 ELSE s + 1
  BY <1>3, NextFacts
<1>5. /\ f \in NodeLists /\ f # << >> /\ f[1] = nodes /\ Tail(f) = FromOf(p)[next]
  BY <1>3, FromType
<1> HIDE DEF f, s, next, nodes, n, all, L
<1>6. /\ L \in Seq(Seq(Words)) /\ Len(L) = count
      /\ \A k \in 1 .. count :
           /\ L[k] = Comma(k) \o FlattenSeq(NodesShown(all[k], k))
           /\ Comma(k) \in Seq(Words) /\ FlattenSeq(NodesShown(all[k], k)) \in Seq(Words)
  BY <1>2, AllShownFacts DEF L
<1>7. /\ \A k \in 1 .. count : FlatTo(L, k) = FlatTo(L, k - 1) \o L[k]
      /\ \A k \in 0 .. count : FlatTo(L, k) \in Seq(Words)
      /\ FlatTo(L, 0) = << >>
  BY <1>6, FlatUpTo
<1>8. all[i] = nodes
  <2>1. 1 \in 1 .. (count - i) + 1 /\ (i + 1) - 1 = i
    BY <1>2
  <2> QED
    BY <1>1, <1>5, <2>1 DEF f
<1> DEFINE x == FlatTo(L, i - 1)
           c == Comma(i)
           g == FlattenSeq(NodesShown(nodes, i))
<1>9. x \in Seq(Words) /\ c \in Seq(Words) /\ g \in Seq(Words) /\ L[i] = c \o g /\ FlatTo(L, i) = x \o (c \o g)
  <2>1. i - 1 \in 0 .. count
    BY <1>2
  <2> QED
    BY <1>2, <1>6, <1>7, <1>8, <2>1
<1>10. PathText(p, a - 1) = x \o c
  BY <1>1
<1> HIDE DEF count
<1>11. Reads(p, a, i)
  <2> DEFINE y == x \o c
  <2>1. y \in Seq(Words)
    BY <1>9, ConcatProperties
  <2>2. y = << >> <=> x = << >> /\ c = << >>
    BY <1>9, WordsEmpty
  <2>3. CASE i = 1
    <3>1. x = << >> /\ c = << >> /\ ~(i > 1)
      BY <1>7, <2>3 DEF Comma
    <3> QED
      BY <1>2, <1>10, <2>1, <2>2, <3>1 DEF Reads, n
  <2>4. CASE i # 1
    <3>1. i > 1
      BY <1>2, <2>4
    <3>2. c # << >>
      BY <3>1 DEF Comma
    <3>3. y # << >>
      BY <2>2, <3>2
    <3> HIDE DEF y
    <3>4. PathText(p, a - 1) = y
      BY <1>10 DEF y
    <3> QED
      BY <1>2, <2>1, <3>1, <3>3, <3>4 DEF Reads, n
  <2> QED
    BY <2>3, <2>4
<1>12. PathText(p, s - 1) = FlatTo(L, i)
  <2>1. PathText(p, s - 1) = (x \o c) \o g
    BY <1>10, <1>11, InstanceIsShown DEF s, nodes
  <2>2. (x \o c) \o g = x \o (c \o g)
    BY <1>9, WordsAssociate
  <2> QED
    BY <1>9, <2>1, <2>2
<1>13. Len(f) = (count - i) + 1 /\ \A j \in 1 .. (count - i) + 1 : f[j] = all[(i + j) - 1]
  BY <1>1 DEF f, count
<1>14. Len(Tail(f)) = count - i /\ \A j \in 1 .. count - i : Tail(f)[j] = all[((i + 1) + j) - 1]
  <2>1. Len(Tail(f)) = Len(f) - 1 /\ \A j \in 1 .. Len(Tail(f)) : Tail(f)[j] = f[j + 1]
    BY <1>5, HeadTailProperties DEF NodeLists
  <2>2. Len(Tail(f)) = count - i
    BY <1>2, <1>13, <2>1
  <2>3. \A j \in 1 .. count - i : j + 1 \in 1 .. (count - i) + 1 /\ (i + (j + 1)) - 1 = ((i + 1) + j) - 1
    BY <1>2
  <2> QED
    BY <1>13, <2>1, <2>2, <2>3
<1>15. ASSUME i = count
       PROVE  DevicePathToStr(p) = FlatTo(L, i)
  <2>1. next = 0
    <3> SUFFICES ASSUME next # 0 PROVE FALSE
      OBVIOUS
    <3>1. next = s + 1 /\ s # n
      BY <1>3, <1>4
    <3>2. next \in 1 .. Len(p)
      BY <1>2, <1>3, <3>1
    <3>3. FromOf(p)[next] # << >> /\ FromOf(p)[next] \in NodeLists
      BY <3>2, FromType
    <3>4. Len(FromOf(p)[next]) # 0
      BY <3>3, EmptySeq DEF NodeLists
    <3>5. Len(Tail(f)) # 0
      BY <1>5, <3>4
    <3>6. count - i = 0
      BY <1>2, <1>15
    <3> QED
      BY <1>14, <3>5, <3>6
  <2>2. s = n
    BY <1>3, <1>4, <2>1
  <2> QED
    BY <1>12, <2>2, PathTextFacts DEF n
<1>16. ASSUME i < count
       PROVE  ShownTo(p, i + 1)
  <2>1. next # 0
    <3> SUFFICES ASSUME next = 0 PROVE FALSE
      OBVIOUS
    <3>1. Tail(f) = << >>
      BY <1>5, FromFacts
    <3>2. Len(Tail(f)) = 0
      <4> DEFINE q == Tail(f)
      <4>1. q = << >>
        BY <3>1
      <4> HIDE DEF q
      <4>2. Len(q) = 0
        BY <4>1
      <4> QED
        BY <4>2 DEF q
    <3>3. count - i # 0
      BY <1>2, <1>16
    <3> QED
      BY <1>14, <3>2, <3>3
  <2>2. next = s + 1 /\ s # n
    BY <1>3, <1>4, <2>1
  <2>3. s \in 1 .. n - 1 /\ s + 1 \in 1 .. n /\ (s + 1) - 1 = s
    BY <1>2, <1>3, <2>2
  <2>4. PathText(p, s) = Append(PathText(p, s - 1), ",")
    BY <1>3, <2>3, PathTextFacts DEF n
  <2>5. Append(FlatTo(L, i), ",") = FlatTo(L, i) \o <<",">>
    <3>1. "," \in Words
      BY DEF Words
    <3>2. FlatTo(L, i) \in Seq(Words)
      BY <1>2, <1>7
    <3> QED
      BY <3>1, <3>2, AppendIsConcat
  <2>6. Comma(i + 1) = <<",">> /\ (i + 1) - 1 = i
    <3>1. i + 1 > 1 /\ (i + 1) - 1 = i
      BY <1>2
    <3> QED
      BY <3>1 DEF Comma
  <2>7. PathText(p, (s + 1) - 1) = FlatTo(L, (i + 1) - 1) \o Comma(i + 1)
    BY <1>12, <2>3, <2>4, <2>5, <2>6
  <2>8. (count - (i + 1)) + 1 = count - i
    BY <1>2
  <2>9. FromOf(p)[s + 1] = Tail(f)
    BY <1>5, <2>2
  <2>10. /\ Len(FromOf(p)[s + 1]) = (count - (i + 1)) + 1
         /\ \A j \in 1 .. (count - (i + 1)) + 1 : FromOf(p)[s + 1][j] = all[((i + 1) + j) - 1]
    BY <1>14, <2>8, <2>9
  <2> QED
    BY <2>3, <2>7, <2>10 DEF ShownTo, all, count, L, n
<1> QED
  BY <1>15, <1>16 DEF all, count, L

LEMMA PathsAreShown ==
  ASSUME NEW p \in PathSeq
  PROVE  DevicePathToStr(p) = TextOf(InstancesOf(p))
<1> DEFINE all == InstancesOf(p)
           L == AllShown(all)
           Not == {i \in 1 .. Len(all) : ~ShownTo(p, i)}
<1>1. all \in NodeLists /\ all # << >> /\ Len(all) \in Nat \ {0}
  BY InstanceFacts, EmptySeq, LenProperties DEF NodeLists
<1>2. /\ FlattenSeq(L) = FlatTo(L, Len(all)) /\ FlatTo(L, 0) = << >>
  BY <1>1, AllShownFacts, FlatUpTo
<1>3. ShownTo(p, 1)
  <2>1. 1 \in 1 .. EndOf(p) /\ all = FromOf(p)[1]
    BY ReachableFacts, PathFacts, InstancesAre
  <2>2. PathText(p, 1 - 1) = << >> /\ 1 - 1 = 0
    <3>1. 1 - 1 = 0
      OBVIOUS
    <3>2. PathText(p, 0) = << >>
      BY PathTextFacts
    <3> QED
      BY <3>1, <3>2
  <2>3. << >> = FlatTo(L, 1 - 1) \o Comma(1)
    <3>1. << >> \in Seq(Words)
      BY EmptySeq
    <3>2. << >> \o << >> = << >>
      BY <3>1, ConcatEmptySeq
    <3> QED
      BY <1>2, <3>2 DEF Comma
  <2>4. (Len(all) - 1) + 1 = Len(all) /\ \A j \in 1 .. Len(all) : (1 + j) - 1 = j
    BY <1>1
  <2> QED
    BY <2>1, <2>2, <2>3, <2>4 DEF ShownTo
<1> HIDE DEF all, L
<1>4. ASSUME Not # {} PROVE FALSE
  <2>1. PICK i \in Not : \A k \in Not : i <= k
    <3>1. Not \in SUBSET Nat
      OBVIOUS
    <3> HIDE DEF Not
    <3> QED
      BY <1>4, <3>1, LeastIn
  <2>2. i \in 1 .. Len(all) /\ ~ShownTo(p, i)
    OBVIOUS
  <2>3. i # 1
    BY <1>3, <2>2
  <2>4. i - 1 \in 1 .. Len(all) /\ i - 1 < Len(all) /\ (i - 1) + 1 = i /\ ~(i <= i - 1)
    BY <1>1, <2>2, <2>3
  <2>5. i - 1 \notin Not
    <3> HIDE DEF Not
    <3> QED
      BY <2>1, <2>4
  <2>6. ShownTo(p, i - 1)
    BY <2>4, <2>5
  <2>7. ShownTo(p, (i - 1) + 1)
    BY <2>4, <2>6, NextIsShown DEF all
  <2> QED
    BY <2>2, <2>4, <2>7
<1>5. Len(all) \in 1 .. Len(all) /\ ShownTo(p, Len(all))
  <2>1. Len(all) \in 1 .. Len(all)
    BY <1>1
  <2>2. Len(all) \notin Not
    <3> HIDE DEF Not
    <3> QED
      BY <1>4
  <2> QED
    BY <2>1, <2>2
<1>6. DevicePathToStr(p) = FlatTo(L, Len(all))
  BY <1>5, NextIsShown DEF all, L
<1> QED
  BY <1>2, <1>6 DEF TextOf, L, all


-------------------------------------------------------------------------------
(***************************************************************************)
(* Every step is one of the list's.                                        *)
(***************************************************************************)
\* What a caller appends.
LEMMA FrontIs ==
  ASSUME NEW p \in PathSeq
  PROVE  Front(Reachable(p)) = SubSeq(p, 1, EndOf(p) - 1) /\ Last(Reachable(p)) = EndDevicePath
<1> DEFINE s == Reachable(p)
           n == EndOf(p)
<1>1. /\ s \in Seq(AllNodes) /\ p \in Seq(AllNodes) /\ Len(s) = n /\ n \in Nat \ {0}
      /\ n <= Len(p) /\ Len(p) \in Nat
      /\ \A k \in 1 .. n : s[k] = p[k]
      /\ p[n] = EndDevicePath
  BY ReachableFacts, PathFacts DEF PathSeq
<1> HIDE DEF s, n
<1>2. (1 + (n - 1)) - 1 = n - 1
  BY <1>1
<1>3. SamePart(s, 1, p, 1, n - 1)
  <2>1. \A k \in 0 .. (n - 1) - 1 : s[1 + k] = p[1 + k]
    BY <1>1
  <2>2. 1 \in 1 .. Len(s) /\ 1 \in 1 .. Len(p) /\ n - 1 \in Nat
    BY <1>1
  <2> QED
    BY <1>1, <2>1, <2>2 DEF SamePart
<1>4. PartOf(s, 1, n - 1) = PartOf(p, 1, n - 1)
  BY <1>3, SameSubSeq
<1>5. SubSeq(s, 1, n - 1) = SubSeq(p, 1, n - 1)
  BY <1>2, <1>4 DEF PartOf
<1>6. n \in 1 .. n
  BY <1>1
<1> QED
  BY <1>1, <1>5, <1>6 DEF Front, Last, s, n

LEMMA EndAlone ==
  /\ <<EndDevicePath>> \in PathSeq /\ InstancesOf(<<EndDevicePath>>)[1] = << >>
  /\ Tail(InstancesOf(<<EndDevicePath>>)) = << >>
<1> DEFINE q == <<EndDevicePath>>
<1>1. q \in Seq(AllNodes) /\ Len(q) = 1 /\ q[1] = EndDevicePath
  BY EndNodes
<1> HIDE DEF q
<1>2. q \in PathSeq
  <2>1. q # << >>
    BY <1>1, EmptySeq
  <2>2. q[Len(q)] = EndDevicePath
    BY <1>1
  <2> QED
    BY <1>1, <2>1, <2>2 DEF PathSeq
<1>3. 1 \in 1 .. Len(q) /\ \A k \in 1 .. Len(q) : k = 1
  BY <1>1
<1>4. StopOf(q, 1) = 1
  <2>1. StopOf(q, 1) \in 1 .. Len(q)
    BY <1>2, <1>3, StopFacts
  <2> QED
    BY <1>3, <2>1
<1>5. /\ DevicePathInstance(q, 1).nodes = SubSeq(q, 1, 1 - 1)
      /\ DevicePathInstance(q, 1).next = IF IsDevicePathEnd(q[1]) THEN 0 ELSE 1 + 1
  BY <1>2, <1>3, <1>4, NextFacts
<1>6. SubSeq(q, 1, 1 - 1) = << >>
  BY SubSeqEmpty
<1>7. DevicePathInstance(q, 1).next = 0
  BY <1>1, <1>5, EndNodes
<1>8. FromOf(q)[0] = << >>
  BY <1>2, FromFacts
<1>9. /\ FromOf(q)[1][1] = DevicePathInstance(q, 1).nodes
      /\ Tail(FromOf(q)[1]) = FromOf(q)[DevicePathInstance(q, 1).next]
  BY <1>2, <1>3, FromType
<1>10. InstancesOf(q)[1] = << >> /\ Tail(InstancesOf(q)) = << >>
  BY <1>5, <1>6, <1>7, <1>8, <1>9, InstancesAre
<1> QED
  BY <1>2, <1>10 DEF q

LEMMA NodeAlone ==
  ASSUME NEW x \in AllNodes, ~IsDevicePathEndType(x)
  PROVE  <<x, EndDevicePath>> \in PathSeq /\ InstancesOf(<<x, EndDevicePath>>) = <<<<x>>>>
<1> DEFINE s == <<x>>
           q == <<EndDevicePath>>
<1>1. Unended(s)
  BY DEF Unended
<1> DEFINE both == <<x, EndDevicePath>>
<1>2. /\ s \in Seq(AllNodes) /\ Len(s) = 1 /\ s[1] = x
      /\ q \in Seq(AllNodes) /\ Len(q) = 1 /\ q[1] = EndDevicePath
      /\ both \in Seq(AllNodes) /\ Len(both) = 2 /\ both[1] = x /\ both[2] = EndDevicePath
  BY EndNodes
<1>3. s \in Seq(AllNodes)
  BY <1>2
<1> HIDE DEF s, q, both
<1>8. s \o q = both
  <2>1. s \o q \in Seq(AllNodes) /\ Len(s \o q) = 2 /\ (s \o q)[1] = x /\ (s \o q)[2] = EndDevicePath
    BY <1>2, ConcatProperties
  <2> DEFINE sum == s \o q
  <2> HIDE DEF sum
  <2>2. sum \in Seq(AllNodes) /\ Len(sum) = 2 /\ sum[1] = both[1] /\ sum[2] = both[2]
    BY <1>2, <2>1 DEF sum
  <2>3. \A k \in 1 .. Len(sum) : sum[k] = both[k]
    BY <2>2
  <2> QED
    BY <1>2, <2>2, <2>3, SeqEqual DEF sum
<1>4. q \in PathSeq /\ InstancesOf(q)[1] = << >> /\ Tail(InstancesOf(q)) = << >>
  BY EndAlone DEF q
<1>5. s \o q \in PathSeq /\ InstancesOf(s \o q) = <<s \o << >>>> \o << >>
  BY <1>1, <1>4, Prepended
<1>6. s \o << >> = s
  BY <1>3, ConcatEmptySeq
<1>7. <<s>> \o << >> = <<s>>
  <2>1. <<s>> \in Seq(Seq(AllNodes))
    BY <1>3
  <2> QED
    BY <2>1, ConcatEmptySeq
<1>9. both \in PathSeq /\ InstancesOf(both) = <<s>>
  BY <1>5, <1>6, <1>7, <1>8
<1> QED
  BY <1>9 DEF s, both

LEMMA PieceFacts ==
  /\ \A p \in Paths : p \in PathSeq /\ InstancesOf(p) \in PiecesOf
  /\ \A p \in Paths : ~IsDevicePathEndType(p[1]) =>
       <<p[1], EndDevicePath>> \in PathSeq /\ InstancesOf(<<p[1], EndDevicePath>>) \in PiecesOf
  /\ \A name \in Names :
       <<FileNode(name), EndDevicePath>> \in PathSeq
         /\ InstancesOf(<<FileNode(name), EndDevicePath>>) \in PiecesOf
<1>1. ASSUME NEW p \in Paths PROVE p \in PathSeq /\ InstancesOf(p) \in PiecesOf
  BY PathsAreSequences DEF PiecesOf
<1>2. ASSUME NEW p \in Paths, ~IsDevicePathEndType(p[1])
      PROVE  <<p[1], EndDevicePath>> \in PathSeq /\ InstancesOf(<<p[1], EndDevicePath>>) \in PiecesOf
  <2>1. p[1] \in AllNodes
    BY <1>1, PathFacts
  <2>2. <<p[1], EndDevicePath>> \in PathSeq /\ InstancesOf(<<p[1], EndDevicePath>>) = <<<<p[1]>>>>
    BY <1>2, <2>1, NodeAlone
  <2> QED
    BY <1>2, <2>2 DEF PiecesOf
<1>3. ASSUME NEW name \in Names
      PROVE  <<FileNode(name), EndDevicePath>> \in PathSeq
               /\ InstancesOf(<<FileNode(name), EndDevicePath>>) \in PiecesOf
  <2>1. FileNode(name) \in AllNodes
    BY DEF AllNodes
  <2>2. ~IsDevicePathEndType(FileNode(name))
    BY DEF IsDevicePathEndType, FileNode, NodeOf
  <2>3. <<FileNode(name), EndDevicePath>> \in PathSeq
          /\ InstancesOf(<<FileNode(name), EndDevicePath>>) = <<<<FileNode(name)>>>>
    BY <2>1, <2>2, NodeAlone
  <2> QED
    BY <2>3 DEF PiecesOf
<1> QED
  BY <1>1, <1>2, <1>3

PathInv == path \in PathSeq /\ overrun \in BOOLEAN

path_list_vars == <<InstancesOf(path), overrun, path_text, path_call>>

Simulated == PathInv' /\ ~overrun /\ List!Next

LEMMA AppendingIsExtending ==
  ASSUME PathInv, NEW Src2 \in PathSeq, InstancesOf(Src2) \in PiecesOf, append_path(Src2)
  PROVE  Simulated
<1>1. path \in PathSeq /\ ~overrun
  BY DEF PathInv, append_path, Calling
<1>2. /\ path_call' = <<"extend", InstancesOf(Src2)>> /\ path' = AppendDevicePath(path, Src2)
      /\ overrun' = (Total(path') > PathAllocated(path, Src2)) /\ path_text' = path_text
  BY DEF append_path, Calling
<1>3. /\ path' \in PathSeq
      /\ InstancesOf(path') = <<InstancesOf(path)[1] \o InstancesOf(Src2)[1]>> \o Tail(InstancesOf(Src2))
  BY <1>1, <1>2, AppendedPath
<1>4. overrun' \in BOOLEAN /\ (overrun' = TRUE => Len(InstancesOf(path)) > 1)
  <2>1. Len(InstancesOf(path)) \in Nat \ {0}
    BY <1>1, InstanceFacts, EmptySeq DEF NodeLists
  <2>2. CASE Len(InstancesOf(path)) = 1
    <3>1. Total(path') = PathAllocated(path, Src2) /\ Total(path') \in Nat
      BY <1>1, <1>2, <2>2, Fits
    <3>2. ~(Total(path') > PathAllocated(path, Src2))
      BY <3>1
    <3> DEFINE over == Total(path') > PathAllocated(path, Src2)
    <3>3. over \in BOOLEAN /\ over = FALSE
      BY <3>1, <3>2
    <3>4. overrun' = over
      BY <1>2
    <3> HIDE DEF over
    <3> QED
      BY Zenon, <3>3, <3>4
  <2>3. CASE Len(InstancesOf(path)) # 1
    <3>1. Len(InstancesOf(path)) > 1
      BY <2>1, <2>3
    <3> QED
      BY <1>2, <3>1
  <2> QED
    BY <2>2, <2>3
<1>5. InstancesOf(path') = List!Extended(InstancesOf(Src2))
  BY <1>3 DEF List!Extended
<1>6. List!Extend
  BY <1>2, <1>4, <1>5 DEF List!Extend
<1> QED
  BY <1>1, <1>2, <1>3, <1>4, <1>6 DEF List!Next, PathInv, Simulated

LEMMA AddingAdds ==
  ASSUME PathInv, append_instance
  PROVE  Simulated
<1>1. path \in PathSeq /\ ~overrun /\ overrun \in BOOLEAN
  BY DEF PathInv, append_instance, Calling
<1>2. PICK Instance \in Paths :
        /\ path_call' = <<"add", InstancesOf(Instance)>> /\ path' = AppendDevicePathInstance(path, Instance)
        /\ overrun' = overrun /\ path_text' = path_text
  BY DEF append_instance, Calling
<1>3. Instance \in PathSeq /\ InstancesOf(Instance) \in PiecesOf
  BY PieceFacts
<1> DEFINE r == Reachable(Instance)
<1>4. r \in PathSeq /\ InstancesOf(r) = InstancesOf(Instance)
  <2>1. EndOf(Instance) <= Len(r) /\ r \in PathSeq /\ \A k \in 1 .. EndOf(Instance) : r[k] = Instance[k]
    BY <1>3, ReachableFacts, PathFacts
  <2> QED
    BY <1>3, <2>1, EndCuts
<1>5. ToEndInstance(EndDevicePath) = EndInstanceDevicePath
  <2> DEFINE e == EndDevicePath
             i == EndInstanceDevicePath
  <2>1. /\ e = [type |-> "end", sub |-> "entire", length |-> 4, fields |-> << >>, unpacked |-> FALSE]
        /\ i = [type |-> "end", sub |-> "instance", length |-> 4, fields |-> << >>, unpacked |-> FALSE]
    BY DEF EndDevicePath, EndInstanceDevicePath, NodeOf
  <2> DEFINE none == << >>
             no == FALSE
             m == [type |-> "end", sub |-> "instance", length |-> 4, fields |-> none, unpacked |-> no]
             f == [type |-> "end", sub |-> "entire", length |-> 4, fields |-> none, unpacked |-> no]
  <2>2. e = f /\ i = m
    BY <2>1
  <2> HIDE DEF none, no
  <2>3. [f EXCEPT !.sub = "instance"] = m
    OBVIOUS
  <2> HIDE DEF m, f
  <2> QED
    BY <2>2, <2>3 DEF ToEndInstance
<1>6. path' = SubSeq(path, 1, EndOf(path) - 1) \o <<EndInstanceDevicePath>> \o r
  BY <1>1, <1>2, <1>5, FrontIs DEF AppendDevicePathInstance
<1> HIDE DEF r
<1>7. path' \in PathSeq /\ InstancesOf(path') = InstancesOf(path) \o InstancesOf(Instance)
  BY <1>1, <1>4, <1>6, Joined
<1>8. overrun' = FALSE
  BY <1>1, <1>2
<1>9. List!AddInstances
  BY <1>2, <1>3, <1>7, <1>8 DEF List!AddInstances
<1> QED
  BY <1>1, <1>2, <1>7, <1>8, <1>9 DEF List!Next, PathInv, Simulated

LEMMA DuplicatesAreCopies ==
  ASSUME PathInv, duplicate
  PROVE  Simulated
<1>1. path \in PathSeq /\ ~overrun /\ overrun \in BOOLEAN /\ overrun' = overrun /\ path_text' = path_text
  BY DEF PathInv, duplicate, Calling
<1>2. CASE path_call' = <<"copy", << >>>> /\ path' = Reachable(path)
  <2>1. EndOf(path) <= Len(path') /\ path' \in PathSeq /\ \A k \in 1 .. EndOf(path) : path'[k] = path[k]
    BY <1>1, <1>2, ReachableFacts, PathFacts
  <2>2. InstancesOf(path') = InstancesOf(path)
    BY <1>1, <2>1, EndCuts
  <2>3. List!Copy
    BY <1>1, <1>2, <2>2 DEF List!Copy
  <2> QED
    BY <1>1, <2>1, <2>3 DEF List!Next, PathInv, Simulated
<1>3. CASE /\ InstancesOf(path)[1] # << >> /\ path_call' = <<"first", << >>>>
           /\ path' = LibDuplicateDevicePathInstance(path)
  <2> DEFINE first == InstancesOf(path)[1]
  <2>1. first = DevicePathInstance(path, 1).nodes
    <3>1. 1 \in 1 .. Len(path)
      BY <1>1, PathFacts
    <3> QED
      BY <1>1, <3>1, InstancesAre, FromType
  <2>2. first \in Seq(AllNodes) /\ \A n \in 1 .. Len(first) : ~IsDevicePathEndType(first[n])
    BY <1>1, InstanceFacts DEF Unended
  <2> HIDE DEF first
  <2>3. 1 \in DOMAIN first /\ 1 \in 1 .. Len(first) /\ first[1] \in AllNodes /\ ~IsDevicePathEndType(first[1])
    <3>1. first # << >>
      BY <1>3 DEF first
    <3>2. Len(first) \in Nat \ {0}
      BY <2>2, <3>1, EmptySeq
    <3>3. 1 \in 1 .. Len(first)
      BY <3>2
    <3> QED
      BY <2>2, <3>3, LenProperties
  <2>4. path' = <<first[1], EndDevicePath>>
    BY <1>3, <2>1 DEF LibDuplicateDevicePathInstance
  <2>5. path' \in PathSeq /\ InstancesOf(path') = <<<<first[1]>>>>
    BY <2>3, <2>4, NodeAlone
  <2>6. overrun' = FALSE
    BY <1>1
  <2>7. List!KeepFirst
    BY <1>3, <2>3, <2>5, <2>6 DEF List!KeepFirst, first
  <2> QED
    BY <1>1, <2>5, <2>7 DEF List!Next, PathInv, Simulated
<1> QED
  BY <1>2, <1>3 DEF duplicate, Calling

LEMMA PrintingShows ==
  ASSUME PathInv, print_path
  PROVE  Simulated
<1>1. /\ path \in PathSeq /\ ~overrun /\ overrun \in BOOLEAN /\ overrun' = overrun /\ path' = path
      /\ path_call' = <<"show", << >>>> /\ path_text' = DevicePathToStr(path)
  BY DEF PathInv, print_path, Calling
<1>2. path_text' = List!Text
  BY <1>1, PathsAreShown, TextIs
<1>3. List!Show
  BY <1>1, <1>2 DEF List!Show
<1> QED
  BY <1>1, <1>3 DEF List!Next, PathInv, Simulated

\* What the functions make of the nodes of a path is what the caller has in mind: the
\* list of instances is extended, added to, copied and shown as PathList says.
THEOREM PathsImplementList == PathsSpec => PathsSurvive
<1>1. PathsInit => PathInv /\ List!Init
  <2> SUFFICES ASSUME PathsInit PROVE PathInv /\ List!Init
    OBVIOUS
  <2>1. path \in PathSeq /\ InstancesOf(path) \in PiecesOf
    BY PieceFacts DEF PathsInit
  <2> QED
    BY <2>1 DEF PathsInit, PathInv, List!Init
<1>2. PathInv /\ [PathsNext]_path_vars => PathInv' /\ [~overrun /\ List!Next]_path_list_vars
  <2> SUFFICES ASSUME PathInv, [PathsNext]_path_vars
               PROVE  PathInv' /\ [~overrun /\ List!Next]_path_list_vars
    OBVIOUS
  <2>1. CASE append_DevicePath
    <3>1. PICK Src2 \in Paths : append_path(Src2)
      BY <2>1 DEF append_DevicePath
    <3>2. Simulated
      BY <3>1, PieceFacts, AppendingIsExtending
    <3> QED
      BY <3>2 DEF Simulated
  <2>2. CASE append_node
    <3>1. PICK p \in Paths : ~IsDevicePathEndType(p[1]) /\ append_path(<<p[1], EndDevicePath>>)
      BY <2>2 DEF append_node
    <3>2. Simulated
      BY <3>1, PieceFacts, AppendingIsExtending
    <3> QED
      BY <3>2 DEF Simulated
  <2>3. CASE FileDevicePath
    <3>1. PICK name \in Names : append_path(<<FileNode(name), EndDevicePath>>)
      BY <2>3 DEF FileDevicePath
    <3>2. Simulated
      BY <3>1, PieceFacts, AppendingIsExtending
    <3> QED
      BY <3>2 DEF Simulated
  <2>4. CASE append_instance
    BY <2>4, AddingAdds DEF Simulated
  <2>5. CASE duplicate
    BY <2>5, DuplicatesAreCopies DEF Simulated
  <2>6. CASE print_path
    BY <2>6, PrintingShows DEF Simulated
  <2>7. CASE UNCHANGED path_vars
    BY <2>7 DEF path_vars, path_list_vars, PathInv
  <2> QED
    BY <2>1, <2>2, <2>3, <2>4, <2>5, <2>6, <2>7 DEF PathsNext
<1> QED
  BY <1>1, <1>2, PTL DEF PathsSpec, PathsSurvive, List!Spec, path_list_vars

====
