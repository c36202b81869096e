------------------------------- MODULE EfiTasks -------------------------------
(***************************************************************************)
(* gnu-efi's locks (lib/lock.c, lib/runtime/rtlock.c), protocol            *)
(* notifications (LibCreateProtocolNotifyEvent, lib/event.c) and protocol  *)
(* installation (lib/hand.c), under the firmware's task priorities.        *)
(*                                                                         *)
(* There is one processor.  The application runs at the bottom of a stack  *)
(* of tasks; an event whose level is above the current one puts its notify *)
(* function on top, in the middle of whatever is running.  The             *)
(* application makes the library's calls, one after another; a function    *)
(* registered for a protocol looks at its instances, and a driver's timer  *)
(* installs or removes an instance of its own.  All three use one lock.    *)
(***************************************************************************)
EXTENDS Naturals, Sequences, FiniteSets

CONSTANTS
  Handles, Protocols,   \* what the firmware has handles for; protocols
  Lists,                \* lists of protocols the application installs
  NotifyLevels,         \* levels notify functions are created with
  LockTpl,              \* the lock's level
  MaxCalls, MaxTicks, MaxRefusals,  \* bounds: calls of the application,
                        \* timer events of the driver, installations refused
  NoHandle

\* TPL_APPLICATION, TPL_CALLBACK, TPL_NOTIFY
APPLICATION == 0
CALLBACK == 1
NOTIFY == 2

\* A lock is shared by tasks that come in at its level or below, and held by none
\* that calls the library at a higher one.
ASSUME TasksAssumption ==
  /\ Protocols # {} /\ NoHandle \notin Handles
  /\ Lists \subseteq Seq(Protocols)
  /\ LockTpl \in CALLBACK .. NOTIFY /\ NotifyLevels \subseteq CALLBACK .. LockTpl

VARIABLES
  tpl,        \* the current level
  tasks,      \* the stack of tasks: who it is, its next step, the level to go back to
  Lock,       \* the FLOCK
  db,         \* <<handle, protocol, interface>> of every installed interface
  Handle,     \* the application's handle, as *Handle
  call,       \* the library's function it is in, with its locals
  event,      \* the protocol's event: [protocol, level, is] ("none", "created",
              \* "registered" or "kicked")
  signalled,  \* events whose notify function is to run
  seen,       \* the handles the notify function found last
  calls, ticks, refusals

task_vars == <<tpl, tasks, Lock, db, Handle, call, event, signalled, seen,
               calls, ticks, refusals>>

\* An interface: which call installed it, with which protocols; or the driver's.
Driver == <<0, << >>>>

NoCall == [op |-> "none"]
application == [who |-> "application", pc |-> "idle", back |-> APPLICATION]

\* InitializeLock(Lock, LockTpl), and no call made yet.
TasksInit ==
  /\ tpl = APPLICATION /\ tasks = <<application>>
  /\ Lock = [OwnerTpl |-> 0, Lock |-> 0]
  /\ db = {} /\ Handle = NoHandle /\ call = NoCall
  /\ event = [protocol |-> CHOOSE p \in Protocols : TRUE, level |-> NOTIFY, is |-> "none"]
  /\ signalled = {} /\ seen = {}
  /\ calls = 0 /\ ticks = 0 /\ refusals = 0

-------------------------------------------------------------------------------
(***************************************************************************)
(* The firmware: levels and events.                                        *)
(***************************************************************************)
Level(e) == IF e = "timer" THEN CALLBACK ELSE event.level
Due == {e \in signalled : Level(e) > tpl}
top == tasks[Len(tasks)]

\* The task on top takes a step; a due notify function goes first.
Step(from, to) ==
  /\ Due = {} /\ top.pc = from
  /\ tasks' = [tasks EXCEPT ![Len(tasks)].pc = to]

\* The notify function of the highest event due is called at its level.
dispatch ==
  \E e \in Due :
    /\ \A d \in Due : Level(d) <= Level(e)
    /\ tasks' = Append(tasks, [who |-> e, pc |-> "idle", back |-> tpl])
    /\ tpl' = Level(e) /\ signalled' = signalled \ {e}
    /\ UNCHANGED <<Lock, db, Handle, call, event, seen, calls, ticks, refusals>>

notify_return ==
  /\ Due = {} /\ top.pc = "end"
  /\ tasks' = SubSeq(tasks, 1, Len(tasks) - 1) /\ tpl' = top.back
  /\ UNCHANGED <<Lock, db, Handle, call, event, signalled, seen, calls, ticks, refusals>>

timer_tick ==
  /\ ticks < MaxTicks /\ ticks' = ticks + 1
  /\ signalled' = signalled \union {"timer"}
  /\ UNCHANGED <<tpl, tasks, Lock, db, Handle, call, event, seen, calls, refusals>>

On(p) == {d[1] : d \in {x \in db : x[2] = p}}
Used == {d[1] : d \in db}

\* InstallProtocolInterface of p on h: a new handle for none.  It is refused for
\* a protocol the handle has, and may be for want of memory.
Installed(h, p, interface) ==
  /\ h \notin On(p)
  /\ \E new \in IF h = NoHandle THEN Handles \ Used ELSE {h} :
        /\ db' = db \union {<<new, p, interface>>}
        /\ Handle' = IF interface = Driver THEN Handle ELSE new
  /\ signalled' = IF event.is \in {"registered", "kicked"} /\ event.protocol = p
                  THEN signalled \union {"protocol"} ELSE signalled
  /\ UNCHANGED refusals

InstallRefused(h, p) ==
  /\ UNCHANGED <<db, Handle, signalled>>
  /\ \/ (h \in On(p) \/ (h = NoHandle /\ Handles = Used)) /\ UNCHANGED refusals
     \/ refusals < MaxRefusals /\ refusals' = refusals + 1

\* UninstallProtocolInterface removes what it finds.
Uninstalled(h, p, interface) == db' = db \ {<<h, p, interface>>}

-------------------------------------------------------------------------------
(***************************************************************************)
(* The lock, for whichever task is on top.                                 *)
(***************************************************************************)
Locking == UNCHANGED <<db, Handle, call, event, signalled, seen, ticks, refusals>>

\* A mutation: the lock counts without raising the level.
raised_Not == tpl
raised == LockTpl

\* RtAcquireLock, called by the application between its calls and by a notify
\* function first of all.
RtAcquireLock_raise ==
  /\ call.op = "none" \/ top.who # "application"
  /\ IF top.who = "application" THEN calls < MaxCalls /\ calls' = calls + 1
     ELSE UNCHANGED calls
  /\ Step("idle", "acquire")
  /\ Lock' = [Lock EXCEPT !.OwnerTpl = tpl] /\ tpl' = raised
  /\ Locking

RtAcquireLock_count ==
  /\ Step("acquire", "locked")
  /\ Lock' = [Lock EXCEPT !.Lock = @ + 1]
  /\ UNCHANGED <<tpl, calls>> /\ Locking

RtReleaseLock_count ==
  /\ \/ top.who = "application" /\ call.op = "none" /\ Step("locked", "release")
     \/ Step("used", "release")
  /\ Lock' = [Lock EXCEPT !.Lock = @ - 1]
  /\ UNCHANGED <<tpl, calls>> /\ Locking

\* OwnerTpl was read before the count went down.
RtReleaseLock_restore ==
  /\ Step("release", IF top.who = "application" THEN "idle" ELSE "end")
  /\ tpl' = Lock.OwnerTpl
  /\ UNCHANGED <<Lock, calls>> /\ Locking

\* The protocol's notify function finds the instances, with LibLocateHandle or
\* LibLocateProtocol, whose retries are of no concern here.
notify_look ==
  /\ top.who = "protocol" /\ Step("locked", "used")
  /\ seen' = On(event.protocol)
  /\ UNCHANGED <<tpl, Lock, db, Handle, call, event, signalled, calls, ticks, refusals>>

\* The driver installs a protocol on a handle, or removes the one it has.
driver ==
  /\ top.who = "timer" /\ Step("locked", "used")
  /\ \E p \in Protocols :
       \/ \E h \in Used \union {NoHandle} : Installed(h, p, Driver) \/ InstallRefused(h, p)
       \/ \E h \in On(p) : /\ Uninstalled(h, p, Driver)
                           /\ UNCHANGED <<Handle, signalled, refusals>>
  /\ UNCHANGED <<tpl, Lock, call, event, seen, calls, ticks>>

-------------------------------------------------------------------------------
(***************************************************************************)
(* The application's calls: between them, or holding the lock.             *)
(***************************************************************************)
Running == Due = {} /\ top.who = "application" /\ top.pc \in {"idle", "locked"}

Begin(op) ==
  /\ Running /\ call.op = "none" /\ calls < MaxCalls
  /\ calls' = calls + 1 /\ call' = op
  /\ UNCHANGED <<tasks, Lock, db, signalled, seen, ticks, refusals>>

Within(op) ==
  /\ Running /\ call.op = op
  /\ UNCHANGED <<tasks, Lock, seen, calls, ticks>>

\* A mutation: nobody is kept from looking.
synchronized_Not == tpl
synchronized == NOTIFY

LibInstallProtocolInterfaces ==
  \E list \in Lists, h \in {NoHandle, Handle} :
    /\ Begin([op |-> "install", list |-> list, id |-> calls + 1, n |-> 0,
              OldTpl |-> tpl, OldHandle |-> h, k |-> 1])
    /\ tpl' = synchronized /\ Handle' = h
    /\ UNCHANGED event

Interface == <<call.id, call.list>>

install_one ==
  /\ Within("install") /\ call.n < Len(call.list)
  /\ LET p == call.list[call.n + 1]
     IN  \/ Installed(Handle, p, Interface) /\ call' = [call EXCEPT !.n = @ + 1]
         \/ InstallRefused(Handle, p) /\ call' = [call EXCEPT !.op = "undo"]
  /\ UNCHANGED <<tpl, event>>

\* What was installed is removed again, in the order it was installed.
undo_one ==
  /\ Within("undo") /\ call.n > 0
  /\ Uninstalled(Handle, call.list[call.k], Interface)
  /\ call' = [call EXCEPT !.n = @ - 1, !.k = @ + 1]
  /\ UNCHANGED <<tpl, Handle, event, signalled, refusals>>

install_return ==
  /\ \/ Within("install") /\ call.n = Len(call.list) /\ UNCHANGED Handle
     \/ Within("undo") /\ call.n = 0 /\ Handle' = call.OldHandle
  /\ tpl' = call.OldTpl /\ call' = NoCall
  /\ UNCHANGED <<db, event, signalled, refusals>>

\* Removes, at the caller's level and one by one, what an installation put there.
LibUninstallProtocolInterfaces ==
  \E d \in db :
    /\ d[3] # Driver
    /\ Begin([op |-> "uninstall", Handle |-> d[1], interface |-> d[3], n |-> 0])
    /\ UNCHANGED <<tpl, Handle, event>>

uninstall_one ==
  /\ Within("uninstall")
  /\ LET list == call.interface[2]
     IN  \/ /\ call.n < Len(list)
            /\ Uninstalled(call.Handle, list[call.n + 1], call.interface)
            /\ call' = [call EXCEPT !.n = @ + 1]
         \/ call.n = Len(list) /\ call' = NoCall /\ UNCHANGED db
  /\ UNCHANGED <<tpl, Handle, event, signalled, refusals>>

\* Hands the firmware the address of the caller's variable where a handle is
\* wanted: the first reinstallation is refused, and there is nothing to undo.
LibReinstallProtocolInterfaces ==
  /\ Begin([op |-> "reinstall", OldTpl |-> tpl])
  /\ tpl' = NOTIFY
  /\ UNCHANGED <<Handle, event>>

reinstall_refused ==
  /\ Within("reinstall")
  /\ tpl' = call.OldTpl /\ call' = NoCall
  /\ UNCHANGED <<db, Handle, event, signalled, refusals>>

\* CreateEvent may be refused, and RegisterProtocolNotify with the event left
\* behind: both give NULL.
LibCreateProtocolNotifyEvent ==
  /\ event.is = "none"
  /\ \E p \in Protocols, level \in NotifyLevels :
       /\ Begin([op |-> "create"])
       /\ event' = [protocol |-> p, level |-> level, is |-> "created"]
  /\ UNCHANGED <<tpl, Handle>>

register ==
  /\ Within("create") /\ event.is = "created"
  /\ \/ event' = [event EXCEPT !.is = "registered"] /\ UNCHANGED <<call, refusals>>
     \/ /\ refusals < MaxRefusals /\ refusals' = refusals + 1
        /\ call' = NoCall /\ UNCHANGED event
  /\ UNCHANGED <<tpl, db, Handle, signalled>>

\* A mutation: only what comes after the registration is notified.
kick_Never == signalled
kick == signalled \union {"protocol"}

signal ==
  /\ Within("create") /\ event.is = "registered"
  /\ signalled' = kick
  /\ event' = [event EXCEPT !.is = "kicked"] /\ call' = NoCall
  /\ UNCHANGED <<tpl, db, Handle, refusals>>

-------------------------------------------------------------------------------
Tasks ==
  \/ dispatch \/ notify_return \/ notify_look \/ driver
  \/ RtAcquireLock_raise \/ RtAcquireLock_count
  \/ RtReleaseLock_count \/ RtReleaseLock_restore
  \/ LibInstallProtocolInterfaces \/ install_one \/ undo_one \/ install_return
  \/ LibUninstallProtocolInterfaces \/ uninstall_one
  \/ LibReinstallProtocolInterfaces \/ reinstall_refused
  \/ LibCreateProtocolNotifyEvent \/ register \/ signal

TasksNext == Tasks \/ timer_tick

\* The processor does not stop.
TasksSpec == TasksInit /\ [][TasksNext]_task_vars /\ WF_task_vars(Tasks)

-------------------------------------------------------------------------------
\* The lock is held by at most one task, and its count says whether it is: no
\* notify function comes in while another task is between RtAcquireLock and
\* RtReleaseLock, and both ASSERTs of rtlock.c hold.  With nobody in a lock or in
\* a call, the level is the application's again.
LocksExclude ==
  LET holders == {t \in DOMAIN tasks : tasks[t].pc \in {"locked", "used"}}
  IN  /\ Cardinality(holders) <= 1 /\ Lock.Lock = Cardinality(holders)
      /\ tasks = <<application>> /\ call.op \in {"none", "uninstall", "create"}
            => tpl = APPLICATION

\* Whoever can look at the handles at a level below TPL_NOTIFY finds all the
\* interfaces of one LibInstallProtocolInterfaces, on one handle, or none of
\* them, but for those LibUninstallProtocolInterfaces is removing.
NoHalfInstalled ==
  \A d \in db :
    d[3] # Driver /\ (tpl < NOTIFY \/ (top.who = "protocol" /\ top.pc = "locked"))
      => \/ (call.op = "uninstall" /\ call.interface = d[3])
         \/ \A n \in DOMAIN d[3][2] : <<d[1], d[3][2][n], d[3]>> \in db

\* Once LibCreateProtocolNotifyEvent has returned an event, its notify function
\* comes to see every handle that has the protocol, whether the protocol was
\* installed before the event, while it was being made, or after, unless it is
\* removed first.
NothingMissed ==
  \A h \in Handles :
    event.is = "kicked" /\ call.op = "none" /\ h \in On(event.protocol)
      ~> h \in seen \/ h \notin On(event.protocol)
===============================================================================
