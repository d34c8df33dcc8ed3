----------------------------- MODULE SessionLife -----------------------------
(***************************************************************************)
(* The life of one named session: the commands that start, stop and change *)
(* it, the worker processes they start, and what they share, state.json,   *)
(* the marker file port.released and the virtual port pairs.               *)
(*                                                                         *)
(* No lock protects state.json: every command and every worker loads it,   *)
(* changes its copy and saves the copy. A Load or a Save is a step; what a *)
(* command does between two of them is a step of its own when it touches   *)
(* a process, the control channel or a file.                               *)
(*                                                                         *)
(* A pid is the number of the worker in the order they are started; it is  *)
(* not reused. The fields of State are those the life cycle depends on:    *)
(* the virtual and the hub ports are one Boolean, HubPID is always 0, and  *)
(* CheckOffset is left out, so sio check and sio clear are a Load and a    *)
(* Save of the same copy.                                                  *)
(***************************************************************************)
EXTENDS Naturals, FiniteSets

CONSTANTS
    Commands,    \* sio processes that may run at the same time
    Ops,         \* which commands each of them may be
    SlowExit,    \* a killed worker may outlast waitForProcessExit
    MaxWorkers   \* bound: workers started, and control addresses reserved

AllOps == {"open", "stop", "rm", "check", "pause", "resume", "share", "tcp", "clearShare"}

ASSUME LifeAssumption ==
    /\ Ops \in [Commands -> SUBSET AllOps]
    /\ SlowExit \in BOOLEAN
    /\ MaxWorkers \in Nat \ {0}

Pids == 1 .. MaxWorkers

(* Control addresses are numbered as they are reserved; the address given  *)
(* to sio tcp is one more, 0 is the empty address.                         *)
TCPListen == MaxWorkers + 1
Addresses == 0 .. TCPListen

VARIABLES
    state,       \* state.json, NoState when there is none
    marker,      \* port.released exists
    pairs,       \* the driver has the session's virtual port pairs
    worker,      \* the worker processes
    started,     \* how many have been started
    reserved,    \* how many control addresses have been reserved
    cmd,         \* the commands that run
    plugged,     \* the serial device is there
    borrowed,    \* another program has it open
    told,        \* what the last command that changes the life cycle promised
    clearFailed  \* the last clear --share could not remove the pairs

vars == <<state, marker, pairs, worker, started, reserved, cmd, plugged, borrowed,
          told, clearFailed>>

Statuses == {"none", "configured", "sharing", "paused", "stopped", "tcp"}
States == [status : Statuses, paused : BOOLEAN, vports : BOOLEAN, tcp : BOOLEAN,
           ctl : Addresses, pid : 0 .. MaxWorkers]

NoState == [status |-> "none", paused |-> FALSE, vports |-> FALSE, tcp |-> FALSE,
            ctl |-> 0, pid |-> 0]

\* A process that has not been started, has ended by itself or was killed.
NoWorker == [step |-> "none", mode |-> "none", st |-> NoState, holds |-> FALSE]
Exited   == [NoWorker EXCEPT !.step = "exited"]
Dead     == [NoWorker EXCEPT !.step = "dead"]

Idle == [op |-> "none", pc |-> "idle", st |-> NoState, old |-> NoState, pid |-> 0,
         failed |-> FALSE]

Init ==
    /\ state = NoState /\ marker = FALSE /\ pairs = FALSE
    /\ worker = [w \in Pids |-> NoWorker] /\ started = 0 /\ reserved = 0
    /\ cmd = [c \in Commands |-> Idle]
    /\ plugged = TRUE /\ borrowed = FALSE
    /\ told = "none" /\ clearFailed = FALSE

-----------------------------------------------------------------------------
(* What the code reads off a State and off a process. The forms named      *)
(* Slip... are slips the checks must notice.                               *)

Exists(st) == st.status # "none"

\* runWorkerAuto and workerModeForState choose the mode.
AutoMode(st) == IF st.vports THEN "share" ELSE IF st.tcp THEN "tcp" ELSE "session"
Mode(st) ==
    IF st.tcp THEN "tcp"
    ELSE IF st.vports \/ st.status = "sharing" THEN "share" ELSE "session"

\* sessionDialAddress, and the address a worker with this State listens at.
DialAddress(st) == IF st.ctl # 0 THEN st.ctl ELSE IF st.tcp THEN TCPListen ELSE 0

Steps == {"start", "picked", "loaded", "saved", "trying", "serving", "doomed"}

\* isProcessRunning(pid): a killed process runs until it is gone.
SlipRunning(pid) == pid # 0 /\ worker[pid].step \in {"start", "serving", "doomed"}
Running(pid)     == pid # 0 /\ worker[pid].step \in Steps

Listening(address) ==
    {w \in Pids : worker[w].step = "serving" /\ DialAddress(worker[w].st) = address}

\* workerPortLeaseSupport looks for the start line of that worker in its log.
LeaseSupport(st) ==
    /\ st.pid # 0 /\ st.status # "sharing"
    /\ Exists(worker[st.pid].st)
    /\ worker[st.pid].mode = Mode(st) /\ Mode(st) # "share"

PortFree == plugged /\ ~borrowed /\ \A w \in Pids : ~worker[w].holds

\* stopProcess(pid).
SlipKill(pid) == worker' = worker
Kill(pid) ==
    worker' = IF Running(pid) THEN [worker EXCEPT ![pid].step = "doomed"] ELSE worker

-----------------------------------------------------------------------------
(* The worker process: runWorkerAuto, then the worker of its mode, then    *)
(* RunWithRetry around the server.                                         *)

others == <<pairs, started, reserved, cmd, plugged, borrowed, told, clearFailed>>

WorkerPicks(w) ==
    /\ worker[w].step = "start"
    /\ worker' = [worker EXCEPT ![w] =
          IF Exists(state) THEN [@ EXCEPT !.step = "picked", !.mode = AutoMode(state)]
          ELSE Exited]
    /\ UNCHANGED <<others, state, marker>>

\* The lease modes clear the marker when they start, and again when they
\* return because the session is paused or has no address to listen at.
CanStart(st, mode) ==
    /\ ~st.paused
    /\ mode = "session" => st.ctl # 0
    /\ mode = "tcp" => st.tcp

WorkerLoads(w) ==
    /\ worker[w].step = "picked"
    /\ worker' = [worker EXCEPT ![w] =
          IF Exists(state) /\ CanStart(state, @.mode)
          THEN [@ EXCEPT !.step = "loaded", !.st = state] ELSE Exited]
    /\ marker' = (marker /\ (worker[w].mode = "share" \/ ~Exists(state)))
    /\ UNCHANGED <<others, state>>

Recorded(w) ==
    [worker[w].st EXCEPT !.pid = w,
        !.status = [session |-> "configured", share |-> "sharing", tcp |-> "tcp"][worker[w].mode]]

\* The share worker saves twice (the second time with HubPID = 0).
WorkerSaves(w) ==
    /\ worker[w].step \in {"loaded", "saved"}
    /\ state' = Recorded(w)
    /\ worker' = [worker EXCEPT ![w].st = Recorded(w),
                     ![w].step = IF @ = "loaded" /\ worker[w].mode = "share"
                                 THEN "saved" ELSE "trying"]
    /\ UNCHANGED <<others, marker>>

\* The server has opened the port (and the hub ports) and listens.
WorkerServes(w) ==
    /\ worker[w].step = "trying"
    /\ PortFree /\ Listening(DialAddress(worker[w].st)) = {}
    /\ worker[w].mode = "share" /\ worker[w].st.vports => pairs
    /\ worker' = [worker EXCEPT ![w].step = "serving", ![w].holds = TRUE]
    /\ UNCHANGED <<others, state, marker>>

SlipShouldStop == ~Exists(state) \/ state.status \in {"stopped", "configured"}
ShouldStop     == ~Exists(state) \/ state.status = "stopped"

\* The server returned an error: it could not open the port, or the port it
\* reads from is gone. It is retried after a delay unless the session was
\* stopped.
WorkerFails(w) ==
    /\ \/ worker[w].step = "trying"
       \/ worker[w].step = "serving" /\ worker[w].holds /\ ~plugged
    /\ IF ShouldStop
       THEN /\ worker' = [worker EXCEPT ![w] = Exited]
            /\ marker' = (marker /\ worker[w].mode = "share")
       ELSE /\ worker' = [worker EXCEPT ![w].step = "trying", ![w].holds = FALSE]
            /\ UNCHANGED marker
    /\ UNCHANGED <<others, state>>

\* The process dies without running its deferred calls.
WorkerCrashes(w) ==
    /\ worker[w].step \in Steps
    /\ worker' = [worker EXCEPT ![w] = Dead]
    /\ UNCHANGED <<others, state, marker>>

\* The lease of a worker in session or tcp mode; the reply of a request comes
\* after the worker has written the marker.
Release(w) ==
    /\ worker[w].step = "serving" /\ worker[w].mode # "share"
    /\ worker' = [worker EXCEPT ![w].holds = FALSE]
    /\ marker' = (marker \/ worker[w].holds)

Acquire(w) ==
    /\ worker[w].step = "serving" /\ worker[w].mode # "share"
    /\ worker[w].holds \/ PortFree
    /\ worker' = [worker EXCEPT ![w].holds = TRUE]
    /\ marker' = (marker /\ worker[w].holds)

\* Ctrl+S and Ctrl+R in an attached sio shell; taking the port back ends what
\* a pause has promised.
ShellReleases(w) == Release(w) /\ UNCHANGED <<others, state>>
ShellAcquires(w) ==
    /\ Acquire(w)
    /\ told' = IF told = "paused" THEN "none" ELSE told
    /\ UNCHANGED <<pairs, started, reserved, cmd, plugged, borrowed, clearFailed, state>>

Worker(w) ==
    WorkerPicks(w) \/ WorkerLoads(w) \/ WorkerSaves(w) \/ WorkerServes(w) \/ WorkerFails(w)

-----------------------------------------------------------------------------
(* Commands. A command goes from step to step with its copy of the state;  *)
(* an error ends it.                                                       *)

Goto(c, pc)     == cmd' = [cmd EXCEPT ![c].pc = pc]
GotoWith(c, pc, st) == cmd' = [cmd EXCEPT ![c].pc = pc, ![c].st = st]
Finish(c)       == cmd' = [cmd EXCEPT ![c] = Idle]
Op(c)           == cmd[c].op
At(c, pc)       == cmd[c].pc = pc

outside == <<started, reserved, plugged, borrowed, told, clearFailed>>

Launches(op) == op \in {"open", "share", "tcp"}
Launching    == {c \in Commands : Launches(Op(c))}

FirstStep(op) ==
    CASE op = "check"              -> "saving"
      [] op \in {"pause", "resume"} -> "asking"
      [] op = "clearShare"         -> IF state.vports \/ state.status = "sharing"
                                      THEN "stopping" ELSE "clearing"
      [] op = "open"               -> IF Exists(state) THEN "stopping" ELSE "reserving"
      [] OTHER                     -> "stopping"

\* The first Load; only open and clear --share do without a state. A command
\* other than check takes back what an earlier one has promised.
Begin(c, op) ==
    /\ At(c, "idle")
    /\ op \in {"open", "clearShare"} \/ Exists(state)
    /\ Launches(op) => {started, reserved} \subseteq 0 .. MaxWorkers - 1 - Cardinality(Launching)
    /\ cmd' = [cmd EXCEPT ![c] = [Idle EXCEPT !.op = op, !.pc = FirstStep(op),
                                              !.st = state, !.old = state]]
    /\ told' = IF op = "check" THEN told ELSE "none"
    /\ UNCHANGED <<state, marker, pairs, worker, started, reserved, plugged, borrowed,
                   clearFailed>>

(* stopLiveResources, and stopProcessesOnly for clear --share and for a    *)
(* tcp that keeps the shared ports.                                        *)

KeepsPairs(c) ==
    \/ Op(c) = "clearShare"
    \/ Op(c) = "tcp" /\ cmd[c].old.status = "sharing" /\ cmd[c].old.vports

StopFinds(c) ==
    /\ At(c, "stopping")
    /\ Goto(c, IF Running(cmd[c].st.pid) THEN "killing" ELSE "cleaning")
    /\ UNCHANGED <<outside, state, marker, pairs, worker>>

\* Killing a process that has ended in the meantime is an error.
StopKills(c) ==
    /\ At(c, "killing")
    /\ Kill(cmd[c].st.pid)
    /\ cmd' = IF Running(cmd[c].st.pid)
              THEN [cmd EXCEPT ![c].pc = "waiting"]
              ELSE [cmd EXCEPT ![c].pc = "cleaning", ![c].failed = TRUE]
    /\ UNCHANGED <<outside, state, marker, pairs>>

StopWaits(c) ==
    /\ At(c, "waiting") /\ ~Running(cmd[c].st.pid)
    /\ Goto(c, "cleaning")
    /\ UNCHANGED <<outside, state, marker, pairs, worker>>

StopTimesOut(c) ==
    /\ At(c, "waiting") /\ Running(cmd[c].st.pid) /\ SlowExit
    /\ cmd' = [cmd EXCEPT ![c].pc = "cleaning", ![c].failed = TRUE]
    /\ UNCHANGED <<outside, state, marker, pairs, worker>>

SlipStopCleans(c) ==
    /\ At(c, "cleaning")
    /\ cmd' = [cmd EXCEPT ![c].pc = "stopped"]
    /\ pairs' = (pairs /\ (KeepsPairs(c) \/ ~cmd[c].st.vports))
    /\ UNCHANGED <<outside, state, marker, worker>>

\* Removing the session's pairs may fail.
StopCleans(c) ==
    /\ At(c, "cleaning")
    /\ IF KeepsPairs(c)
       THEN Goto(c, "stopped") /\ UNCHANGED <<marker, pairs>>
       ELSE /\ marker' = FALSE
            /\ \E fails \in IF cmd[c].st.vports THEN BOOLEAN ELSE {FALSE} :
                  /\ cmd' = [cmd EXCEPT ![c].pc = "stopped", ![c].failed = @ \/ fails]
                  /\ pairs' = (pairs /\ (fails \/ ~cmd[c].st.vports))
    /\ UNCHANGED <<outside, state, worker>>

Stopping(c) ==
    StopFinds(c) \/ StopKills(c) \/ StopWaits(c) \/ StopTimesOut(c) \/ StopCleans(c)

(* sio stop, sio rm, sio clear --share.                                    *)

Stopped(st)     == [NoState EXCEPT !.status = "stopped"]
\* What an incomplete stop leaves: the virtual ports stay for a retry.
Incomplete(st)  == [Stopped(st) EXCEPT !.vports = st.vports]

\* Both print a warning; stop goes on to print "stopped", rm says "not removed".
StopIncomplete(c) ==
    /\ At(c, "stopped") /\ Op(c) \in {"stop", "rm"} /\ cmd[c].failed
    /\ state' = Incomplete(cmd[c].st)
    /\ Finish(c)
    /\ told' = IF Op(c) = "stop" THEN "stopped" ELSE told
    /\ UNCHANGED <<marker, pairs, worker, started, reserved, plugged, borrowed, clearFailed>>

\* Store.Stop: it loads the state again, and saves it, and clears the marker.
\* clear --share calls it even when a worker could not be stopped.
StopLoads(c) ==
    /\ At(c, "stopped") /\ Op(c) \in {"stop", "clearShare"}
    /\ Op(c) = "stop" => ~cmd[c].failed
    /\ IF Exists(state) THEN GotoWith(c, "saving", state)
       ELSE IF Op(c) = "stop" THEN Finish(c) ELSE Goto(c, "clearing")
    /\ UNCHANGED <<outside, state, marker, pairs, worker>>

StopSaves(c) ==
    /\ At(c, "saving") /\ Op(c) \in {"stop", "clearShare"}
    /\ state' = Stopped(cmd[c].st)
    /\ marker' = FALSE
    /\ IF Op(c) = "stop"
       THEN Finish(c) /\ told' = "stopped"
       ELSE Goto(c, "clearing") /\ UNCHANGED told
    /\ UNCHANGED <<pairs, worker, started, reserved, plugged, borrowed, clearFailed>>

Remove(c) ==
    /\ At(c, "stopped") /\ Op(c) = "rm" /\ ~cmd[c].failed
    /\ state' = NoState /\ marker' = FALSE
    /\ Finish(c) /\ told' = "removed"
    /\ UNCHANGED <<pairs, worker, started, reserved, plugged, borrowed, clearFailed>>

\* ClearSharePorts removes every pair of the machine, or fails.
ClearPorts(c) ==
    /\ At(c, "clearing")
    /\ clearFailed' \in BOOLEAN
    /\ pairs' = (pairs /\ clearFailed')
    /\ Finish(c)
    /\ UNCHANGED <<state, marker, worker, started, reserved, plugged, borrowed, told>>

(* sio open, sio share, sio tcp.                                           *)

StartAborts(c) ==
    /\ At(c, "stopped") /\ Launches(Op(c)) /\ cmd[c].failed
    /\ Finish(c)
    /\ UNCHANGED <<outside, state, marker, pairs, worker>>

\* reserveControlAddress takes a new address.
Opens(c) ==
    /\ \/ At(c, "reserving")
       \/ At(c, "stopped") /\ Op(c) = "open" /\ ~cmd[c].failed
    /\ reserved' = reserved + 1
    /\ state' = [NoState EXCEPT !.status = "configured", !.ctl = reserved']
    /\ marker' = FALSE
    /\ Goto(c, "launching")
    /\ UNCHANGED <<pairs, worker, started, plugged, borrowed, told, clearFailed>>

\* The state names the pairs before they are created.
SlipShares(c) ==
    /\ At(c, "stopped") /\ Op(c) = "share" /\ ~cmd[c].failed
    /\ reserved' = reserved + 1
    /\ state' = [cmd[c].st EXCEPT !.status = "sharing", !.paused = FALSE,
                                  !.ctl = reserved', !.pid = 0]
    /\ Goto(c, "creating")
    /\ UNCHANGED <<marker, pairs, worker, started, plugged, borrowed, told, clearFailed>>

Shares(c) ==
    /\ At(c, "stopped") /\ Op(c) = "share" /\ ~cmd[c].failed
    /\ reserved' = reserved + 1
    /\ state' = [cmd[c].st EXCEPT !.status = "sharing", !.paused = FALSE, !.vports = TRUE,
                                  !.ctl = reserved', !.pid = 0]
    /\ Goto(c, "creating")
    /\ UNCHANGED <<marker, pairs, worker, started, plugged, borrowed, told, clearFailed>>

CreatePorts(c) ==
    /\ At(c, "creating")
    /\ \/ pairs' = TRUE /\ Goto(c, "launching")
       \/ Finish(c) /\ UNCHANGED pairs
    /\ UNCHANGED <<outside, state, marker, worker>>

Forwards(c) ==
    /\ At(c, "stopped") /\ Op(c) = "tcp" /\ ~cmd[c].failed
    /\ state' = [cmd[c].st EXCEPT !.paused = FALSE, !.tcp = TRUE, !.ctl = 0, !.pid = 0,
                    !.vports = @ /\ KeepsPairs(c),
                    !.status = IF KeepsPairs(c) THEN @ ELSE "tcp"]
    /\ Goto(c, "launching")
    /\ UNCHANGED <<outside, marker, pairs, worker>>

SlipPid == started + 2
NewPid  == started + 1

\* startWorkerProcess. Only open undoes what it has saved when it fails.
Launch(c) ==
    /\ At(c, "launching")
    /\ started' = started + 1
    /\ worker' = [worker EXCEPT ![started'].step = "start"]
    /\ cmd' = [cmd EXCEPT ![c].pc = "started", ![c].pid = NewPid]
    /\ UNCHANGED <<state, marker, pairs, reserved, plugged, borrowed, told, clearFailed>>

LaunchFails(c) ==
    /\ \/ At(c, "launching")
       \/ At(c, "started") /\ ~Exists(state)
    /\ IF Op(c) = "open" THEN Goto(c, "restoring") ELSE Finish(c)
    /\ UNCHANGED <<outside, state, marker, pairs, worker>>

LoadsBack(c) ==
    /\ At(c, "started") /\ Exists(state)
    /\ GotoWith(c, "recording", [state EXCEPT !.pid = cmd[c].pid])
    /\ UNCHANGED <<outside, state, marker, pairs, worker>>

SavesPid(c) ==
    /\ At(c, "recording")
    /\ state' = cmd[c].st
    /\ IF Op(c) # "tcp" /\ cmd[c].st.ctl = 0 THEN Finish(c) ELSE Goto(c, "watching")
    /\ UNCHANGED <<outside, marker, pairs, worker>>

\* WaitForControl dials the address; tcp looks for the worker's ready line.
Reachable(c) ==
    IF Op(c) = "tcp" THEN worker[cmd[c].pid].step = "serving"
    ELSE Listening(cmd[c].st.ctl) # {}

StartSucceeds(c) ==
    /\ At(c, "watching") /\ Reachable(c)
    /\ Finish(c)
    /\ UNCHANGED <<outside, state, marker, pairs, worker>>

StartTimesOut(c) ==
    /\ At(c, "watching") /\ ~Reachable(c)
    /\ Goto(c, "givingUp")
    /\ UNCHANGED <<outside, state, marker, pairs, worker>>

\* Ctrl+C while the command waits for its worker.
Interrupted(c) ==
    /\ At(c, "watching")
    /\ Finish(c)
    /\ UNCHANGED <<outside, state, marker, pairs, worker>>

GivesUp(c) ==
    /\ At(c, "givingUp")
    /\ Kill(cmd[c].pid)
    /\ Goto(c, "undoing")
    /\ UNCHANGED <<outside, state, marker, pairs>>

Undoes(c) ==
    /\ At(c, "undoing")
    /\ state' = CASE Op(c) = "open"  -> [cmd[c].st EXCEPT !.pid = 0, !.ctl = 0]
                  [] Op(c) = "share" -> [cmd[c].st EXCEPT !.pid = 0]
                  [] Op(c) = "tcp"   -> [cmd[c].old EXCEPT !.pid = 0]
    /\ IF Op(c) = "open" THEN Goto(c, "restoring") ELSE Finish(c)
    /\ UNCHANGED <<outside, marker, pairs, worker>>

\* open puts back the state it found, or removes the session it has made.
Restores(c) ==
    /\ At(c, "restoring")
    /\ state' = cmd[c].old
    /\ marker' = (marker /\ Exists(cmd[c].old))
    /\ Finish(c)
    /\ UNCHANGED <<outside, pairs, worker>>

Starting(c) ==
    \/ StartAborts(c) \/ Opens(c) \/ Shares(c) \/ CreatePorts(c) \/ Forwards(c)
    \/ Launch(c) \/ LaunchFails(c) \/ LoadsBack(c) \/ SavesPid(c)
    \/ StartSucceeds(c) \/ StartTimesOut(c) \/ GivesUp(c) \/ Undoes(c) \/ Restores(c)

(* sio pause, sio resume, and the Save of sio check and sio clear.         *)

Paused(st) == [st EXCEPT !.paused = TRUE, !.status = "paused"]
Resumed(st) ==
    [st EXCEPT !.paused = FALSE,
               !.status = [share |-> "sharing", tcp |-> "tcp", session |-> "configured"][Mode(st)]]

\* Asking the worker that listens at the address the state names.
Asks(c) == LeaseSupport(cmd[c].st) /\ Running(cmd[c].st.pid)

Pauses(c) ==
    /\ At(c, "asking") /\ Op(c) = "pause"
    /\ \/ /\ Asks(c)
          /\ \E w \in Listening(DialAddress(cmd[c].st)) : Release(w)
       \/ /\ ~Running(cmd[c].st.pid)
          /\ marker' = FALSE /\ UNCHANGED worker
    /\ GotoWith(c, "saving", Paused(cmd[c].st))
    /\ told' = "paused"
    /\ UNCHANGED <<state, pairs, started, reserved, plugged, borrowed, clearFailed>>

Resumes(c) ==
    /\ At(c, "asking") /\ Op(c) = "resume"
    /\ LET st == cmd[c].st
           lent == st.paused \/ marker
       IN  \/ /\ Asks(c) /\ lent
              /\ \E w \in Listening(DialAddress(st)) : Acquire(w)
           \/ /\ ~Running(st.pid)
              /\ marker' = FALSE /\ UNCHANGED worker
           \/ /\ Running(st.pid) /\ ~(lent /\ LeaseSupport(st))
              /\ ~(marker /\ ~LeaseSupport(st))
              /\ UNCHANGED <<worker, marker>>
    /\ GotoWith(c, "saving", Resumed(cmd[c].st))
    /\ UNCHANGED <<outside, state, pairs>>

\* The worker does not support it, does not answer or refuses.
AskFails(c) ==
    /\ At(c, "asking") /\ Running(cmd[c].st.pid)
    /\ Finish(c)
    /\ UNCHANGED <<outside, state, marker, pairs, worker>>

Saves(c) ==
    /\ At(c, "saving") /\ Op(c) \in {"check", "pause", "resume"}
    /\ state' = cmd[c].st
    /\ Finish(c)
    /\ UNCHANGED <<outside, marker, pairs, worker>>

-----------------------------------------------------------------------------
\* A command that has begun goes on.
Proceeds(c) ==
    \/ Stopping(c) \/ Starting(c)
    \/ StopIncomplete(c) \/ StopLoads(c) \/ StopSaves(c) \/ Remove(c) \/ ClearPorts(c)
    \/ Pauses(c) \/ Resumes(c) \/ AskFails(c) \/ Saves(c)

Dies(w) ==
    /\ worker[w].step = "doomed"
    /\ worker' = [worker EXCEPT ![w] = Dead]
    /\ UNCHANGED <<others, state, marker>>

\* The device and the other program.
Device ==
    /\ \/ plugged' = ~plugged /\ UNCHANGED borrowed
       \/ borrowed /\ borrowed' = FALSE /\ UNCHANGED plugged
       \/ PortFree /\ borrowed' = TRUE /\ UNCHANGED plugged
    /\ UNCHANGED <<state, marker, pairs, worker, started, reserved, cmd, told, clearFailed>>

Next ==
    \/ \E c \in Commands : (\E op \in Ops[c] : Begin(c, op)) \/ Proceeds(c) \/ Interrupted(c)
    \/ \E w \in Pids :
          Worker(w) \/ WorkerCrashes(w) \/ ShellReleases(w) \/ ShellAcquires(w) \/ Dies(w)
    \/ Device

Spec == Init /\ [][Next]_vars

(* Processes are scheduled, and a killed one ends. An attempt to serve     *)
(* succeeds when the device stays free. Users give commands, attach        *)
(* shells, plug and borrow the device as they like.                        *)
Fairness ==
    /\ \A c \in Commands : WF_vars(Proceeds(c))
    /\ \A w \in Pids :
          /\ WF_vars(WorkerPicks(w) \/ WorkerLoads(w) \/ WorkerSaves(w))
          /\ WF_vars(WorkerServes(w))
          /\ WF_vars(Dies(w))

FairSpec == Spec /\ Fairness

-----------------------------------------------------------------------------
Workers == [step : Steps \cup {"none", "exited", "dead"},
            mode : {"none", "session", "share", "tcp"}, st : States, holds : BOOLEAN]

PCs == {"idle", "stopping", "killing", "waiting", "cleaning", "stopped", "saving",
        "clearing", "reserving", "creating", "launching", "started", "recording",
        "watching", "givingUp", "undoing", "restoring", "asking"}

CommandStates == [op : AllOps \cup {"none"}, pc : PCs, st : States, old : States,
                  pid : 0 .. MaxWorkers, failed : BOOLEAN]

\* The type of what the processes of a session share and of their own state
\* (session.State, the locals of the commands and of the workers).
TypeOK ==
    /\ state \in States /\ marker \in BOOLEAN /\ pairs \in BOOLEAN
    /\ worker \in [Pids -> Workers]
    /\ started \in 0 .. MaxWorkers /\ reserved \in 0 .. MaxWorkers
    /\ cmd \in [Commands -> CommandStates]
    /\ plugged \in BOOLEAN /\ borrowed \in BOOLEAN /\ clearFailed \in BOOLEAN
    /\ told \in {"none", "stopped", "removed", "paused"}

AtRest == \A c \in Commands : At(c, "idle")
Alive(w) == worker[w].step \in Steps \ {"doomed"}

(* No orphan: when no command runs, a worker that lives is the one         *)
(* state.json names, so that stop, rm and open can find it; whatever       *)
(* failed on the way, the worker is killed or recorded.                    *)
NoOrphan ==
    AtRest => \A w \in Pids : Alive(w) => Exists(state) /\ state.pid = w

(* After sio stop has reported "stopped", be it with a warning that the    *)
(* cleanup was incomplete, or sio rm "removed", no worker of the session   *)
(* goes on, and nothing a worker or another command saves brings the       *)
(* session back: "`sio stop <session>` and `sio rm <session>` stop that    *)
(* session's worker" (README).                                             *)
StopStops ==
    told \in {"stopped", "removed"} =>
        /\ \A w \in Pids : ~Alive(w)
        /\ state.status \in {"none", "stopped"}

(* What sio stop has released stays released: no worker of a stopped       *)
(* session serves. "`stop` releases live resources" (README).             *)
StopReleases ==
    told = "stopped" => \A w \in Pids : worker[w].step # "serving"

(* port.released, which status, send and ask believe, says what the lease  *)
(* of the living worker is, across crashes, restarts and changes of mode.  *)
MarkerHonest ==
    AtRest =>
        \A w \in Pids : worker[w].step = "serving" => (marker <=> ~worker[w].holds)

(* Once a pause has the port released no worker opens it, and the session  *)
(* stays paused, until another command or the shell takes it back.         *)
PausePromise ==
    told = "paused" =>
        /\ AtRest => state.paused
        /\ \A w \in Pids : Alive(w) => ~worker[w].holds

(* Virtual port pairs that exist are named in state.json, so a later stop  *)
(* or rm can remove them, unless a clear --share has failed on them.       *)
PairsTracked ==
    pairs /\ ~clearFailed => state.vports \/ \E c \in Commands : cmd[c].st.vports

(* A worker that lost its device, or could not open it, comes back to      *)
(* serve once the device stays plugged in and free: it neither gives up    *)
(* nor waits for ever (RunWithRetry). A share worker needs its pairs too:  *)
(* after a share that could not create them and a tcp that is interrupted  *)
(* it retries for as long as they are missing.                             *)
LacksPairs(w) == worker[w].mode = "share" /\ worker[w].st.vports /\ ~pairs

Recovers ==
    \A w \in Pids :
        <>[](plugged /\ ~borrowed /\ ~LacksPairs(w)) =>
            (worker[w].step = "trying" ~> worker[w].step \in {"serving", "doomed", "dead"})
=============================================================================
