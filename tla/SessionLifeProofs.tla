-------------------------- MODULE SessionLifeProofs --------------------------
(***************************************************************************)
(* Theorems about SessionLife for one user who gives one command after the *)
(* other, for any number of workers and any commands: no worker is         *)
(* orphaned, stop stops, pause pauses, the marker is honest and the        *)
(* virtual pairs stay known. With two users a stop need not, as the run    *)
(* life_race shows.                                                        *)
(***************************************************************************)
EXTENDS SessionLife, TLAPS, FiniteSetTheorems

-----------------------------------------------------------------------------
(* The invariant, of the only command c that runs at a time.               *)

Stops    == {"stopping", "killing", "waiting", "cleaning", "stopped"}
Starts   == {"reserving", "creating", "launching", "started", "recording", "watching", "givingUp",
             "undoing", "restoring"}
Launched == {"started", "recording", "watching", "givingUp", "undoing", "restoring"}

\* Which commands come to which step, and how many workers and control
\* addresses there still are for them.
PlaceInv(c) ==
    /\ At(c, "idle") <=> Op(c) = "none"
    /\ Op(c) = "check" => At(c, "saving")
    /\ cmd[c].pc \in Stops => Launches(Op(c)) \/ Op(c) \in {"stop", "rm", "clearShare"}
    /\ cmd[c].pc \in Stops => cmd[c].st = cmd[c].old
    /\ cmd[c].pc \in Starts => Launches(Op(c))
    /\ cmd[c].pc \in {"reserving", "restoring"} => Op(c) = "open"
    /\ At(c, "creating") => Op(c) = "share"
    /\ At(c, "asking") => Op(c) \in {"pause", "resume"}
    /\ At(c, "saving") => Op(c) \in {"check", "pause", "resume", "stop", "clearShare"}
    /\ At(c, "clearing") => Op(c) = "clearShare"
    /\ Launches(Op(c)) /\ cmd[c].pc \notin Launched => started < MaxWorkers
    /\ Launches(Op(c)) /\ cmd[c].pc \in Stops \cup {"reserving"} => reserved < MaxWorkers

\* A worker that has picked its mode has one.
ModeInv ==
    \A w \in Pids :
        worker[w].step \in {"picked", "loaded", "saved", "trying", "serving"} => worker[w].mode # "none"

Loaded       == {"loaded", "saved", "trying", "serving"}
NoneAlive    == \A w \in Pids : ~Alive(w)
AliveIs(pid) == \A w \in Pids : Alive(w) => w = pid
Named(st)    == \A w \in Pids : Alive(w) => Exists(st) /\ st.pid = w

\* Who knows the worker that lives: state.json, and the command as long as
\* it may still stop that worker or write back the state it has loaded.
OwnerInv(c) ==
    /\ cmd[c].pc \in {"idle", "clearing", "stopping", "killing", "asking"} => Named(state)
    /\ cmd[c].pc \in {"stopping", "killing", "asking"} => Named(cmd[c].st)
    /\ At(c, "saving") => IF Op(c) \in {"stop", "clearShare"}
                          THEN NoneAlive ELSE Named(state) /\ Named(cmd[c].st)
    /\ cmd[c].pc \in {"waiting", "cleaning", "stopped", "reserving", "creating", "launching",
                      "undoing", "restoring"} => NoneAlive
    /\ cmd[c].pc \in {"launching", "started", "recording", "watching", "givingUp"} => Exists(state)
    /\ cmd[c].pc \in {"started", "recording", "watching", "givingUp"} => AliveIs(cmd[c].pid)
    /\ At(c, "recording") => Exists(cmd[c].st) /\ cmd[c].st.pid = cmd[c].pid
    /\ cmd[c].pc \in {"watching", "givingUp"} => state.pid = cmd[c].pid

\* What stop and rm have promised can only be overtaken by a check, which
\* saves a state that was stopped already.
ToldInv(c) ==
    told \in {"stopped", "removed"} =>
        /\ NoneAlive /\ state.status \in {"none", "stopped"}
        /\ ~At(c, "idle") => Op(c) = "check" /\ cmd[c].st.status \in {"none", "stopped"}

\* A worker that lives on after a pause has lent its port, and only a check
\* or the pause itself may still save the state.
PausedInv(c) ==
    told = "paused" =>
        /\ \A w \in Pids : Alive(w) => worker[w].step = "serving" /\ ~worker[w].holds
        /\ At(c, "idle") \/ (At(c, "saving") /\ Op(c) \in {"pause", "check"} /\ cmd[c].st.paused)
        /\ Op(c) # "pause" => state.paused

\* Pairs that a later stop has to remove.
Owed == pairs /\ ~clearFailed
Sane(st) == ~Exists(st) => ~st.vports

\* Every copy of the state that may be written back names the pairs.
PairsInv(c) ==
    /\ Sane(state) /\ Sane(cmd[c].st) /\ Sane(cmd[c].old)
    /\ At(c, "creating") => state.vports
    /\ Owed =>
        /\ \A w \in Pids : worker[w].step \in Loaded => worker[w].st.vports
        /\ ~At(c, "clearing") => state.vports
        /\ At(c, "clearing") => state.vports \/ (NoneAlive /\ cmd[c].st.vports)
        /\ cmd[c].pc \in Stops \cup {"saving", "asking", "recording", "watching", "givingUp", "undoing"} =>
               cmd[c].st.vports
        /\ At(c, "stopped") /\ ~cmd[c].failed => KeepsPairs(c)
        /\ Op(c) \in {"open", "stop"} => cmd[c].pc \in Stops
        /\ Op(c) = "tcp" => cmd[c].old.vports

\* The marker of a worker that lives, from the moment it has picked its mode.
\* Only a share worker does not clear a marker it finds.
MarksInv ==
    \A w \in Pids : Alive(w) =>
        /\ worker[w].step # "start" => (worker[w].mode = "share" <=> state.vports)
        /\ worker[w].step \in Loaded => (worker[w].st.vports <=> state.vports)
        /\ worker[w].step \in {"loaded", "saved", "trying"} /\ worker[w].mode # "share" => ~marker
        /\ worker[w].step = "serving" => (marker <=> ~worker[w].holds)

\* A marker that is left over when virtual ports are named meets no pairs, and
\* without them a share worker cannot serve.
LeftInv(c) ==
    /\ marker /\ pairs => ~state.vports
    /\ cmd[c].pc \in Stops \cup {"recording", "watching", "givingUp", "undoing", "asking", "saving"} =>
           (cmd[c].st.vports <=> state.vports)
    /\ At(c, "stopped") => cmd[c].failed \/ KeepsPairs(c) \/ (~marker /\ ~(pairs /\ cmd[c].old.vports))
    /\ At(c, "creating") => ~marker
    /\ Op(c) = "open" /\ cmd[c].pc \in Starts => ~(pairs /\ cmd[c].old.vports)
    /\ Op(c) = "tcp" /\ cmd[c].pc \in Starts /\ pairs /\ cmd[c].old.vports => state.vports

LifeInv(c) ==
    /\ TypeOK /\ ModeInv /\ PlaceInv(c)
    /\ OwnerInv(c) /\ ToldInv(c) /\ PausedInv(c) /\ PairsInv(c)
    /\ MarksInv /\ LeftInv(c)

-----------------------------------------------------------------------------
(* Types and places.                                                       *)

\* What is read off a state is one of its values.
LEMMA StateTypes ==
    /\ NoState \in States
    /\ \A st \in States :
          /\ AutoMode(st) \in {"session", "share", "tcp"}
          /\ Mode(st) \in {"session", "share", "tcp"}
          /\ Stopped(st) \in States /\ Incomplete(st) \in States
          /\ Paused(st) \in States /\ Resumed(st) \in States
<1> USE LifeAssumption DEF States, Statuses
<1>1. NoState \in States
  BY DEF NoState, Addresses, TCPListen
<1> SUFFICES ASSUME NEW st \in States
             PROVE  /\ AutoMode(st) \in {"session", "share", "tcp"}
                    /\ Mode(st) \in {"session", "share", "tcp"}
                    /\ Stopped(st) \in States /\ Incomplete(st) \in States
                    /\ Paused(st) \in States /\ Resumed(st) \in States
  BY <1>1
<1>2. AutoMode(st) \in {"session", "share", "tcp"} /\ Mode(st) \in {"session", "share", "tcp"}
  BY DEF AutoMode, Mode
<1>3. Stopped(st) \in States
  BY <1>1 DEF Stopped
<1>4. Incomplete(st) \in States
  BY <1>3 DEF Incomplete
<1>5. Paused(st) \in States
  <2>1. TRUE \in BOOLEAN /\ "paused" \in Statuses
    BY Zenon DEF Statuses
  <2>2. QED
    BY <2>1 DEF Paused
<1>6. Resumed(st) \in States
  <2>1. FALSE \in BOOLEAN
    BY Zenon
  <2>2. [share |-> "sharing", tcp |-> "tcp", session |-> "configured"][Mode(st)] \in Statuses
    BY <1>2
  <2>3. QED
    BY <2>1, <2>2 DEF Resumed
<1>7. QED
  BY <1>2, <1>3, <1>4, <1>5, <1>6

\* sio pause and sio resume keep the worker and the pairs of a state.
LEMMA PausedKeeps ==
    ASSUME NEW st \in States
    PROVE  /\ Paused(st).pid = st.pid /\ Resumed(st).pid = st.pid
           /\ Exists(Paused(st)) /\ Exists(Resumed(st))
           /\ Paused(st).vports = st.vports /\ Resumed(st).vports = st.vports
<1>1. Mode(st) \in {"session", "share", "tcp"}
  BY StateTypes
<1>2. [share |-> "sharing", tcp |-> "tcp", session |-> "configured"][Mode(st)] # "none"
  BY <1>1
<1>3. QED
  BY <1>2 DEF Paused, Resumed, Exists, States

\* What a worker saves names the worker.
LEMMA RecordedTypes ==
    ASSUME TypeOK, NEW w \in Pids, worker[w].mode # "none"
    PROVE  /\ Recorded(w) \in States /\ Recorded(w).pid = w
           /\ Exists(Recorded(w)) /\ Recorded(w).vports = worker[w].st.vports
<1>1. worker[w].st \in States /\ worker[w].mode \in {"session", "share", "tcp"}
  BY DEF TypeOK, Workers
<1>2. /\ [session |-> "configured", share |-> "sharing", tcp |-> "tcp"][worker[w].mode] \in Statuses
      /\ [session |-> "configured", share |-> "sharing", tcp |-> "tcp"][worker[w].mode] # "none"
  BY <1>1 DEF Statuses
<1>3. w \in 0 .. MaxWorkers
  BY LifeAssumption DEF Pids
<1>4. QED
  BY <1>1, <1>2, <1>3 DEF Recorded, States, Exists

\* A command, or a worker, with one field changed is still one.
LEMMA RecordTypes ==
    /\ \A r \in CommandStates, pc \in PCs : [r EXCEPT !.pc = pc] \in CommandStates
    /\ \A r \in CommandStates, st \in States : [r EXCEPT !.st = st] \in CommandStates
    /\ \A r \in CommandStates, failed \in BOOLEAN : [r EXCEPT !.failed = failed] \in CommandStates
    /\ \A r \in CommandStates, pid \in 0 .. MaxWorkers : [r EXCEPT !.pid = pid] \in CommandStates
    /\ \A r \in Workers, step \in Steps \cup {"none", "exited", "dead"} : [r EXCEPT !.step = step] \in Workers
    /\ \A r \in Workers, mode \in {"none", "session", "share", "tcp"} : [r EXCEPT !.mode = mode] \in Workers
    /\ \A r \in Workers, st \in States : [r EXCEPT !.st = st] \in Workers
    /\ \A r \in Workers, holds \in BOOLEAN : [r EXCEPT !.holds = holds] \in Workers
<1>1. /\ \A r \in CommandStates, pc \in PCs : [r EXCEPT !.pc = pc] \in CommandStates
      /\ \A r \in CommandStates, st \in States : [r EXCEPT !.st = st] \in CommandStates
  BY DEF CommandStates
<1>2. \A r \in CommandStates, failed \in BOOLEAN : [r EXCEPT !.failed = failed] \in CommandStates
  BY DEF CommandStates
<1>3. \A r \in CommandStates, pid \in 0 .. MaxWorkers : [r EXCEPT !.pid = pid] \in CommandStates
  BY DEF CommandStates
<1>4. /\ \A r \in Workers, step \in Steps \cup {"none", "exited", "dead"} : [r EXCEPT !.step = step] \in Workers
      /\ \A r \in Workers, mode \in {"none", "session", "share", "tcp"} : [r EXCEPT !.mode = mode] \in Workers
      /\ \A r \in Workers, st \in States : [r EXCEPT !.st = st] \in Workers
  BY DEF Workers
<1>5. \A r \in Workers, holds \in BOOLEAN : [r EXCEPT !.holds = holds] \in Workers
  BY DEF Workers
<1>6. QED
  BY <1>1, <1>2, <1>3, <1>4, <1>5

\* A command that takes a step, loads a state or ends is a command.
LEMMA CommandTypes ==
    ASSUME TypeOK, NEW c \in Commands
    PROVE  /\ \A pc \in PCs : Goto(c, pc) => cmd' \in [Commands -> CommandStates]
           /\ \A pc \in PCs, st \in States : GotoWith(c, pc, st) => cmd' \in [Commands -> CommandStates]
           /\ Finish(c) => cmd' \in [Commands -> CommandStates]
<1> USE DEF TypeOK, CommandStates
<1>1. ASSUME NEW pc \in PCs, Goto(c, pc) PROVE cmd' \in [Commands -> CommandStates]
  BY <1>1 DEF Goto
<1>2. ASSUME NEW pc \in PCs, NEW st \in States, GotoWith(c, pc, st)
      PROVE  cmd' \in [Commands -> CommandStates]
  <2>1. cmd[c] \in CommandStates /\ cmd' = [[cmd EXCEPT ![c].pc = pc] EXCEPT ![c].st = st]
    BY <1>2 DEF GotoWith
  <2> DEFINE r == [cmd[c] EXCEPT !.pc = pc]
             t == [r EXCEPT !.st = st]
  <2>2. r \in CommandStates /\ t \in CommandStates
    BY <2>1, RecordTypes, Zenon
  <2>3. cmd' = [cmd EXCEPT ![c] = t]
    BY <2>1
  <2> HIDE DEF t
  <2>4. QED
    BY <2>2, <2>3
<1>3. Idle \in CommandStates
  <2>1. NoState \in States
    BY StateTypes
  <2>2. FALSE \in BOOLEAN
    BY Zenon
  <2>3. QED
    BY <2>1, <2>2, LifeAssumption DEF Idle, PCs
<1>4. Finish(c) => cmd' \in [Commands -> CommandStates]
  BY <1>3 DEF Finish
<1>5. QED
  BY <1>1, <1>2, <1>4

\* A command that fails goes on with its failure noted.
LEMMA FailedTypes ==
    ASSUME TypeOK, NEW c \in Commands, NEW pc \in PCs, NEW failed \in BOOLEAN,
           cmd' = [cmd EXCEPT ![c].pc = pc, ![c].failed = failed]
    PROVE  cmd' \in [Commands -> CommandStates]
<1>1. cmd \in [Commands -> CommandStates] /\ cmd[c] \in CommandStates
  BY DEF TypeOK
<1> DEFINE r == [cmd[c] EXCEPT !.pc = pc]
           t == [r EXCEPT !.failed = failed]
<1>2. r \in CommandStates /\ t \in CommandStates
  BY <1>1, RecordTypes, Zenon
<1>3. cmd' = [cmd EXCEPT ![c] = t]
  BY <1>1
<1> HIDE DEF t
<1>4. QED
  BY <1>1, <1>2, <1>3

\* A worker that is killed, takes a step or ends is a worker.
LEMMA WorkerTypes ==
    ASSUME TypeOK
    PROVE  /\ Exited \in Workers /\ Dead \in Workers
           /\ \A pid \in 0 .. MaxWorkers : Kill(pid) => worker' \in [Pids -> Workers]
<1> USE DEF TypeOK, Workers
<1>1. NoState \in States /\ FALSE \in BOOLEAN
  <2>1. FALSE \in BOOLEAN
    BY Zenon
  <2>2. QED
    BY <2>1, StateTypes
<1>2. NoWorker \in Workers
  BY <1>1 DEF NoWorker
<1>3. Exited \in Workers /\ Dead \in Workers
  BY <1>2 DEF Exited, Dead
<1>4. ASSUME NEW pid \in 0 .. MaxWorkers, Kill(pid) PROVE worker' \in [Pids -> Workers]
  BY <1>4 DEF Kill, Steps
<1>5. QED
  BY <1>3, <1>4

\* What a worker process does keeps the types.
LEMMA WorkerStep ==
    ASSUME TypeOK, ModeInv, NEW w \in Pids,
           \/ Worker(w) \/ WorkerCrashes(w) \/ ShellReleases(w) \/ ShellAcquires(w) \/ Dies(w)
    PROVE  TypeOK'
<1> USE DEF TypeOK, Workers, others
<1>0. Exited \in Workers /\ Dead \in Workers
  BY WorkerTypes
<1>1. CASE WorkerPicks(w)
  <2>1. AutoMode(state) \in {"session", "share", "tcp"}
    BY StateTypes
  <2>2. worker' \in [Pids -> Workers]
    <3> HIDE DEF TypeOK, Workers
    <3> DEFINE r == [worker[w] EXCEPT !.step = "picked"]
               t == [r EXCEPT !.mode = AutoMode(state)]
    <3>1. worker \in [Pids -> Workers] /\ worker[w] \in Workers
      BY DEF TypeOK
    <3>2. r \in Workers
      BY <3>1, RecordTypes DEF Steps
    <3>3. t \in Workers
      BY <2>1, <3>2, RecordTypes, Zenon
    <3>4. worker' = [worker EXCEPT ![w] = IF Exists(state) THEN t ELSE Exited]
      BY <1>1 DEF WorkerPicks
    <3> HIDE DEF t
    <3>5. QED
      BY <1>0, <3>1, <3>3, <3>4
  <2>3. QED
    BY <1>1, <2>2 DEF WorkerPicks
<1>2. CASE WorkerLoads(w)
  <2>1. worker' \in [Pids -> Workers]
    <3> HIDE DEF Workers
    <3> DEFINE r == [worker[w] EXCEPT !.step = "loaded"]
               t == [r EXCEPT !.st = state]
    <3>1. worker \in [Pids -> Workers] /\ worker[w] \in Workers /\ state \in States
      BY DEF TypeOK
    <3> HIDE DEF TypeOK
    <3>2. r \in Workers
      BY <3>1, RecordTypes DEF Steps
    <3>3. t \in Workers
      BY <3>1, <3>2, RecordTypes, Zenon
    <3>4. worker' = [worker EXCEPT ![w] = t] \/ worker' = [worker EXCEPT ![w] = Exited]
      BY <1>2 DEF WorkerLoads
    <3> HIDE DEF t
    <3>5. QED
      BY <1>0, <3>1, <3>3, <3>4
  <2>2. marker' \in BOOLEAN
    BY <1>2 DEF WorkerLoads
  <2>3. QED
    BY <1>2, <2>1, <2>2 DEF WorkerLoads
<1>3. CASE WorkerSaves(w)
  <2>1. Recorded(w) \in States
    BY <1>3, RecordedTypes DEF WorkerSaves, ModeInv
  <2>2. worker' \in [Pids -> Workers]
    BY <1>3, <2>1 DEF WorkerSaves, Steps
  <2>3. QED
    BY <1>3, <2>1, <2>2 DEF WorkerSaves
<1>4. CASE WorkerServes(w)
  <2>1. TRUE \in BOOLEAN
    BY Zenon
  <2>2. worker' \in [Pids -> Workers]
    <3> HIDE DEF Workers
    <3> DEFINE r == [worker[w] EXCEPT !.step = "serving"]
               t == [r EXCEPT !.holds = TRUE]
    <3>1. worker \in [Pids -> Workers] /\ worker[w] \in Workers
      BY DEF TypeOK
    <3> HIDE DEF TypeOK
    <3>2. r \in Workers
      BY <3>1, RecordTypes DEF Steps
    <3>3. t \in Workers
      BY <2>1, <3>2, RecordTypes, Zenon
    <3>4. worker' = [worker EXCEPT ![w] = t]
      BY <1>4 DEF WorkerServes
    <3> HIDE DEF t
    <3>5. QED
      BY <3>1, <3>3, <3>4
  <2>3. QED
    BY <1>4, <2>2 DEF WorkerServes
<1>5. CASE WorkerFails(w)
  <2>1. FALSE \in BOOLEAN
    BY Zenon
  <2>2. worker' \in [Pids -> Workers]
    BY <1>0, <1>5, <2>1 DEF WorkerFails, Steps
  <2>3. marker' \in BOOLEAN
    BY <1>5 DEF WorkerFails
  <2>4. QED
    BY <1>5, <2>2, <2>3 DEF WorkerFails
<1>6. CASE WorkerCrashes(w)
  BY <1>0, <1>6 DEF WorkerCrashes
<1>7. CASE ShellReleases(w)
  <2>1. FALSE \in BOOLEAN
    BY Zenon
  <2>2. worker' \in [Pids -> Workers] /\ marker' \in BOOLEAN
    BY <1>7, <2>1 DEF ShellReleases, Release
  <2>3. QED
    BY <1>7, <2>2 DEF ShellReleases
<1>8. CASE ShellAcquires(w)
  <2>1. TRUE \in BOOLEAN
    BY Zenon
  <2>2. worker' \in [Pids -> Workers] /\ marker' \in BOOLEAN
    BY <1>8, <2>1 DEF ShellAcquires, Acquire
  <2>3. QED
    BY <1>8, <2>2 DEF ShellAcquires
<1>9. CASE Dies(w)
  BY <1>0, <1>9 DEF Dies
<1>10. QED
  BY <1>1, <1>2, <1>3, <1>4, <1>5, <1>6, <1>7, <1>8, <1>9 DEF Worker

\* stopLiveResources keeps the types.
LEMMA StopsTypes ==
    ASSUME TypeOK, NEW c \in Commands, Stopping(c)
    PROVE  TypeOK'
<1> USE DEF outside
<1>1. cmd[c] \in CommandStates /\ cmd[c].st.pid \in 0 .. MaxWorkers
  BY DEF TypeOK, CommandStates, States
<1>2. CASE StopFinds(c)
  <2>1. cmd' \in [Commands -> CommandStates]
    BY <1>2, CommandTypes DEF StopFinds, PCs
  <2>2. QED
    BY <1>2, <2>1 DEF StopFinds, TypeOK
<1>3. CASE StopKills(c)
  <2>1. worker' \in [Pids -> Workers]
    BY <1>1, <1>3, WorkerTypes DEF StopKills
  <2>2. cmd' \in [Commands -> CommandStates]
    <3>1. TRUE \in BOOLEAN
      BY Zenon
    <3>2. CASE Running(cmd[c].st.pid)
      BY <1>3, <3>2 DEF StopKills, TypeOK, CommandStates, PCs
    <3>3. CASE ~Running(cmd[c].st.pid)
      BY <1>3, <3>1, <3>3, FailedTypes DEF StopKills, PCs
    <3>4. QED
      BY <3>2, <3>3
  <2>3. QED
    BY <1>3, <2>1, <2>2 DEF StopKills, TypeOK
<1>4. CASE StopWaits(c)
  <2>1. cmd' \in [Commands -> CommandStates]
    BY <1>4, CommandTypes DEF StopWaits, PCs
  <2>2. QED
    BY <1>4, <2>1 DEF StopWaits, TypeOK
<1>5. CASE StopTimesOut(c)
  <2>1. TRUE \in BOOLEAN
    BY Zenon
  <2>2. cmd' \in [Commands -> CommandStates]
    BY <1>5, <2>1, FailedTypes DEF StopTimesOut, PCs
  <2>3. QED
    BY <1>5, <2>2 DEF StopTimesOut, TypeOK
<1>6. CASE StopCleans(c)
  <2>1. CASE KeepsPairs(c)
    <3>1. cmd' \in [Commands -> CommandStates]
      BY <1>6, <2>1, CommandTypes DEF StopCleans, PCs
    <3>2. QED
      BY <1>6, <2>1, <3>1 DEF StopCleans, TypeOK
  <2>2. CASE ~KeepsPairs(c)
    <3>1. PICK fails \in BOOLEAN :
            /\ cmd' = [cmd EXCEPT ![c].pc = "stopped", ![c].failed = @ \/ fails]
            /\ pairs' = (pairs /\ (fails \/ ~cmd[c].st.vports))
      BY <1>6, <2>2 DEF StopCleans
    <3>2. (cmd[c].failed \/ fails) \in BOOLEAN
      BY <1>1 DEF CommandStates
    <3>3. cmd' = [cmd EXCEPT ![c].pc = "stopped", ![c].failed = cmd[c].failed \/ fails]
      BY <3>1
    <3>4. cmd' \in [Commands -> CommandStates]
      BY <3>2, <3>3, FailedTypes DEF PCs
    <3>5. marker' \in BOOLEAN /\ pairs' \in BOOLEAN
      BY <1>6, <2>2, <3>1, Zenon DEF StopCleans
    <3>6. QED
      BY <1>6, <3>4, <3>5 DEF StopCleans, TypeOK
  <2>3. QED
    BY <2>1, <2>2
<1>7. QED
  BY <1>2, <1>3, <1>4, <1>5, <1>6 DEF Stopping

\* sio open, share and tcp keep the types: there is a worker and an address
\* left for a command that has begun.
LEMMA StartsTypes ==
    ASSUME TypeOK, NEW c \in Commands, PlaceInv(c), Starting(c)
    PROVE  TypeOK'
<1> USE DEF outside
<1>1. /\ cmd[c] \in CommandStates /\ cmd[c].st \in States /\ cmd[c].old \in States
      /\ cmd[c].pid \in 0 .. MaxWorkers /\ state \in States
      /\ TRUE \in BOOLEAN /\ FALSE \in BOOLEAN
  <2>1. TRUE \in BOOLEAN /\ FALSE \in BOOLEAN
    BY Zenon
  <2>2. QED
    BY <2>1 DEF TypeOK, CommandStates
<1>2. ASSUME UNCHANGED <<marker, pairs, worker, started, reserved, plugged, borrowed, told, clearFailed>>,
             state' \in States, cmd' \in [Commands -> CommandStates]
      PROVE  TypeOK'
  BY <1>2 DEF TypeOK
<1>3. ASSUME NEW pc \in PCs, Goto(c, pc) \/ Finish(c) PROVE cmd' \in [Commands -> CommandStates]
  BY <1>3, CommandTypes
<1>4. CASE StartAborts(c) \/ StartSucceeds(c)
  BY <1>1, <1>2, <1>3, <1>4 DEF StartAborts, StartSucceeds, PCs
<1>5. CASE LaunchFails(c) \/ StartTimesOut(c)
  BY <1>1, <1>2, <1>3, <1>5 DEF LaunchFails, StartTimesOut, PCs
<1>6. reserved < MaxWorkers => reserved + 1 \in 0 .. MaxWorkers /\ reserved + 1 \in Addresses
  BY LifeAssumption DEF TypeOK, Addresses, TCPListen
<1>7. CASE Opens(c)
  <2>1. reserved < MaxWorkers
    BY <1>7 DEF Opens, PlaceInv, Launches, Stops, At, Op
  <2>2. cmd' \in [Commands -> CommandStates]
    BY <1>3, <1>7 DEF Opens, PCs
  <2>3. state' \in States
    BY <1>6, <1>7, <2>1, StateTypes DEF Opens, States, Statuses
  <2>4. marker' \in BOOLEAN
    BY <1>7, Zenon DEF Opens
  <2>5. QED
    BY <1>6, <1>7, <2>1, <2>2, <2>3, <2>4 DEF Opens, TypeOK
<1>8. CASE Shares(c)
  <2>1. reserved < MaxWorkers
    BY <1>8 DEF Shares, PlaceInv, Launches, Stops, At, Op
  <2>2. cmd' \in [Commands -> CommandStates]
    BY <1>3, <1>8 DEF Shares, PCs
  <2>3. state' \in States
    <3>1. state' = [cmd[c].st EXCEPT !.status = "sharing", !.paused = FALSE, !.vports = TRUE,
                                     !.ctl = reserved + 1, !.pid = 0]
      BY <1>8 DEF Shares
    <3>2. "sharing" \in Statuses /\ 0 \in 0 .. MaxWorkers
      BY LifeAssumption DEF Statuses
    <3>3. QED
      BY <1>1, <1>6, <2>1, <3>1, <3>2 DEF States
  <2>4. QED
    BY <1>6, <1>8, <2>1, <2>2, <2>3 DEF Shares, TypeOK
<1>9. CASE CreatePorts(c)
  <2>1. cmd' \in [Commands -> CommandStates]
    BY <1>3, <1>9 DEF CreatePorts, PCs
  <2>2. pairs' \in BOOLEAN
    <3>1. pairs' = TRUE \/ pairs' = pairs
      BY <1>9 DEF CreatePorts
    <3>2. pairs \in BOOLEAN
      BY DEF TypeOK
    <3>3. QED
      BY <3>1, <3>2, Zenon
  <2>3. QED
    BY <1>9, <2>1, <2>2 DEF CreatePorts, TypeOK
<1>10. CASE Forwards(c)
  <2>1. cmd' \in [Commands -> CommandStates]
    BY <1>3, <1>10 DEF Forwards, PCs
  <2>2. (cmd[c].st.vports /\ KeepsPairs(c)) \in BOOLEAN
    BY Zenon
  <2>3. /\ 0 \in Addresses /\ 0 \in 0 .. MaxWorkers
        /\ (IF KeepsPairs(c) THEN cmd[c].st.status ELSE "tcp") \in Statuses
    BY <1>1, LifeAssumption DEF Addresses, TCPListen, States, Statuses
  <2>4. state' \in States
    <3>1. state' = [cmd[c].st EXCEPT !.paused = FALSE, !.tcp = TRUE, !.ctl = 0, !.pid = 0,
                       !.vports = cmd[c].st.vports /\ KeepsPairs(c),
                       !.status = IF KeepsPairs(c) THEN cmd[c].st.status ELSE "tcp"]
      BY <1>10 DEF Forwards
    <3> DEFINE keeps == cmd[c].st.vports /\ KeepsPairs(c)
    <3> DEFINE status == IF KeepsPairs(c) THEN cmd[c].st.status ELSE "tcp"
    <3>2. state' = [cmd[c].st EXCEPT !.paused = FALSE, !.tcp = TRUE, !.ctl = 0, !.pid = 0,
                       !.vports = keeps, !.status = status]
      BY <3>1
    <3>3. keeps \in BOOLEAN /\ status \in Statuses
      BY <2>2, <2>3
    <3> HIDE DEF keeps, status
    <3>4. QED
      BY <1>1, <2>3, <3>2, <3>3 DEF States
  <2>5. QED
    BY <1>2, <1>10, <2>1, <2>4 DEF Forwards
<1>11. CASE Launch(c)
  <2>1. started + 1 \in Pids /\ started + 1 \in 0 .. MaxWorkers
    BY <1>11, LifeAssumption DEF Launch, PlaceInv, Starts, Launched, At, Op, TypeOK, Pids
  <2>2. worker' \in [Pids -> Workers]
    BY <1>11, <2>1 DEF Launch, TypeOK, Workers, Steps
  <2>3. cmd' \in [Commands -> CommandStates]
    <3>1. cmd' = [cmd EXCEPT ![c].pc = "started", ![c].pid = started + 1]
      BY <1>11 DEF Launch, NewPid
    <3>2. "started" \in PCs
      BY DEF PCs
    <3> DEFINE r == [cmd[c] EXCEPT !.pc = "started"]
               t == [r EXCEPT !.pid = started + 1]
    <3>3. cmd \in [Commands -> CommandStates] /\ cmd[c] \in CommandStates
      BY DEF TypeOK
    <3>4. t \in CommandStates
      BY <2>1, <3>2, <3>3, RecordTypes, Zenon
    <3>5. cmd' = [cmd EXCEPT ![c] = t]
      BY <3>1, <3>3
    <3> HIDE DEF t
    <3>6. QED
      BY <3>3, <3>4, <3>5
  <2>4. QED
    BY <1>11, <2>1, <2>2, <2>3 DEF Launch, TypeOK
<1>12. CASE LoadsBack(c)
  <2>1. [state EXCEPT !.pid = cmd[c].pid] \in States
    BY <1>1 DEF States
  <2>2. cmd' \in [Commands -> CommandStates]
    BY <1>12, <2>1, CommandTypes DEF LoadsBack, PCs
  <2>3. QED
    BY <1>1, <1>2, <1>12, <2>2 DEF LoadsBack
<1>13. CASE SavesPid(c)
  BY <1>1, <1>2, <1>3, <1>13 DEF SavesPid, PCs
<1>14. CASE GivesUp(c)
  <2>1. cmd' \in [Commands -> CommandStates] /\ worker' \in [Pids -> Workers]
    BY <1>1, <1>3, <1>14, WorkerTypes DEF GivesUp, PCs
  <2>2. QED
    BY <1>14, <2>1 DEF GivesUp, TypeOK
<1>15. CASE Undoes(c)
  <2>1. cmd' \in [Commands -> CommandStates]
    BY <1>3, <1>15 DEF Undoes, PCs
  <2>2. Op(c) \in {"open", "share", "tcp"}
    BY <1>15 DEF Undoes, PlaceInv, Starts, At, Launches
  <2>3. 0 \in Addresses /\ 0 \in 0 .. MaxWorkers
    BY LifeAssumption DEF Addresses, TCPListen
  <2>4. state' \in States
    BY <1>1, <1>15, <2>2, <2>3 DEF Undoes, States
  <2>5. QED
    BY <1>2, <1>15, <2>1, <2>4 DEF Undoes
<1>16. CASE Restores(c)
  <2>1. marker' \in BOOLEAN
    BY <1>16, Zenon DEF Restores
  <2>2. cmd' \in [Commands -> CommandStates]
    BY <1>16, CommandTypes DEF Restores
  <2>3. QED
    BY <1>1, <1>16, <2>1, <2>2 DEF Restores, TypeOK
<1>17. QED
  BY <1>4, <1>5, <1>7, <1>8, <1>9, <1>10, <1>11, <1>12, <1>13, <1>14, <1>15, <1>16 DEF Starting

\* sio stop, rm and clear --share, pause, resume and check keep the types.
LEMMA OthersTypes ==
    ASSUME TypeOK, NEW c \in Commands,
           \/ StopIncomplete(c) \/ StopLoads(c) \/ StopSaves(c) \/ Remove(c) \/ ClearPorts(c)
           \/ Pauses(c) \/ Resumes(c) \/ AskFails(c) \/ Saves(c) \/ Interrupted(c)
    PROVE  TypeOK'
<1> USE DEF outside
<1>1. /\ cmd[c].st \in States /\ state \in States /\ NoState \in States
      /\ TRUE \in BOOLEAN /\ FALSE \in BOOLEAN
  <2>1. TRUE \in BOOLEAN /\ FALSE \in BOOLEAN
    BY Zenon
  <2>2. QED
    BY <2>1, StateTypes DEF TypeOK, CommandStates
<1>2. ASSUME NEW pc \in PCs, NEW st \in States, Goto(c, pc) \/ GotoWith(c, pc, st) \/ Finish(c)
      PROVE  cmd' \in [Commands -> CommandStates]
  BY <1>2, CommandTypes
<1>3. CASE StopIncomplete(c)
  <2>1. cmd' \in [Commands -> CommandStates] /\ state' \in States
    BY <1>1, <1>3, CommandTypes, StateTypes DEF StopIncomplete
  <2>2. QED
    BY <1>3, <2>1 DEF StopIncomplete, TypeOK
<1>4. CASE StopLoads(c)
  <2>1. cmd' \in [Commands -> CommandStates]
    BY <1>1, <1>2, <1>4 DEF StopLoads, PCs
  <2>2. QED
    BY <1>4, <2>1 DEF StopLoads, TypeOK
<1>5. CASE StopSaves(c)
  <2>1. cmd' \in [Commands -> CommandStates] /\ state' \in States
    BY <1>1, <1>2, <1>5, StateTypes DEF StopSaves, PCs
  <2>2. marker' \in BOOLEAN
    BY <1>1, <1>5 DEF StopSaves
  <2>3. QED
    BY <1>5, <2>1, <2>2 DEF StopSaves, TypeOK
<1>6. CASE Remove(c)
  <2>1. cmd' \in [Commands -> CommandStates]
    BY <1>6, CommandTypes DEF Remove
  <2>2. marker' \in BOOLEAN
    BY <1>1, <1>6 DEF Remove
  <2>3. QED
    BY <1>1, <1>6, <2>1, <2>2 DEF Remove, TypeOK
<1>7. CASE ClearPorts(c)
  <2>1. cmd' \in [Commands -> CommandStates]
    BY <1>7, CommandTypes DEF ClearPorts
  <2>2. clearFailed' \in BOOLEAN /\ pairs' \in BOOLEAN
    BY <1>7, Zenon DEF ClearPorts
  <2>3. QED
    BY <1>7, <2>1, <2>2 DEF ClearPorts, TypeOK
<1>8. ASSUME NEW w \in Pids, Release(w) \/ Acquire(w)
      PROVE  worker' \in [Pids -> Workers] /\ marker' \in BOOLEAN
  <2>1. worker' \in [Pids -> Workers]
    <3>1. worker \in [Pids -> Workers] /\ worker[w] \in Workers
      BY DEF TypeOK
    <3>2. [worker[w] EXCEPT !.holds = TRUE] \in Workers /\ [worker[w] EXCEPT !.holds = FALSE] \in Workers
      <4>1. TRUE \in BOOLEAN /\ FALSE \in BOOLEAN
        BY Zenon
      <4>2. QED
        BY <3>1, <4>1, RecordTypes, Zenon
    <3>3. \/ worker' = [worker EXCEPT ![w] = [worker[w] EXCEPT !.holds = TRUE]]
          \/ worker' = [worker EXCEPT ![w] = [worker[w] EXCEPT !.holds = FALSE]]
      BY <1>8 DEF Release, Acquire
    <3>4. QED
      BY <3>1, <3>2, <3>3
  <2>2. marker' \in BOOLEAN
    BY <1>8, Zenon DEF Release, Acquire
  <2>3. QED
    BY <2>1, <2>2
<1>9. CASE Pauses(c)
  <2>1. cmd' \in [Commands -> CommandStates]
    BY <1>1, <1>2, <1>9, StateTypes DEF Pauses, PCs
  <2>2. CASE \E w \in Listening(DialAddress(cmd[c].st)) : Release(w)
    <3>1. worker' \in [Pids -> Workers] /\ marker' \in BOOLEAN
      BY <1>8, <2>2 DEF Listening
    <3>2. QED
      BY <1>9, <2>1, <3>1 DEF Pauses, TypeOK
  <2>3. CASE marker' = FALSE /\ UNCHANGED worker
    <3>1. marker' \in BOOLEAN
      BY <1>1, <2>3
    <3>2. QED
      BY <1>9, <2>1, <2>3, <3>1 DEF Pauses, TypeOK
  <2>4. QED
    BY <1>9, <2>2, <2>3 DEF Pauses
<1>10. CASE Resumes(c)
  <2>1. cmd' \in [Commands -> CommandStates]
    BY <1>1, <1>2, <1>10, StateTypes DEF Resumes, PCs
  <2>2. worker' \in [Pids -> Workers] /\ marker' \in BOOLEAN
    <3>1. CASE \E w \in Listening(DialAddress(cmd[c].st)) : Acquire(w)
      BY <1>8, <3>1 DEF Listening
    <3>2. CASE marker' = FALSE /\ UNCHANGED worker
      BY <1>1, <3>2 DEF TypeOK
    <3>3. CASE UNCHANGED <<worker, marker>>
      BY <3>3 DEF TypeOK
    <3>4. QED
      BY <1>10, <3>1, <3>2, <3>3 DEF Resumes
  <2>3. QED
    BY <1>10, <2>1, <2>2 DEF Resumes, TypeOK
<1>11. CASE AskFails(c) \/ Interrupted(c)
  <2>1. cmd' \in [Commands -> CommandStates]
    BY <1>11, CommandTypes DEF AskFails, Interrupted
  <2>2. QED
    BY <1>11, <2>1 DEF AskFails, Interrupted, TypeOK
<1>12. CASE Saves(c)
  <2>1. cmd' \in [Commands -> CommandStates]
    BY <1>12, CommandTypes DEF Saves
  <2>2. QED
    BY <1>1, <1>12, <2>1 DEF Saves, TypeOK
<1>13. QED
  BY <1>3, <1>4, <1>5, <1>6, <1>7, <1>9, <1>10, <1>11, <1>12

\* A command begins with the state it loads.
LEMMA BeginsWith ==
    ASSUME TypeOK, NEW c \in Commands, NEW op \in AllOps, Begin(c, op)
    PROVE  /\ TypeOK'
           /\ cmd'[c].op = op /\ cmd'[c].pc = FirstStep(op) /\ cmd'[c].st = state
           /\ cmd'[c].old = state /\ cmd'[c].failed = FALSE
           /\ told' = (IF op = "check" THEN told ELSE "none")
           /\ UNCHANGED <<state, marker, pairs, worker, started, reserved, plugged, borrowed,
                          clearFailed>>
<1>1. FirstStep(op) \in PCs
  BY DEF FirstStep, PCs, AllOps
<1> DEFINE begun == [Idle EXCEPT !.op = op, !.pc = FirstStep(op), !.st = state, !.old = state]
<1>2. /\ begun.op = op /\ begun.pc = FirstStep(op) /\ begun.st = state /\ begun.old = state
      /\ begun.failed = FALSE
  BY DEF Idle
<1>3. begun \in CommandStates
  <2>1. FALSE \in BOOLEAN
    BY Zenon
  <2>2. 0 \in 0 .. MaxWorkers /\ state \in States
    BY LifeAssumption DEF TypeOK
  <2>3. QED
    BY <1>1, <2>1, <2>2 DEF Idle, CommandStates
<1>4. cmd' = [cmd EXCEPT ![c] = begun]
  BY DEF Begin
<1> HIDE DEF begun
<1>5. cmd'[c] = begun /\ cmd' \in [Commands -> CommandStates]
  BY <1>3, <1>4 DEF TypeOK
<1>6. TypeOK'
  BY <1>5 DEF Begin, TypeOK
<1>7. QED
  BY <1>2, <1>5, <1>6 DEF Begin

\* The device and the other program keep the types.
LEMMA DeviceTypes == ASSUME TypeOK, Device PROVE TypeOK'
<1>1. plugged' \in BOOLEAN /\ borrowed' \in BOOLEAN
  BY Zenon DEF Device, TypeOK
<1>2. QED
  BY <1>1 DEF Device, TypeOK

-----------------------------------------------------------------------------
(* The steps of a command.                                                 *)

\* What a step leaves of a command.
LEMMA Moves ==
    ASSUME TypeOK, NEW c \in Commands
    PROVE  /\ \A pc : Goto(c, pc) =>
                 /\ cmd'[c].pc = pc
                 /\ UNCHANGED <<cmd[c].op, cmd[c].st, cmd[c].old, cmd[c].pid, cmd[c].failed>>
           /\ \A pc, st : GotoWith(c, pc, st) =>
                 /\ cmd'[c].pc = pc /\ cmd'[c].st = st
                 /\ UNCHANGED <<cmd[c].op, cmd[c].old, cmd[c].pid, cmd[c].failed>>
           /\ Finish(c) => cmd'[c] = Idle
BY DEF TypeOK, CommandStates, Goto, GotoWith, Finish

\* stopLiveResources changes no state, and goes on.
LEMMA StopsOn ==
    ASSUME TypeOK, NEW c \in Commands, Stopping(c)
    PROVE  /\ cmd[c].pc \in Stops \ {"stopped"} /\ cmd'[c].pc \in Stops \ {"stopping"}
           /\ UNCHANGED <<cmd[c].op, cmd[c].st, cmd[c].old, cmd[c].pid>>
           /\ UNCHANGED <<state, started, reserved, told, clearFailed>>
<1> USE DEF outside, Stops, At
<1>0. cmd \in [Commands -> CommandStates]
  BY DEF TypeOK
<1>1. CASE StopFinds(c)
  BY <1>1, Moves DEF StopFinds
<1>2. CASE StopKills(c)
  BY <1>0, <1>2 DEF StopKills, CommandStates
<1>3. CASE StopWaits(c)
  BY <1>3, Moves DEF StopWaits
<1>4. CASE StopTimesOut(c)
  BY <1>0, <1>4 DEF StopTimesOut, CommandStates
<1>5. CASE StopCleans(c)
  <2>1. CASE KeepsPairs(c)
    BY <1>5, <2>1, Moves DEF StopCleans
  <2>2. CASE ~KeepsPairs(c)
    <3>1. PICK fails \in BOOLEAN :
            cmd' = [cmd EXCEPT ![c].pc = "stopped", ![c].failed = @ \/ fails]
      BY <1>5, <2>2 DEF StopCleans
    <3>2. /\ cmd'[c].pc = "stopped"
          /\ UNCHANGED <<cmd[c].op, cmd[c].st, cmd[c].old, cmd[c].pid>>
      BY <1>0, <3>1 DEF CommandStates
    <3>3. cmd[c].pc = "cleaning" /\ UNCHANGED <<state, started, reserved, told, clearFailed>>
      BY <1>5 DEF StopCleans
    <3>4. QED
      BY <3>2, <3>3
  <2>3. QED
    BY <2>1, <2>2
<1>6. QED
  BY <1>1, <1>2, <1>3, <1>4, <1>5 DEF Stopping

\* A command that ends leaves its place.
LEMMA EndsPlace == ASSUME NEW c, cmd'[c] = Idle PROVE PlaceInv(c)'
BY DEF PlaceInv, Idle, At, Op, Launches, Stops, Starts, Launched

\* Every step leads a command to a place of its own operation.
LEMMA PlaceStep ==
    ASSUME NEW c, Commands = {c}, TypeOK, PlaceInv(c), [Next]_vars
    PROVE  PlaceInv(c)'
<1> USE DEF outside, At, Op, Launches
<1>0. c \in Commands
  OBVIOUS
<1>1. CASE UNCHANGED <<cmd, started, reserved>>
  BY <1>1 DEF PlaceInv
<1>2. ASSUME NEW op \in Ops[c], Begin(c, op) PROVE PlaceInv(c)'
  <2>1. op \in AllOps
    BY <1>0, LifeAssumption
  <2>2. /\ cmd'[c].op = op /\ cmd'[c].pc = FirstStep(op) /\ cmd'[c].st = cmd'[c].old
        /\ UNCHANGED <<started, reserved>>
    BY <1>0, <1>2, <2>1, BeginsWith
  <2>3. Launches(op) => started < MaxWorkers /\ reserved < MaxWorkers
    <3>1. Launching = {}
      BY <1>2 DEF Launching, Begin, PlaceInv
    <3>2. Cardinality(Launching) = 0
      BY <3>1, FS_EmptySet
    <3>3. QED
      BY <1>2, <3>2, LifeAssumption DEF Begin, TypeOK
  <2>4. QED
    BY <2>1, <2>2, <2>3 DEF PlaceInv, FirstStep, AllOps, Stops, Starts, Launched
<1>3. CASE Stopping(c)
  BY <1>0, <1>3, StopsOn DEF PlaceInv, Stops, Starts, Launched
<1>4. CASE \/ StartAborts(c) \/ StartSucceeds(c) \/ Restores(c) \/ StopIncomplete(c) \/ Remove(c)
           \/ ClearPorts(c) \/ AskFails(c) \/ Saves(c) \/ Interrupted(c)
  <2>1. cmd'[c] = Idle
    BY <1>0, <1>4, Moves DEF StartAborts, StartSucceeds, Restores, StopIncomplete, Remove, ClearPorts,
        AskFails, Saves, Interrupted
  <2>2. QED
    BY <2>1, EndsPlace
<1>5. CASE Opens(c) \/ Shares(c) \/ Forwards(c)
  <2>1. /\ UNCHANGED <<cmd[c].op, started>>
        /\ cmd'[c].pc = (IF Op(c) = "share" THEN "creating" ELSE "launching")
        /\ cmd[c].pc \in {"reserving", "stopped"} /\ cmd[c].op \in {"open", "share", "tcp"}
    BY <1>0, <1>5, Moves DEF Opens, Shares, Forwards, PlaceInv
  <2>2. QED
    BY <2>1 DEF PlaceInv, Stops, Starts, Launched
<1>6. CASE CreatePorts(c)
  <2>1. CASE Finish(c)
    BY <1>0, <2>1, Moves, EndsPlace
  <2>2. CASE Goto(c, "launching")
    <3>1. UNCHANGED <<cmd[c].op, started>> /\ cmd'[c].pc = "launching" /\ cmd[c].pc = "creating"
      BY <1>0, <1>6, <2>2, Moves DEF CreatePorts
    <3>2. QED
      BY <3>1 DEF PlaceInv, Stops, Starts, Launched
  <2>3. QED
    BY <1>6, <2>1, <2>2 DEF CreatePorts
<1>7. CASE Launch(c)
  <2>1. cmd'[c].pc = "started" /\ cmd'[c].op = cmd[c].op /\ cmd[c].pc = "launching"
    BY <1>0, <1>7 DEF Launch, TypeOK, CommandStates
  <2>2. QED
    BY <2>1 DEF PlaceInv, Stops, Starts, Launched
<1>8. CASE LaunchFails(c) \/ Undoes(c)
  <2>1. CASE Op(c) = "open"
    <3>1. cmd'[c].op = "open" /\ cmd'[c].pc = "restoring"
      BY <1>0, <1>8, <2>1, Moves DEF LaunchFails, Undoes
    <3>2. QED
      BY <3>1 DEF PlaceInv, Stops, Starts, Launched
  <2>2. CASE Op(c) # "open"
    BY <1>0, <1>8, <2>2, Moves, EndsPlace DEF LaunchFails, Undoes
  <2>3. QED
    BY <2>1, <2>2
<1>9. CASE LoadsBack(c) \/ StartTimesOut(c) \/ GivesUp(c)
  <2>1. /\ cmd'[c].op = cmd[c].op /\ cmd[c].pc \in {"started", "watching", "givingUp"}
        /\ cmd'[c].pc \in {"recording", "givingUp", "undoing"}
    BY <1>0, <1>9, Moves DEF LoadsBack, StartTimesOut, GivesUp
  <2>2. QED
    BY <2>1 DEF PlaceInv, Stops, Starts, Launched
<1>10. CASE SavesPid(c)
  <2>1. CASE Finish(c)
    BY <1>0, <2>1, Moves, EndsPlace
  <2>2. CASE Goto(c, "watching")
    <3>1. cmd'[c].op = cmd[c].op /\ cmd[c].pc = "recording" /\ cmd'[c].pc = "watching"
      BY <1>0, <1>10, <2>2, Moves DEF SavesPid
    <3>2. QED
      BY <3>1 DEF PlaceInv, Stops, Starts, Launched
  <2>3. QED
    BY <1>10, <2>1, <2>2 DEF SavesPid
<1>11. CASE StopLoads(c) \/ StopSaves(c)
  <2>1. CASE Finish(c)
    BY <1>0, <2>1, Moves, EndsPlace
  <2>2. CASE ~Finish(c)
    <3>1. /\ cmd'[c].op = cmd[c].op
          /\ cmd'[c].pc = "saving" \/ (cmd'[c].pc = "clearing" /\ Op(c) = "clearShare")
          /\ Op(c) \in {"stop", "clearShare"}
      BY <1>0, <1>11, <2>2, Moves DEF StopLoads, StopSaves
    <3>2. QED
      BY <3>1 DEF PlaceInv, Stops, Starts, Launched
  <2>3. QED
    BY <2>1, <2>2
<1>12. CASE Pauses(c) \/ Resumes(c)
  <2>1. cmd'[c].op = cmd[c].op /\ cmd[c].op \in {"pause", "resume"} /\ cmd'[c].pc = "saving"
    BY <1>0, <1>12, Moves DEF Pauses, Resumes
  <2>2. QED
    BY <2>1 DEF PlaceInv, Stops, Starts, Launched
<1>13. ASSUME NEW w \in Pids, Worker(w) \/ WorkerCrashes(w) \/ ShellReleases(w) \/ ShellAcquires(w) \/ Dies(w)
       PROVE  UNCHANGED <<cmd, started, reserved>>
  BY <1>13 DEF Worker, WorkerPicks, WorkerLoads, WorkerSaves, WorkerServes, WorkerFails, WorkerCrashes,
      ShellReleases, ShellAcquires, Dies, others
<1>14. CASE Device \/ UNCHANGED vars
  BY <1>1, <1>14 DEF Device, vars
<1>15. QED
  BY <1>1, <1>2, <1>3, <1>4, <1>5, <1>6, <1>7, <1>8, <1>9, <1>10, <1>11, <1>12, <1>13, <1>14
     DEF Next, Proceeds, Starting

-----------------------------------------------------------------------------
(* The steps of the workers.                                               *)

\* Every step keeps the types.
LEMMA TypesStep ==
    ASSUME NEW c, Commands = {c}, TypeOK, ModeInv, PlaceInv(c), [Next]_vars
    PROVE  TypeOK'
<1>1. ASSUME NEW op \in Ops[c], Begin(c, op) PROVE TypeOK'
  <2>1. op \in AllOps
    BY LifeAssumption
  <2>2. QED
    BY <1>1, <2>1, BeginsWith
<1>2. CASE Proceeds(c) \/ Interrupted(c)
  BY <1>2, StopsTypes, StartsTypes, OthersTypes DEF Proceeds
<1>3. ASSUME NEW w \in Pids, Worker(w) \/ WorkerCrashes(w) \/ ShellReleases(w) \/ ShellAcquires(w) \/ Dies(w)
      PROVE  TypeOK'
  BY <1>3, WorkerStep
<1>4. CASE Device
  BY <1>4, DeviceTypes
<1>5. CASE UNCHANGED vars
  BY <1>5 DEF TypeOK, vars
<1>6. QED
  BY <1>1, <1>2, <1>3, <1>4, <1>5 DEF Next

\* No step of a worker brings one to life; a worker that lives may save what
\* it has loaded or load the state.
LEMMA WorkersLive ==
    ASSUME TypeOK, ModeInv, NEW w \in Pids,
           \/ Worker(w) \/ WorkerCrashes(w) \/ ShellReleases(w) \/ ShellAcquires(w) \/ Dies(w)
    PROVE  /\ ModeInv'
           /\ UNCHANGED <<cmd, pairs, clearFailed>>
           /\ told' = told \/ (told = "paused" /\ told' = "none")
           /\ \A v \in Pids : Alive(v)' => Alive(v)
           /\ \/ state' = state
              \/ /\ Alive(w) /\ worker[w].step \in Loaded /\ worker[w].mode # "none"
                 /\ state' = Recorded(w)
           /\ \A v \in Pids : worker'[v].step \in Loaded =>
                 \/ worker[v].step \in Loaded /\ worker'[v].st.vports = worker[v].st.vports
                 \/ Alive(v) /\ worker'[v].st = state /\ state' = state
<1> USE DEF others, Alive, Steps, Loaded, ModeInv
<1>0. worker \in [Pids -> Workers]
  BY DEF TypeOK
<1>1. CASE WorkerPicks(w)
  <2>1. AutoMode(state) # "none"
    BY StateTypes DEF TypeOK
  <2>2. QED
    BY <1>0, <1>1, <2>1 DEF WorkerPicks, Exited, NoWorker, Workers
<1>2. CASE WorkerLoads(w)
  BY <1>0, <1>2 DEF WorkerLoads, Exited, NoWorker, Workers
<1>3. CASE WorkerSaves(w)
  <2>1. Recorded(w).vports = worker[w].st.vports
    BY <1>3, RecordedTypes DEF WorkerSaves
  <2>2. QED
    BY <1>0, <1>3, <2>1 DEF WorkerSaves, Workers
<1>4. CASE WorkerServes(w)
  BY <1>0, <1>4 DEF WorkerServes, Workers
<1>5. CASE WorkerFails(w)
  BY <1>0, <1>5 DEF WorkerFails, Exited, NoWorker, Workers
<1>6. CASE WorkerCrashes(w) \/ Dies(w)
  BY <1>0, <1>6 DEF WorkerCrashes, Dies, Dead, NoWorker, Workers
<1>7. CASE ShellReleases(w) \/ ShellAcquires(w)
  BY <1>0, <1>7 DEF ShellReleases, ShellAcquires, Release, Acquire, Workers
<1>8. QED
  BY <1>1, <1>2, <1>3, <1>4, <1>5, <1>6, <1>7 DEF Worker

\* A worker that steps keeps what is known of the one that lives.
LEMMA WorkersKeep ==
    ASSUME NEW c, Commands = {c}, LifeInv(c), NEW w \in Pids,
           \/ Worker(w) \/ WorkerCrashes(w) \/ ShellReleases(w) \/ ShellAcquires(w) \/ Dies(w)
    PROVE  ModeInv' /\ OwnerInv(c)' /\ ToldInv(c)' /\ PairsInv(c)'
<1> USE DEF LifeInv
<1>1. /\ ModeInv'
      /\ UNCHANGED <<cmd, pairs, clearFailed>>
      /\ told' = told \/ (told = "paused" /\ told' = "none")
      /\ \A v \in Pids : Alive(v)' => Alive(v)
  BY WorkersLive
<1>2. \/ state' = state
      \/ Alive(w) /\ worker[w].step \in Loaded /\ worker[w].mode # "none" /\ state' = Recorded(w)
  BY WorkersLive
<1>3. \A v \in Pids : worker'[v].step \in Loaded =>
         \/ worker[v].step \in Loaded /\ worker'[v].st.vports = worker[v].st.vports
         \/ Alive(v) /\ worker'[v].st = state /\ state' = state
  BY WorkersLive
<1>4. \/ state' = state
      \/ /\ Alive(w) /\ worker[w].step \in Loaded
         /\ Exists(state') /\ state'.pid = w /\ state'.vports = worker[w].st.vports
  BY <1>2, RecordedTypes
<1>5. OwnerInv(c)'
  <2>1. NoneAlive => NoneAlive'
    BY <1>1 DEF NoneAlive
  <2>2. \A pid : AliveIs(pid) => AliveIs(pid)'
    BY <1>1 DEF AliveIs
  <2>3. \A st : Named(st) => \A v \in Pids : Alive(v)' => Exists(st) /\ st.pid = v
    BY <1>1 DEF Named
  <2>4. ASSUME Named(state) PROVE Named(state)'
    BY <1>1, <1>4, <2>4 DEF Named, Exists
  <2>5. Named(cmd[c].st) => Named(cmd[c].st)'
    BY <1>1, <2>3 DEF Named, Exists
  <2>6. Exists(state) => Exists(state)'
    BY <1>4 DEF Exists
  <2>7. cmd[c].pc \in {"watching", "givingUp"} => state'.pid = cmd[c].pid
    BY <1>4 DEF OwnerInv, AliveIs
  <2>8. QED
    BY <1>1, <2>1, <2>2, <2>4, <2>5, <2>6, <2>7 DEF OwnerInv, At, Op, AliveIs, Exists
<1>6. ToldInv(c)'
  <2>1. ASSUME told' \in {"stopped", "removed"} PROVE NoneAlive' /\ state' = state /\ told' = told
    BY <1>1, <1>4, <2>1 DEF ToldInv, NoneAlive
  <2>2. QED
    BY <1>1, <2>1 DEF ToldInv, At, Op
<1>7. PairsInv(c)'
  <2>1. Sane(state)' /\ Sane(cmd[c].st)' /\ Sane(cmd[c].old)'
    BY <1>1, <1>4 DEF PairsInv, Sane, Exists
  <2>2. At(c, "creating") => state' = state
    BY <1>4 DEF OwnerInv, NoneAlive, At
  <2>3. ASSUME Owed
        PROVE  /\ \A v \in Pids : worker'[v].step \in Loaded => worker'[v].st.vports
               /\ ~At(c, "clearing") => state'.vports
               /\ At(c, "clearing") => state'.vports \/ (NoneAlive' /\ cmd[c].st.vports)
    BY <1>1, <1>3, <1>4, <2>3 DEF PairsInv, NoneAlive, Loaded
  <2>4. QED
    BY <1>1, <2>1, <2>2, <2>3 DEF PairsInv, Owed, At, Op, KeepsPairs, Loaded
<1>8. QED
  BY <1>1, <1>5, <1>6, <1>7

-----------------------------------------------------------------------------
(* The steps of the commands.                                              *)

\* Killing the only worker that may live leaves none; the others stay what
\* they are.
LEMMA Killed ==
    ASSUME TypeOK, NEW pid, AliveIs(pid), Kill(pid)
    PROVE  /\ NoneAlive'
           /\ \A v \in Pids : worker'[v].step \in Loaded =>
                 worker[v].step \in Loaded /\ worker'[v].st.vports = worker[v].st.vports
           /\ ModeInv => ModeInv'
<1>1. worker \in [Pids -> Workers] /\ 0 \notin Pids
  BY LifeAssumption DEF TypeOK, Pids
<1>2. CASE Running(pid)
  BY <1>1, <1>2 DEF Kill, AliveIs, NoneAlive, Alive, Loaded, ModeInv, Workers
<1>3. CASE ~Running(pid)
  BY <1>1, <1>3 DEF Kill, Running, AliveIs, NoneAlive, Alive, Loaded, ModeInv, Workers
<1>4. QED
  BY <1>2, <1>3

\* Once a command's stop has ended no worker lives, and the pairs are gone
\* unless it has failed or keeps them.
LEMMA StopsKeep ==
    ASSUME NEW c, Commands = {c}, LifeInv(c), Stopping(c)
    PROVE  ModeInv' /\ OwnerInv(c)' /\ ToldInv(c)' /\ PairsInv(c)'
<1> USE DEF LifeInv, outside, At, Op
<1>1. /\ cmd[c].pc \in Stops \ {"stopped"} /\ cmd'[c].pc \in Stops \ {"stopping"}
      /\ UNCHANGED <<cmd[c].op, cmd[c].st, cmd[c].old, cmd[c].pid>>
      /\ UNCHANGED <<state, started, reserved, told, clearFailed>>
  BY StopsOn
<1>2. told \notin {"stopped", "removed"}
  BY <1>1 DEF ToldInv, PlaceInv, Stops, Launches
<1>3. ToldInv(c)'
  BY <1>1, <1>2 DEF ToldInv
<1>4. ASSUME \/ cmd'[c].pc = "killing" /\ UNCHANGED worker /\ At(c, "stopping")
             \/ NoneAlive'
      PROVE  OwnerInv(c)'
  BY <1>1, <1>4 DEF OwnerInv, Stops, Named, NoneAlive, Exists, Alive
<1>5. ASSUME /\ \A v \in Pids : worker'[v].step \in Loaded =>
                   worker[v].step \in Loaded /\ worker'[v].st.vports = worker[v].st.vports
             /\ pairs' => pairs
             /\ pairs' => (cmd'[c].pc = "stopped" /\ ~cmd'[c].failed => KeepsPairs(c) \/ ~cmd[c].st.vports)
      PROVE  PairsInv(c)'
  <2>1. KeepsPairs(c)' <=> KeepsPairs(c)
    BY <1>1 DEF KeepsPairs
  <2>2. Sane(state)' /\ Sane(cmd[c].st)' /\ Sane(cmd[c].old)'
    BY <1>1 DEF PairsInv, Sane, Exists
  <2>3. QED
    BY <1>1, <1>5, <2>1, <2>2 DEF PairsInv, Owed, Stops, Loaded
<1>6. CASE StopFinds(c) \/ StopWaits(c) \/ StopTimesOut(c)
  <2>1. UNCHANGED <<worker, pairs>>
    BY <1>6 DEF StopFinds, StopWaits, StopTimesOut
  <2>2. cmd'[c].pc # "stopped"
    BY <1>6, Moves DEF StopFinds, StopWaits, StopTimesOut, TypeOK, CommandStates
  <2>3. \/ cmd'[c].pc = "killing" /\ At(c, "stopping")
        \/ NoneAlive'
    <3>1. CASE StopFinds(c)
      <4>1. CASE Running(cmd[c].st.pid)
        BY <3>1, <4>1, Moves DEF StopFinds
      <4>2. CASE ~Running(cmd[c].st.pid)
        <5>1. 0 \notin Pids
          BY LifeAssumption DEF Pids
        <5>2. NoneAlive
          BY <3>1, <4>2, <5>1 DEF StopFinds, OwnerInv, Named, NoneAlive, Running, Alive
        <5>3. QED
          BY <2>1, <5>2 DEF NoneAlive, Alive
      <4>3. QED
        BY <4>1, <4>2
    <3>2. CASE StopWaits(c) \/ StopTimesOut(c)
      <4>1. NoneAlive
        BY <3>2 DEF StopWaits, StopTimesOut, OwnerInv
      <4>2. QED
        BY <2>1, <4>1 DEF NoneAlive, Alive
    <3>3. QED
      BY <1>6, <3>1, <3>2
  <2>4. ModeInv'
    BY <2>1 DEF ModeInv
  <2>5. QED
    BY <1>3, <1>4, <1>5, <2>1, <2>2, <2>3, <2>4
<1>7. CASE StopKills(c)
  <2>1. AliveIs(cmd[c].st.pid) /\ Kill(cmd[c].st.pid) /\ UNCHANGED pairs
    BY <1>7 DEF StopKills, OwnerInv, Named, AliveIs
  <2>2. cmd'[c].pc # "stopped"
    BY <1>7 DEF StopKills, TypeOK, CommandStates
  <2>3. QED
    BY <1>3, <1>4, <1>5, <2>1, <2>2, Killed
<1>8. CASE StopCleans(c)
  <2>1. NoneAlive' /\ ModeInv' /\ UNCHANGED worker
    BY <1>8 DEF StopCleans, OwnerInv, NoneAlive, Alive, ModeInv
  <2>2. /\ pairs' => pairs
        /\ pairs' => (~cmd'[c].failed => KeepsPairs(c) \/ ~cmd[c].st.vports)
    <3>1. CASE KeepsPairs(c)
      BY <1>8, <3>1 DEF StopCleans
    <3>2. CASE ~KeepsPairs(c)
      <4>1. PICK fails \in BOOLEAN :
              /\ cmd' = [cmd EXCEPT ![c].pc = "stopped", ![c].failed = @ \/ fails]
              /\ pairs' = (pairs /\ (fails \/ ~cmd[c].st.vports))
        BY <1>8, <3>2 DEF StopCleans
      <4>2. cmd'[c].failed = (cmd[c].failed \/ fails)
        BY <4>1 DEF TypeOK, CommandStates
      <4>3. QED
        BY <4>1, <4>2
    <3>3. QED
      BY <3>1, <3>2
  <2>3. QED
    BY <1>3, <1>4, <1>5, <2>1, <2>2
<1>9. QED
  BY <1>6, <1>7, <1>8 DEF Stopping

\* A command begins with what is known of the worker and of the pairs.
LEMMA BeginKeeps ==
    ASSUME NEW c, Commands = {c}, LifeInv(c), NEW op \in Ops[c], Begin(c, op)
    PROVE  ModeInv' /\ OwnerInv(c)' /\ ToldInv(c)' /\ PairsInv(c)'
<1> USE DEF LifeInv
<1>0. op \in AllOps
  BY LifeAssumption
<1>1. /\ cmd'[c].op = op /\ cmd'[c].pc = FirstStep(op) /\ cmd'[c].st = state
      /\ cmd'[c].old = state /\ cmd'[c].failed = FALSE
      /\ told' = (IF op = "check" THEN told ELSE "none")
      /\ UNCHANGED <<state, pairs, worker, clearFailed>>
  BY <1>0, BeginsWith
<1>2. cmd[c].pc = "idle" /\ cmd[c].op = "none"
  BY DEF Begin, At, PlaceInv, Op
<1>3. /\ FirstStep(op) \in {"stopping", "saving", "asking", "clearing", "reserving"}
      /\ FirstStep(op) = "saving" => op = "check"
      /\ op = "check" => FirstStep(op) = "saving"
      /\ FirstStep(op) = "asking" => op \in {"pause", "resume"}
      /\ FirstStep(op) = "clearing" => op = "clearShare" /\ ~state.vports
      /\ FirstStep(op) = "reserving" => op = "open" /\ ~Exists(state)
      /\ op \in {"open", "stop"} => FirstStep(op) \in {"stopping", "reserving"}
  BY <1>0 DEF FirstStep, AllOps
<1>4. Named(state)
  BY <1>2 DEF OwnerInv
<1>5. Named(state)' /\ Named(cmd[c].st)' /\ ModeInv'
  BY <1>1, <1>4 DEF Named, Exists, Alive, ModeInv, LifeInv
<1>6. ~Exists(state) => NoneAlive'
  BY <1>1, <1>4 DEF Named, NoneAlive, Alive
<1>7. OwnerInv(c)'
  BY <1>1, <1>3, <1>5, <1>6 DEF OwnerInv, At, Op
<1>8. ToldInv(c)'
  <2>1. ASSUME told' \in {"stopped", "removed"} PROVE op = "check" /\ told' = told
    BY <1>1, <2>1
  <2>2. ASSUME told' \in {"stopped", "removed"} PROVE NoneAlive' /\ state.status \in {"none", "stopped"}
    BY <1>1, <2>1, <2>2 DEF ToldInv, NoneAlive, Alive
  <2>3. QED
    BY <1>1, <2>1, <2>2 DEF ToldInv, At, Op
<1>9. PairsInv(c)'
  <2>1. Sane(state)' /\ Sane(cmd[c].st)' /\ Sane(cmd[c].old)'
    BY <1>1 DEF PairsInv, Sane, Exists
  <2>2. Owed => state.vports /\ Exists(state)
    BY <1>2 DEF PairsInv, At, Sane
  <2>3. QED
    BY <1>1, <1>3, <2>1, <2>2 DEF PairsInv, Owed, At, Op, Stops, Sane
<1>10. QED
  BY <1>5, <1>7, <1>8, <1>9

\* A start keeps what is known: the worker it has started is the one that
\* it watches and records, and the only one that lives.
LEMMA StartsKeep ==
    ASSUME NEW c, Commands = {c}, LifeInv(c), Starting(c)
    PROVE  ModeInv' /\ OwnerInv(c)' /\ ToldInv(c)' /\ PairsInv(c)'
<1> USE DEF LifeInv, outside, At, Op
<1>0. /\ c \in Commands /\ cmd[c].st \in States /\ cmd[c].old \in States /\ state \in States
      /\ worker \in [Pids -> Workers] /\ 0 \notin Pids
  BY LifeAssumption DEF TypeOK, CommandStates, Pids
<1>1. /\ Launches(cmd[c].op) /\ cmd[c].pc \in Starts \cup {"stopped"}
      /\ UNCHANGED <<told, clearFailed>>
  BY DEF Starting, StartAborts, Opens, Shares, CreatePorts, Forwards, Launch, LaunchFails, LoadsBack,
         SavesPid, StartSucceeds, StartTimesOut, GivesUp, Undoes, Restores, PlaceInv, Starts, Launches
<1>2. told \notin {"stopped", "removed"}
  BY <1>1 DEF ToldInv, Launches, Starts
<1>3. ToldInv(c)'
  BY <1>1, <1>2 DEF ToldInv
<1>4. ASSUME UNCHANGED worker
      PROVE  /\ ModeInv'
             /\ NoneAlive => NoneAlive'
             /\ \A pid : AliveIs(pid) => AliveIs(pid)'
             /\ \A v \in Pids : worker'[v].step \in Loaded =>
                   worker[v].step \in Loaded /\ worker'[v].st.vports = worker[v].st.vports
  BY <1>4 DEF ModeInv, NoneAlive, AliveIs, Alive
<1>5. NoneAlive' => Named(state)'
  BY DEF NoneAlive, Named
<1>6. Idle.pc = "idle" /\ Idle.op = "none" /\ ~Idle.st.vports /\ ~Idle.old.vports
  BY DEF Idle, NoState
<1>7. ASSUME cmd'[c] = Idle, Named(state)' PROVE OwnerInv(c)'
  BY <1>6, <1>7 DEF OwnerInv
<1>8. ASSUME cmd'[c] = Idle, Sane(state)',
             Owed' => state'.vports /\ \A v \in Pids : worker'[v].step \in Loaded => worker'[v].st.vports
      PROVE  PairsInv(c)'
  BY <1>6, <1>8 DEF PairsInv, Owed, Sane, Stops, Loaded
<1>9. CASE StartAborts(c) \/ StartSucceeds(c)
  <2>1. cmd'[c] = Idle /\ UNCHANGED <<state, worker, pairs>>
    BY <1>0, <1>9, Moves DEF StartAborts, StartSucceeds
  <2>2. Named(state)'
    <3>1. Named(state)
      BY <1>9 DEF StartAborts, StartSucceeds, OwnerInv, AliveIs, Named, NoneAlive
    <3>2. QED
      BY <2>1, <3>1 DEF Named, Alive, Exists
  <2>3. PairsInv(c)'
    BY <1>1, <1>4, <1>8, <1>9, <2>1 DEF PairsInv, Owed, StartAborts, StartSucceeds, Sane, Exists, Loaded
  <2>4. QED
    BY <1>3, <1>4, <1>7, <2>1, <2>2, <2>3
<1>10. CASE Opens(c)
  <2>1. /\ cmd'[c].pc = "launching" /\ cmd'[c].op = "open"
        /\ UNCHANGED <<cmd[c].st, cmd[c].old, worker, pairs>>
        /\ Exists(state') /\ ~state'.vports
    BY <1>0, <1>10, Moves DEF Opens, NoState, Exists, PlaceInv
  <2>2. NoneAlive' /\ ModeInv'
    BY <1>4, <1>10, <2>1 DEF Opens, OwnerInv
  <2>3. ~Owed'
    BY <1>1, <1>10, <2>1 DEF Opens, PairsInv, Owed, KeepsPairs, Stops, PlaceInv
  <2>4. PairsInv(c)'
    BY <2>1, <2>3 DEF PairsInv, Sane, Exists
  <2>5. OwnerInv(c)'
    BY <2>1, <2>2 DEF OwnerInv, Exists
  <2>6. QED
    BY <1>3, <2>2, <2>4, <2>5
<1>11. CASE Shares(c)
  <2>1. /\ cmd'[c].pc = "creating" /\ cmd'[c].op = "share"
        /\ UNCHANGED <<cmd[c].st, cmd[c].old, worker, pairs>>
        /\ Exists(state') /\ state'.vports
    BY <1>0, <1>11, Moves DEF Shares, States, Exists
  <2>2. NoneAlive' /\ ModeInv'
    BY <1>4, <1>11, <2>1 DEF Shares, OwnerInv
  <2>3. ~Owed'
    BY <1>1, <1>11, <2>1 DEF Shares, PairsInv, Owed, KeepsPairs, Stops
  <2>4. PairsInv(c)'
    BY <2>1, <2>3 DEF PairsInv, Sane, Exists
  <2>5. OwnerInv(c)'
    BY <2>1, <2>2 DEF OwnerInv, Exists
  <2>6. QED
    BY <1>3, <2>2, <2>4, <2>5
<1>12. CASE CreatePorts(c)
  <2>1. UNCHANGED <<state, worker>> /\ state.vports /\ Exists(state) /\ Op(c) = "share"
    BY <1>12 DEF CreatePorts, PairsInv, Sane, PlaceInv
  <2>2. NoneAlive' /\ ModeInv'
    BY <1>4, <1>12, <2>1 DEF CreatePorts, OwnerInv
  <2>3. CASE pairs' = TRUE /\ Goto(c, "launching")
    <3>1. cmd'[c].pc = "launching" /\ UNCHANGED <<cmd[c].op, cmd[c].st, cmd[c].old>>
      BY <1>0, <2>3, Moves
    <3>2. \A v \in Pids : worker'[v].step \notin Loaded
      BY <2>2 DEF NoneAlive, Alive, Steps, Loaded
    <3>3. PairsInv(c)'
      BY <2>1, <3>1, <3>2 DEF PairsInv, Sane, Exists, Stops, Loaded
    <3>4. OwnerInv(c)'
      BY <2>1, <2>2, <3>1 DEF OwnerInv, Exists
    <3>5. QED
      BY <1>3, <2>2, <3>3, <3>4
  <2>4. CASE Finish(c) /\ UNCHANGED pairs
    <3>1. cmd'[c] = Idle
      BY <1>0, <2>4, Moves
    <3>2. PairsInv(c)'
      BY <1>1, <1>4, <1>8, <2>1, <2>4, <3>1 DEF PairsInv, Owed, Sane, Exists, Loaded
    <3>3. QED
      BY <1>3, <1>5, <1>7, <2>2, <3>1, <3>2
  <2>5. QED
    BY <1>12, <2>3, <2>4 DEF CreatePorts
<1>13. CASE Forwards(c)
  <2>1. /\ cmd'[c].pc = "launching" /\ cmd'[c].op = "tcp"
        /\ UNCHANGED <<cmd[c].st, cmd[c].old, worker, pairs>>
    BY <1>0, <1>13, Moves DEF Forwards
  <2>2. /\ Exists(state')
        /\ state'.vports <=> cmd[c].st.vports /\ KeepsPairs(c)
    <3> DEFINE keeps == cmd[c].st.vports /\ KeepsPairs(c)
    <3> DEFINE status == IF KeepsPairs(c) THEN cmd[c].st.status ELSE "tcp"
    <3>1. state' = [cmd[c].st EXCEPT !.paused = FALSE, !.tcp = TRUE, !.ctl = 0, !.pid = 0,
                       !.vports = keeps, !.status = status]
      BY <1>13 DEF Forwards
    <3>2. KeepsPairs(c) => cmd[c].st.status # "none"
      BY <1>13 DEF Forwards, KeepsPairs, PlaceInv, Stops
    <3>3. status # "none" /\ (keeps <=> cmd[c].st.vports /\ KeepsPairs(c))
      BY <3>2
    <3> HIDE DEF keeps, status
    <3>4. state'.vports = keeps /\ state'.status = status
      BY <1>0, <3>1 DEF States
    <3>5. QED
      BY <3>3, <3>4 DEF Exists
  <2>3. NoneAlive' /\ ModeInv'
    BY <1>4, <1>13, <2>1 DEF Forwards, OwnerInv
  <2>4. PairsInv(c)'
    BY <1>1, <1>4, <1>13, <2>1, <2>2 DEF Forwards, PairsInv, Owed, Sane, Exists, Stops, Loaded
  <2>5. OwnerInv(c)'
    BY <2>1, <2>2, <2>3 DEF OwnerInv, Exists
  <2>6. QED
    BY <1>3, <2>3, <2>4, <2>5
<1>14. CASE Launch(c)
  <2>1. /\ cmd'[c].pc = "started" /\ cmd'[c].pid = started + 1
        /\ UNCHANGED <<cmd[c].op, cmd[c].st, cmd[c].old, cmd[c].failed, state, pairs>>
    BY <1>0, <1>14 DEF Launch, NewPid, TypeOK, CommandStates
  <2>2. worker' = [worker EXCEPT ![started + 1].step = "start"] /\ cmd[c].pc = "launching" /\ NoneAlive
    BY <1>14 DEF Launch, OwnerInv
  <2>3. AliveIs(cmd[c].pid)' /\ ModeInv'
    BY <1>0, <2>1, <2>2 DEF AliveIs, NoneAlive, Alive, ModeInv, Workers
  <2>4. \A v \in Pids : worker'[v].step \in Loaded =>
           worker[v].step \in Loaded /\ worker'[v].st.vports = worker[v].st.vports
    BY <1>0, <2>2 DEF Loaded, Workers
  <2>5. PairsInv(c)'
    BY <1>1, <2>1, <2>2, <2>4 DEF PairsInv, Owed, Sane, Exists, Stops, Loaded
  <2>6. OwnerInv(c)'
    BY <2>1, <2>2, <2>3 DEF OwnerInv, Exists
  <2>7. QED
    BY <1>3, <2>3, <2>5, <2>6
<1>15. CASE LaunchFails(c)
  <2>1. UNCHANGED <<state, worker, pairs>> /\ NoneAlive /\ cmd[c].pc = "launching"
    BY <1>15 DEF LaunchFails, OwnerInv
  <2>2. NoneAlive' /\ ModeInv'
    BY <1>4, <2>1
  <2>3. CASE Op(c) = "open"
    <3>1. cmd'[c].pc = "restoring" /\ cmd'[c].op = "open" /\ UNCHANGED <<cmd[c].st, cmd[c].old>>
      BY <1>0, <1>15, <2>3, Moves DEF LaunchFails
    <3>2. ~Owed'
      BY <1>1, <2>1, <2>3 DEF PairsInv, Owed, Stops
    <3>3. PairsInv(c)' /\ OwnerInv(c)'
      BY <2>1, <2>2, <3>1, <3>2 DEF PairsInv, OwnerInv, Sane, Exists
    <3>4. QED
      BY <1>3, <2>2, <3>3
  <2>4. CASE Op(c) # "open"
    <3>1. cmd'[c] = Idle
      BY <1>0, <1>15, <2>4, Moves DEF LaunchFails
    <3>2. PairsInv(c)'
      BY <1>1, <1>4, <1>8, <2>1, <3>1 DEF PairsInv, Owed, Sane, Exists, Loaded
    <3>3. QED
      BY <1>3, <1>5, <1>7, <2>2, <3>1, <3>2
  <2>5. QED
    BY <2>3, <2>4
<1>16. CASE LoadsBack(c)
  <2>1. /\ cmd[c].pc = "started" /\ cmd'[c].pc = "recording"
        /\ cmd'[c].st = [state EXCEPT !.pid = cmd[c].pid]
        /\ UNCHANGED <<cmd[c].op, cmd[c].old, cmd[c].pid, cmd[c].failed, state, worker, pairs>>
    BY <1>0, <1>16, Moves DEF LoadsBack
  <2>2. /\ cmd'[c].st.pid = cmd[c].pid /\ cmd'[c].st.vports = state.vports
        /\ Exists(cmd'[c].st) /\ Exists(state)
    BY <1>0, <1>16, <2>1 DEF LoadsBack, States, Exists
  <2>3. AliveIs(cmd[c].pid)' /\ ModeInv'
    BY <2>1 DEF OwnerInv, AliveIs, Alive, ModeInv
  <2>4. PairsInv(c)'
    BY <1>1, <1>4, <2>1, <2>2 DEF PairsInv, Owed, Sane, Exists, Stops, Loaded
  <2>5. OwnerInv(c)'
    BY <2>1, <2>2, <2>3 DEF OwnerInv, Exists
  <2>6. QED
    BY <1>3, <2>3, <2>4, <2>5
<1>17. CASE SavesPid(c)
  <2>1. cmd[c].pc = "recording" /\ state' = cmd[c].st /\ UNCHANGED <<worker, pairs>>
    BY <1>17 DEF SavesPid
  <2>2. AliveIs(cmd[c].pid) /\ Exists(state') /\ state'.pid = cmd[c].pid
    BY <2>1 DEF OwnerInv
  <2>3. Owed' => Owed /\ state'.vports
    BY <1>1, <2>1 DEF PairsInv, Owed
  <2>4. CASE Finish(c)
    <3>1. cmd'[c] = Idle
      BY <1>0, <2>4, Moves
    <3>2. Named(state)'
      BY <2>1, <2>2 DEF Named, AliveIs, Alive, Exists
    <3>3. PairsInv(c)'
      BY <1>4, <1>8, <2>1, <2>3, <3>1 DEF PairsInv, Sane, Exists, Loaded
    <3>4. QED
      BY <1>3, <1>4, <1>7, <2>1, <3>1, <3>2, <3>3
  <2>5. CASE Goto(c, "watching")
    <3>1. /\ cmd'[c].pc = "watching"
          /\ UNCHANGED <<cmd[c].op, cmd[c].st, cmd[c].old, cmd[c].pid, cmd[c].failed>>
      BY <1>0, <2>5, Moves
    <3>2. AliveIs(cmd[c].pid)' /\ ModeInv'
      BY <2>1, <2>2, <3>1 DEF AliveIs, Alive, ModeInv
    <3>3. PairsInv(c)'
      BY <1>4, <2>1, <2>3, <3>1 DEF PairsInv, Sane, Exists, Stops, Loaded
    <3>4. OwnerInv(c)'
      BY <2>1, <2>2, <3>1, <3>2 DEF OwnerInv, Exists
    <3>5. QED
      BY <1>3, <3>2, <3>3, <3>4
  <2>6. QED
    BY <1>17, <2>4, <2>5 DEF SavesPid
<1>18. CASE StartTimesOut(c)
  <2>1. /\ cmd[c].pc = "watching" /\ cmd'[c].pc = "givingUp"
        /\ UNCHANGED <<cmd[c].op, cmd[c].st, cmd[c].old, cmd[c].pid, cmd[c].failed, state, worker, pairs>>
    BY <1>0, <1>18, Moves DEF StartTimesOut
  <2>2. AliveIs(cmd[c].pid)' /\ ModeInv'
    BY <2>1 DEF OwnerInv, AliveIs, Alive, ModeInv
  <2>3. PairsInv(c)'
    BY <1>1, <1>4, <2>1 DEF PairsInv, Owed, Sane, Exists, Stops, Loaded
  <2>4. OwnerInv(c)'
    BY <2>1, <2>2 DEF OwnerInv, Exists
  <2>5. QED
    BY <1>3, <2>2, <2>3, <2>4
<1>19. CASE GivesUp(c)
  <2>1. /\ cmd[c].pc = "givingUp" /\ cmd'[c].pc = "undoing"
        /\ UNCHANGED <<cmd[c].op, cmd[c].st, cmd[c].old, cmd[c].pid, cmd[c].failed, state, pairs>>
    BY <1>0, <1>19, Moves DEF GivesUp
  <2>2. /\ NoneAlive' /\ ModeInv'
        /\ \A v \in Pids : worker'[v].step \in Loaded =>
              worker[v].step \in Loaded /\ worker'[v].st.vports = worker[v].st.vports
    BY <1>19, Killed DEF GivesUp, OwnerInv
  <2>3. PairsInv(c)'
    BY <1>1, <2>1, <2>2 DEF PairsInv, Owed, Sane, Exists, Stops, Loaded
  <2>4. OwnerInv(c)'
    BY <2>1, <2>2 DEF OwnerInv, Exists
  <2>5. QED
    BY <1>3, <2>2, <2>3, <2>4
<1>20. CASE Undoes(c)
  <2>1. cmd[c].pc = "undoing" /\ UNCHANGED <<worker, pairs>> /\ NoneAlive' /\ ModeInv'
    BY <1>4, <1>20 DEF Undoes, OwnerInv
  <2>2. Sane(state)' /\ (Owed => state'.vports)
    BY <1>0, <1>1, <1>20, <2>1 DEF Undoes, Launches, States, Sane, Exists, PairsInv, Stops
  <2>3. CASE Op(c) = "open"
    <3>1. cmd'[c].pc = "restoring" /\ cmd'[c].op = "open" /\ UNCHANGED <<cmd[c].st, cmd[c].old>>
      BY <1>0, <1>20, <2>3, Moves DEF Undoes
    <3>2. ~Owed'
      BY <1>1, <2>1, <2>3 DEF PairsInv, Owed, Stops
    <3>3. PairsInv(c)' /\ OwnerInv(c)'
      BY <2>1, <2>2, <3>1, <3>2 DEF PairsInv, OwnerInv, Sane, Exists
    <3>4. QED
      BY <1>3, <2>1, <3>3
  <2>4. CASE Op(c) # "open"
    <3>1. cmd'[c] = Idle
      BY <1>0, <1>20, <2>4, Moves DEF Undoes
    <3>2. PairsInv(c)'
      BY <1>1, <1>4, <1>8, <2>1, <2>2, <3>1 DEF PairsInv, Owed, Loaded
    <3>3. QED
      BY <1>3, <1>5, <1>7, <2>1, <3>1, <3>2
  <2>5. QED
    BY <2>3, <2>4
<1>21. CASE Restores(c)
  <2>1. cmd[c].pc = "restoring" /\ state' = cmd[c].old /\ UNCHANGED <<worker, pairs>>
        /\ NoneAlive' /\ ModeInv' /\ cmd'[c] = Idle
    BY <1>0, <1>4, <1>21, Moves DEF Restores, OwnerInv
  <2>2. ~Owed' /\ Sane(state)'
    BY <1>1, <2>1 DEF PairsInv, PlaceInv, Owed, Stops, Sane, Exists
  <2>3. QED
    BY <1>3, <1>5, <1>7, <1>8, <2>1, <2>2
<1>22. QED
  BY <1>9, <1>10, <1>11, <1>12, <1>13, <1>14, <1>15, <1>16, <1>17, <1>18, <1>19, <1>20, <1>21 DEF Starting

\* sio stop, rm, clear --share, pause, resume and check keep what is known.
LEMMA OthersKeep ==
    ASSUME NEW c, Commands = {c}, LifeInv(c),
           \/ StopIncomplete(c) \/ StopLoads(c) \/ StopSaves(c) \/ Remove(c) \/ ClearPorts(c)
           \/ Pauses(c) \/ Resumes(c) \/ AskFails(c) \/ Saves(c) \/ Interrupted(c)
    PROVE  ModeInv' /\ OwnerInv(c)' /\ ToldInv(c)' /\ PairsInv(c)'
<1> USE DEF LifeInv, outside, At, Op
<1>0. /\ c \in Commands /\ cmd[c].st \in States /\ state \in States
      /\ worker \in [Pids -> Workers]
  BY DEF TypeOK, CommandStates
<1>1. ASSUME UNCHANGED worker
      PROVE  /\ ModeInv'
             /\ NoneAlive => NoneAlive'
             /\ \A st : Named(st) => \A v \in Pids : Alive(v)' => Exists(st) /\ st.pid = v
             /\ \A v \in Pids : worker'[v].step \in Loaded =>
                   worker[v].step \in Loaded /\ worker'[v].st.vports = worker[v].st.vports
  BY <1>1 DEF ModeInv, NoneAlive, Named, Alive
<1>2. Idle.pc = "idle" /\ Idle.op = "none" /\ ~Idle.st.vports /\ ~Idle.old.vports
  BY DEF Idle, NoState
<1>3. ASSUME cmd'[c] = Idle, Named(state)' PROVE OwnerInv(c)'
  BY <1>2, <1>3 DEF OwnerInv
<1>4. ASSUME cmd'[c] = Idle, Sane(state)',
             Owed' => state'.vports /\ \A v \in Pids : worker'[v].step \in Loaded => worker'[v].st.vports
      PROVE  PairsInv(c)'
  BY <1>2, <1>4 DEF PairsInv, Owed, Sane, Stops, Loaded
<1>5. ASSUME cmd'[c] = Idle,
             \/ told' \notin {"stopped", "removed"}
             \/ NoneAlive' /\ state'.status \in {"none", "stopped"}
      PROVE  ToldInv(c)'
  BY <1>2, <1>5 DEF ToldInv
<1>6. NoneAlive' => Named(state)'
  BY DEF NoneAlive, Named
<1>7. CASE StopIncomplete(c)
  <2>1. /\ cmd'[c] = Idle /\ UNCHANGED <<worker, pairs, clearFailed>> /\ NoneAlive' /\ ModeInv'
        /\ state'.status = "stopped" /\ state'.vports = cmd[c].st.vports
    BY <1>0, <1>1, <1>7, Moves DEF StopIncomplete, OwnerInv, Incomplete, Stopped, NoState
  <2>2. PairsInv(c)'
    BY <1>1, <1>4, <1>7, <2>1 DEF StopIncomplete, PairsInv, Owed, Sane, Exists, Stops, Loaded
  <2>3. QED
    BY <1>3, <1>5, <1>6, <2>1, <2>2
<1>8. CASE StopLoads(c)
  <2>1. UNCHANGED <<state, worker, pairs, told, clearFailed>> /\ NoneAlive' /\ ModeInv'
    BY <1>0, <1>1, <1>8 DEF StopLoads, OwnerInv
  <2>2. told \notin {"stopped", "removed"}
    BY <1>8 DEF StopLoads, ToldInv
  <2>3. ~Exists(state) \/ Op(c) = "stop" => ~Owed
    BY <1>8 DEF StopLoads, PairsInv, Sane, KeepsPairs, Exists
  <2>4. CASE Exists(state)
    <3>1. /\ cmd'[c].pc = "saving" /\ cmd'[c].st = state
          /\ UNCHANGED <<cmd[c].op, cmd[c].old>>
      BY <1>0, <1>8, <2>4, Moves DEF StopLoads
    <3>2. PairsInv(c)'
      BY <1>1, <1>8, <2>1, <2>3, <3>1 DEF StopLoads, PairsInv, Owed, Sane, Exists, Stops, Loaded
    <3>3. OwnerInv(c)' /\ ToldInv(c)'
      BY <1>8, <2>1, <2>2, <3>1 DEF StopLoads, OwnerInv, ToldInv
    <3>4. QED
      BY <2>1, <3>2, <3>3
  <2>5. CASE ~Exists(state) /\ Op(c) = "stop"
    <3>1. cmd'[c] = Idle
      BY <1>0, <1>8, <2>5, Moves DEF StopLoads
    <3>2. PairsInv(c)'
      BY <1>4, <2>1, <2>3, <2>5, <3>1 DEF PairsInv, Owed, Sane, Exists
    <3>3. QED
      BY <1>3, <1>5, <1>6, <2>1, <2>2, <3>1, <3>2
  <2>6. CASE ~Exists(state) /\ Op(c) # "stop"
    <3>1. cmd'[c].pc = "clearing" /\ cmd'[c].op = "clearShare" /\ UNCHANGED <<cmd[c].st, cmd[c].old>>
      BY <1>0, <1>8, <2>6, Moves DEF StopLoads
    <3>2. PairsInv(c)'
      BY <2>1, <2>3, <2>6, <3>1 DEF PairsInv, Owed, Sane, Exists
    <3>3. OwnerInv(c)' /\ ToldInv(c)'
      BY <1>6, <2>1, <2>2, <3>1 DEF OwnerInv, ToldInv
    <3>4. QED
      BY <2>1, <3>2, <3>3
  <2>7. QED
    BY <2>4, <2>5, <2>6
<1>9. CASE StopSaves(c)
  <2>1. /\ UNCHANGED <<worker, pairs, clearFailed>> /\ NoneAlive' /\ ModeInv'
        /\ state'.status = "stopped"
    BY <1>0, <1>1, <1>9 DEF StopSaves, OwnerInv, Stopped, NoState
  <2>2. CASE Op(c) = "stop"
    <3>1. cmd'[c] = Idle
      BY <1>0, <1>9, <2>2, Moves DEF StopSaves
    <3>2. ~Owed'
      BY <1>9, <2>1, <2>2 DEF StopSaves, PairsInv, Owed, Stops
    <3>3. PairsInv(c)'
      BY <1>4, <2>1, <3>1, <3>2 DEF Sane, Exists
    <3>4. QED
      BY <1>3, <1>5, <1>6, <2>1, <3>1, <3>3
  <2>3. CASE Op(c) # "stop"
    <3>1. /\ cmd'[c].pc = "clearing" /\ cmd'[c].op = "clearShare" /\ UNCHANGED <<cmd[c].st, cmd[c].old, told>>
      BY <1>0, <1>9, <2>3, Moves DEF StopSaves
    <3>2. told \notin {"stopped", "removed"}
      BY <1>9, <2>3 DEF StopSaves, ToldInv
    <3>3. PairsInv(c)'
      BY <1>1, <1>9, <2>1, <3>1 DEF StopSaves, PairsInv, Owed, Sane, Exists, Stops, Loaded
    <3>4. OwnerInv(c)' /\ ToldInv(c)'
      BY <1>6, <2>1, <3>1, <3>2 DEF OwnerInv, ToldInv
    <3>5. QED
      BY <2>1, <3>3, <3>4
  <2>4. QED
    BY <2>2, <2>3
<1>10. CASE Remove(c)
  <2>1. /\ cmd'[c] = Idle /\ UNCHANGED <<worker, pairs, clearFailed>> /\ NoneAlive' /\ ModeInv'
        /\ state'.status = "none" /\ ~state'.vports
    BY <1>0, <1>1, <1>10, Moves DEF Remove, OwnerInv, NoState
  <2>2. ~Owed'
    BY <1>10, <2>1 DEF Remove, PairsInv, Owed, KeepsPairs
  <2>3. PairsInv(c)'
    BY <1>4, <2>1, <2>2 DEF Sane
  <2>4. QED
    BY <1>3, <1>5, <1>6, <2>1, <2>3
<1>11. CASE ClearPorts(c)
  <2>1. cmd'[c] = Idle /\ UNCHANGED <<worker, state, told>> /\ ~Owed' /\ cmd[c].pc = "clearing"
    BY <1>0, <1>11, Moves DEF ClearPorts, Owed
  <2>2. Named(state)' /\ ModeInv'
    BY <1>1, <2>1 DEF OwnerInv, Named, Exists
  <2>3. told \notin {"stopped", "removed"}
    BY <1>11 DEF ClearPorts, ToldInv, PlaceInv
  <2>4. PairsInv(c)'
    BY <1>4, <2>1 DEF PairsInv, Sane, Exists
  <2>5. QED
    BY <1>3, <1>5, <2>1, <2>2, <2>3, <2>4
<1>12. ASSUME NEW w \in Pids, Release(w) \/ Acquire(w)
       PROVE  /\ ModeInv'
              /\ \A v \in Pids : Alive(v)' => Alive(v)
              /\ \A v \in Pids : worker'[v].step \in Loaded =>
                    worker[v].step \in Loaded /\ worker'[v].st.vports = worker[v].st.vports
  BY <1>0, <1>12 DEF Release, Acquire, ModeInv, Alive, Loaded, Workers
<1>13. CASE Pauses(c) \/ Resumes(c)
  <2>1. /\ ModeInv'
        /\ \A v \in Pids : Alive(v)' => Alive(v)
        /\ \A v \in Pids : worker'[v].step \in Loaded =>
              worker[v].step \in Loaded /\ worker'[v].st.vports = worker[v].st.vports
    <3>1. CASE UNCHANGED worker
      BY <3>1 DEF ModeInv, Alive
    <3>2. CASE \E w \in Pids : Release(w) \/ Acquire(w)
      BY <1>12, <3>2
    <3>3. QED
      BY <1>13, <3>1, <3>2 DEF Pauses, Resumes, Listening
  <2>2. /\ cmd[c].pc = "asking" /\ cmd'[c].pc = "saving" /\ cmd[c].op \in {"pause", "resume"}
        /\ UNCHANGED <<cmd[c].op, cmd[c].old, state, pairs, clearFailed>>
        /\ cmd'[c].st \in {Paused(cmd[c].st), Resumed(cmd[c].st)}
        /\ told' \in {told, "paused"}
    BY <1>0, <1>13, Moves DEF Pauses, Resumes
  <2>3. /\ cmd'[c].st.pid = cmd[c].st.pid /\ Exists(cmd'[c].st)
        /\ cmd'[c].st.vports = cmd[c].st.vports
    BY <1>0, <2>2, PausedKeeps
  <2>4. Named(state)' /\ Named(cmd[c].st)'
    BY <2>1, <2>2, <2>3 DEF OwnerInv, Named, Exists
  <2>5. OwnerInv(c)'
    BY <2>2, <2>4 DEF OwnerInv
  <2>6. ToldInv(c)'
    BY <2>2 DEF ToldInv
  <2>7. PairsInv(c)'
    BY <2>1, <2>2, <2>3 DEF PairsInv, Owed, Sane, Exists, Stops, Loaded
  <2>8. QED
    BY <2>1, <2>5, <2>6, <2>7
<1>14. CASE AskFails(c) \/ Interrupted(c)
  <2>1. cmd'[c] = Idle /\ UNCHANGED <<state, worker, pairs, told, clearFailed>>
    BY <1>0, <1>14, Moves DEF AskFails, Interrupted
  <2>2. Named(state)
    BY <1>14 DEF AskFails, Interrupted, OwnerInv, AliveIs, Named
  <2>3. Named(state)' /\ ModeInv'
    BY <1>1, <2>1, <2>2 DEF Named, Exists
  <2>4. told \notin {"stopped", "removed"}
    BY <1>14 DEF AskFails, Interrupted, ToldInv, PlaceInv, Starts, Launches
  <2>5. PairsInv(c)'
    BY <1>1, <1>4, <1>14, <2>1 DEF AskFails, Interrupted, PairsInv, Owed, Sane, Exists, Loaded
  <2>6. QED
    BY <1>3, <1>5, <2>1, <2>3, <2>4, <2>5
<1>15. CASE Saves(c)
  <2>1. /\ cmd'[c] = Idle /\ state' = cmd[c].st /\ UNCHANGED <<worker, pairs, told, clearFailed>>
        /\ cmd[c].pc = "saving" /\ cmd[c].op \in {"check", "pause", "resume"}
    BY <1>0, <1>15, Moves DEF Saves
  <2>2. Named(cmd[c].st)
    BY <2>1 DEF OwnerInv
  <2>3. Named(state)' /\ ModeInv'
    BY <1>1, <2>1, <2>2 DEF Named, Exists
  <2>4. ToldInv(c)'
    BY <1>1, <1>5, <2>1 DEF ToldInv
  <2>5. PairsInv(c)'
    BY <1>1, <1>4, <2>1 DEF PairsInv, Owed, Sane, Exists, Loaded
  <2>6. QED
    BY <1>3, <2>1, <2>3, <2>4, <2>5
<1>16. QED
  BY <1>7, <1>8, <1>9, <1>10, <1>11, <1>13, <1>14, <1>15

\* What a pause has promised stays so until it is taken back.
LEMMA PausedStep ==
    ASSUME NEW c, Commands = {c}, LifeInv(c), [Next]_vars
    PROVE  PausedInv(c)'
<1> USE DEF LifeInv, outside, others, At, Op
<1> SUFFICES ASSUME told' = "paused" PROVE PausedInv(c)'
  BY DEF PausedInv
<1>0. /\ c \in Commands /\ cmd[c].st \in States
      /\ worker \in [Pids -> Workers] /\ 0 \notin Pids
  BY LifeAssumption DEF TypeOK, CommandStates, Pids
<1>1. ASSUME NEW op \in Ops[c], Begin(c, op) PROVE PausedInv(c)'
  <2>1. op \in AllOps
    BY LifeAssumption
  <2>2. /\ cmd'[c].op = op /\ cmd'[c].pc = FirstStep(op) /\ cmd'[c].st = state
        /\ told' = (IF op = "check" THEN told ELSE "none")
        /\ UNCHANGED <<state, worker>>
    BY <1>1, <2>1, BeginsWith
  <2>3. op = "check" /\ told = "paused" /\ cmd[c].pc = "idle" /\ cmd[c].op = "none"
    BY <1>1, <2>2 DEF Begin, PlaceInv
  <2>4. QED
    BY <2>2, <2>3 DEF PausedInv, FirstStep, Alive
<1>2. CASE Pauses(c)
  <2>1. /\ cmd[c].pc = "asking" /\ cmd'[c].pc = "saving" /\ cmd'[c].op = "pause"
        /\ cmd'[c].st = Paused(cmd[c].st)
    BY <1>0, <1>2, Moves DEF Pauses
  <2>2. cmd'[c].st.paused
    BY <1>0, <2>1 DEF Paused, States
  <2>3. Named(cmd[c].st)
    BY <2>1 DEF OwnerInv
  <2>4. CASE \E w \in Listening(DialAddress(cmd[c].st)) : Release(w)
    <3>1. PICK w \in Pids : worker[w].step = "serving" /\ worker' = [worker EXCEPT ![w].holds = FALSE]
      BY <2>4 DEF Listening, Release
    <3>2. \A v \in Pids : Alive(v)' => v = w
      BY <1>0, <2>3, <3>1 DEF Named, Alive, Steps, Workers
    <3>3. worker'[w].step = "serving" /\ ~worker'[w].holds
      BY <1>0, <3>1 DEF Workers
    <3>4. QED
      BY <2>1, <2>2, <3>2, <3>3 DEF PausedInv
  <2>5. CASE ~Running(cmd[c].st.pid) /\ UNCHANGED worker
    <3>1. \A v \in Pids : ~Alive(v)'
      BY <1>0, <2>3, <2>5 DEF Named, Alive, Running
    <3>2. QED
      BY <2>1, <2>2, <3>1 DEF PausedInv
  <2>6. QED
    BY <1>2, <2>4, <2>5 DEF Pauses
<1>3. CASE Saves(c)
  <2>1. cmd'[c] = Idle /\ state' = cmd[c].st /\ UNCHANGED <<worker, told>> /\ cmd[c].pc = "saving"
    BY <1>0, <1>3, Moves DEF Saves
  <2>2. QED
    BY <2>1 DEF PausedInv, Idle, Alive
<1>4. ASSUME Proceeds(c) \/ Interrupted(c), ~Pauses(c), ~Saves(c) PROVE FALSE
  <2>1. told = "paused"
    BY <1>4 DEF Proceeds, Stopping, StopFinds, StopKills, StopWaits, StopTimesOut, StopCleans,
        Starting, StartAborts, Opens, Shares, CreatePorts, Forwards, Launch, LaunchFails, LoadsBack,
        SavesPid, StartSucceeds, StartTimesOut, GivesUp, Undoes, Restores, Interrupted,
        StopIncomplete, StopLoads, StopSaves, Remove, ClearPorts, Resumes, AskFails
  <2>2. cmd[c].pc = "idle" \/ (cmd[c].pc = "saving" /\ cmd[c].op \in {"pause", "check"})
    BY <2>1 DEF PausedInv
  <2>3. QED
    BY <1>4, <2>2 DEF Proceeds, Stopping, StopFinds, StopKills, StopWaits, StopTimesOut, StopCleans,
        Starting, StartAborts, Opens, Shares, CreatePorts, Forwards, Launch, LaunchFails, LoadsBack,
        SavesPid, StartSucceeds, StartTimesOut, GivesUp, Undoes, Restores, Interrupted,
        StopIncomplete, StopLoads, StopSaves, Remove, ClearPorts, Resumes, AskFails
<1>5. ASSUME NEW w \in Pids, Worker(w) \/ WorkerCrashes(w) \/ ShellReleases(w) \/ ShellAcquires(w) \/ Dies(w)
      PROVE  PausedInv(c)'
  <2>1. told = "paused"
    BY <1>5 DEF Worker, WorkerPicks, WorkerLoads, WorkerSaves, WorkerServes, WorkerFails,
        WorkerCrashes, ShellReleases, ShellAcquires, Dies
  <2>2. Alive(w) => worker[w].step = "serving" /\ ~worker[w].holds
    BY <2>1 DEF PausedInv
  <2>3. ~Worker(w) /\ ~ShellAcquires(w)
    BY <2>1, <2>2 DEF Worker, WorkerPicks, WorkerLoads, WorkerSaves, WorkerServes, WorkerFails,
        ShellAcquires, Alive, Steps
  <2>4. /\ UNCHANGED <<state, cmd>>
        /\ \A v \in Pids : Alive(v)' => Alive(v)
        /\ \A v \in Pids : Alive(v)' =>
               worker'[v].step = worker[v].step /\ worker'[v].holds \in {worker[v].holds, FALSE}
    <3>1. CASE WorkerCrashes(w) \/ Dies(w)
      <4>1. /\ worker' = [worker EXCEPT ![w] = Dead] /\ UNCHANGED <<state, cmd>>
        BY <3>1 DEF WorkerCrashes, Dies
      <4>2. Dead.step = "dead"
        BY DEF Dead, NoWorker
      <4>3. QED
        BY <1>0, <4>1, <4>2 DEF Alive, Steps
    <3>2. CASE ShellReleases(w)
      <4>1. /\ worker' = [worker EXCEPT ![w].holds = FALSE] /\ UNCHANGED <<state, cmd>>
        BY <3>2 DEF ShellReleases, Release
      <4>2. QED
        BY <1>0, <4>1 DEF Alive, Workers
    <3>3. QED
      BY <1>5, <2>3, <3>1, <3>2
  <2>5. QED
    BY <2>1, <2>4 DEF PausedInv
<1>6. CASE Device \/ UNCHANGED vars
  BY <1>6 DEF Device, vars, PausedInv, Alive
<1>7. QED
  BY <1>1, <1>2, <1>3, <1>4, <1>5, <1>6 DEF Next

\* Lending the port and taking it back, by the shell or for a command.
LEMMA LeaseMarks ==
    ASSUME TypeOK, MarksInv, NEW w \in Pids, AliveIs(w), Release(w) \/ Acquire(w), UNCHANGED state
    PROVE  MarksInv' /\ (marker' => ~state.vports)
<1>1. worker \in [Pids -> Workers]
  BY DEF TypeOK
<1>2. /\ worker[w].step = "serving" /\ worker[w].mode # "share" /\ Alive(w)
  BY DEF Release, Acquire, Alive, Steps
<1>3. /\ ~state.vports /\ ~worker[w].st.vports
      /\ marker <=> ~worker[w].holds
  BY <1>2 DEF MarksInv, Loaded
<1>4. /\ worker'[w].holds <=> ~marker'
      /\ worker'[w].step = "serving" /\ worker'[w].mode = worker[w].mode
      /\ worker'[w].st = worker[w].st
      /\ \A v \in Pids : v # w => worker'[v] = worker[v]
  <2>1. CASE Release(w)
    <3>1. worker' = [worker EXCEPT ![w].holds = FALSE]
      BY <2>1 DEF Release
    <3>2. marker'
      BY <1>3, <2>1 DEF Release
    <3>3. /\ ~worker'[w].holds /\ worker'[w].step = worker[w].step
          /\ worker'[w].mode = worker[w].mode /\ worker'[w].st = worker[w].st
      BY <1>1, <3>1 DEF Workers
    <3>4. QED
      BY <1>1, <1>2, <3>1, <3>2, <3>3
  <2>2. CASE Acquire(w)
    <3>1. worker' = [worker EXCEPT ![w].holds = TRUE]
      BY <2>2 DEF Acquire
    <3>2. ~marker'
      BY <1>3, <2>2 DEF Acquire
    <3>3. /\ worker'[w].holds /\ worker'[w].step = worker[w].step
          /\ worker'[w].mode = worker[w].mode /\ worker'[w].st = worker[w].st
      BY <1>1, <3>1 DEF Workers
    <3>4. QED
      BY <1>1, <1>2, <3>1, <3>2, <3>3
  <2>3. QED
    BY <2>1, <2>2
<1>5. \A v \in Pids : Alive(v)' => v = w
  BY <1>4 DEF AliveIs, Alive
<1>6. MarksInv'
  BY <1>2, <1>3, <1>4, <1>5 DEF MarksInv, Loaded
<1>7. QED
  BY <1>3, <1>6

\* What a worker does with the marker fits what it does with its port.
LEMMA WorkersMark ==
    ASSUME NEW c, Commands = {c}, LifeInv(c), NEW w \in Pids,
           \/ Worker(w) \/ WorkerCrashes(w) \/ ShellReleases(w) \/ ShellAcquires(w) \/ Dies(w)
    PROVE  MarksInv' /\ LeftInv(c)'
<1> USE DEF LifeInv, others, At, Op
<1>0. /\ worker \in [Pids -> Workers] /\ cmd[c].pc \in PCs
      /\ marker \in BOOLEAN /\ pairs \in BOOLEAN
  BY DEF TypeOK, CommandStates
<1>1. \A v \in Pids : Alive(v) /\ Alive(w) => v = w
  <2>1. cmd[c].pc \in {"idle", "clearing", "stopping", "killing", "asking"} => Named(state)
    BY DEF OwnerInv
  <2>2. cmd[c].pc = "saving" => NoneAlive \/ Named(state)
    BY DEF OwnerInv
  <2>3. cmd[c].pc \in {"started", "recording", "watching", "givingUp"} => AliveIs(cmd[c].pid)
    BY DEF OwnerInv
  <2>4. cmd[c].pc \notin {"idle", "clearing", "stopping", "killing", "asking", "saving", "started",
                          "recording", "watching", "givingUp"} => NoneAlive
    BY <1>0 DEF OwnerInv, PCs
  <2>5. QED
    BY <2>1, <2>2, <2>3, <2>4 DEF Named, AliveIs, NoneAlive
<1>2. /\ UNCHANGED <<cmd, pairs>>
      /\ \A v \in Pids : Alive(v)' => Alive(v)
      /\ state' = state \/ (Alive(w) /\ worker[w].step \in Loaded /\ state'.vports = worker[w].st.vports)
  BY WorkersLive, RecordedTypes
<1>3. state'.vports <=> state.vports
  BY <1>2 DEF MarksInv
<1>4. ASSUME marker' => marker \/ (Alive(w) /\ ~state.vports)
      PROVE  LeftInv(c)'
  <2>1. Alive(w) => cmd[c].pc \notin {"stopped", "creating"}
    BY DEF OwnerInv, NoneAlive
  <2>2. KeepsPairs(c)' <=> KeepsPairs(c)
    BY <1>2 DEF KeepsPairs
  <2>3. QED
    BY <1>2, <1>3, <1>4, <2>1, <2>2 DEF LeftInv
<1>5. ASSUME UNCHANGED marker, ~Alive(w)' PROVE MarksInv'
  <2>1. \A v \in Pids : v # w => worker'[v] = worker[v]
    BY <1>0, <1>5 DEF Worker, WorkerPicks, WorkerLoads, WorkerSaves, WorkerServes, WorkerFails,
        WorkerCrashes, ShellReleases, ShellAcquires, Release, Acquire, Dies
  <2>2. QED
    BY <1>2, <1>3, <1>5, <2>1 DEF MarksInv, Alive
<1>6. ASSUME Alive(w),
             Alive(w)' =>
                /\ worker'[w].step # "start" => (worker'[w].mode = "share" <=> state.vports)
                /\ worker'[w].step \in Loaded => (worker'[w].st.vports <=> state.vports)
                /\ worker'[w].step \in {"loaded", "saved", "trying"} /\ worker'[w].mode # "share" => ~marker'
                /\ worker'[w].step = "serving" => (marker' <=> ~worker'[w].holds)
      PROVE  MarksInv'
  BY <1>1, <1>2, <1>3, <1>6 DEF MarksInv
<1>7. Alive(w) =>
         /\ worker[w].step # "start" => (worker[w].mode = "share" <=> state.vports)
         /\ worker[w].step \in Loaded => (worker[w].st.vports <=> state.vports)
         /\ worker[w].step \in {"loaded", "saved", "trying"} /\ worker[w].mode # "share" => ~marker
         /\ worker[w].step = "serving" => (marker <=> ~worker[w].holds)
  BY DEF MarksInv
<1>8. ~Alive(w) <=> worker[w].step \notin {"start", "picked", "loaded", "saved", "trying", "serving"}
  BY DEF Alive, Steps
<1>9. Exited.step = "exited" /\ Dead.step = "dead"
  BY DEF Exited, Dead, NoWorker
<1>10. CASE WorkerPicks(w)
  <2>1. Alive(w) /\ UNCHANGED marker
    BY <1>8, <1>10 DEF WorkerPicks
  <2>2. AutoMode(state) = "share" <=> state.vports
    BY DEF AutoMode
  <2>3. CASE Exists(state)
    <3>1. worker' = [worker EXCEPT ![w].step = "picked", ![w].mode = AutoMode(state)]
      BY <1>10, <2>3 DEF WorkerPicks
    <3>2. worker'[w].step = "picked" /\ worker'[w].mode = AutoMode(state)
      BY <1>0, <3>1 DEF Workers
    <3>3. QED
      BY <1>4, <1>6, <2>1, <2>2, <3>2 DEF Loaded
  <2>4. CASE ~Exists(state)
    <3>1. ~Alive(w)'
      BY <1>0, <1>9, <1>10, <2>4 DEF WorkerPicks, Alive, Steps
    <3>2. QED
      BY <1>4, <1>5, <2>1, <3>1
  <2>5. QED
    BY <2>3, <2>4
<1>11. CASE WorkerLoads(w)
  <2>1. Alive(w) /\ worker[w].step = "picked" /\ (marker' => marker) /\ UNCHANGED state
    BY <1>0, <1>8, <1>11 DEF WorkerLoads
  <2>2. CASE Exists(state) /\ CanStart(state, worker[w].mode)
    <3>1. worker' = [worker EXCEPT ![w].step = "loaded", ![w].st = state]
      BY <1>11, <2>2 DEF WorkerLoads
    <3>2. /\ worker'[w].step = "loaded" /\ worker'[w].st = state
          /\ worker'[w].mode = worker[w].mode
      BY <1>0, <3>1 DEF Workers
    <3>3. worker[w].mode # "share" => ~marker'
      BY <1>11, <2>2 DEF WorkerLoads
    <3>4. QED
      BY <1>4, <1>6, <1>7, <2>1, <3>2, <3>3 DEF Loaded
  <2>3. CASE ~(Exists(state) /\ CanStart(state, worker[w].mode))
    <3>1. ~Alive(w)'
      BY <1>0, <1>9, <1>11, <2>3 DEF WorkerLoads, Alive, Steps
    <3>2. QED
      BY <1>4, <1>6, <2>1, <3>1
  <2>4. QED
    BY <2>2, <2>3
<1>12. CASE WorkerSaves(w)
  <2>1. Alive(w) /\ worker[w].step \in {"loaded", "saved"} /\ UNCHANGED marker
    BY <1>8, <1>12 DEF WorkerSaves
  <2>2. Recorded(w).vports = worker[w].st.vports
    BY <2>1, RecordedTypes DEF ModeInv
  <2>3. /\ worker'[w].st = Recorded(w) /\ worker'[w].mode = worker[w].mode
        /\ worker'[w].step \in {"saved", "trying"}
    BY <1>0, <1>12 DEF WorkerSaves, Workers
  <2>4. QED
    BY <1>4, <1>6, <1>7, <2>1, <2>2, <2>3 DEF Loaded
<1>13. CASE WorkerServes(w)
  <2>1. Alive(w) /\ worker[w].step = "trying" /\ UNCHANGED <<state, marker>>
    BY <1>8, <1>13 DEF WorkerServes
  <2>2. ~marker
    <3>1. CASE worker[w].mode = "share"
      <4>1. state.vports /\ pairs
        BY <1>7, <1>13, <2>1, <3>1 DEF WorkerServes, Loaded
      <4>2. QED
        BY <4>1 DEF LeftInv
    <3>2. CASE worker[w].mode # "share"
      BY <1>7, <2>1, <3>2
    <3>3. QED
      BY <3>1, <3>2
  <2>3. /\ worker'[w].step = "serving" /\ worker'[w].mode = worker[w].mode
        /\ worker'[w].st = worker[w].st /\ worker'[w].holds
    BY <1>0, <1>13 DEF WorkerServes, Workers
  <2>4. QED
    BY <1>4, <1>6, <1>7, <2>1, <2>2, <2>3 DEF Loaded
<1>14. CASE WorkerFails(w)
  <2>1. /\ Alive(w) /\ worker[w].step \in {"trying", "serving"} /\ UNCHANGED state
        /\ worker[w].step = "serving" => worker[w].holds
    BY <1>8, <1>14 DEF WorkerFails
  <2>2. CASE ShouldStop
    <3>1. ~Alive(w)' /\ (marker' => marker)
      BY <1>0, <1>9, <1>14, <2>2 DEF WorkerFails, Alive, Steps
    <3>2. QED
      BY <1>4, <1>6, <2>1, <3>1
  <2>3. CASE ~ShouldStop
    <3>1. worker' = [worker EXCEPT ![w].step = "trying", ![w].holds = FALSE] /\ UNCHANGED marker
      BY <1>14, <2>3 DEF WorkerFails
    <3>2. /\ worker'[w].step = "trying" /\ worker'[w].mode = worker[w].mode
          /\ worker'[w].st = worker[w].st
      BY <1>0, <3>1 DEF Workers
    <3>3. worker[w].step = "serving" => ~marker
      BY <1>7, <2>1
    <3>4. QED
      BY <1>4, <1>6, <1>7, <2>1, <3>1, <3>2, <3>3 DEF Loaded
  <2>4. QED
    BY <2>2, <2>3
<1>15. CASE WorkerCrashes(w) \/ Dies(w)
  <2>1. UNCHANGED marker /\ worker' = [worker EXCEPT ![w] = Dead]
    BY <1>15 DEF WorkerCrashes, Dies
  <2>2. ~Alive(w)'
    BY <1>0, <1>9, <2>1 DEF Alive, Steps
  <2>3. QED
    BY <1>4, <1>5, <2>1, <2>2
<1>16. CASE ShellReleases(w) \/ ShellAcquires(w)
  <2>1. Alive(w) /\ (Release(w) \/ Acquire(w)) /\ UNCHANGED state
    BY <1>8, <1>16 DEF ShellReleases, ShellAcquires, Release, Acquire
  <2>2. MarksInv' /\ (marker' => ~state.vports)
    BY <1>1, <2>1, LeaseMarks DEF AliveIs
  <2>3. QED
    BY <1>4, <2>1, <2>2
<1>17. QED
  BY <1>10, <1>11, <1>12, <1>13, <1>14, <1>15, <1>16 DEF Worker

\* A command that stops clears the marker, and the pairs or fails.
LEMMA StopsMark ==
    ASSUME NEW c, Commands = {c}, LifeInv(c), Stopping(c)
    PROVE  MarksInv' /\ LeftInv(c)'
<1> USE DEF LifeInv, outside, At, Op
<1>0. c \in Commands /\ cmd \in [Commands -> CommandStates]
  BY DEF TypeOK
<1>1. /\ cmd[c].pc \in Stops \ {"stopped"} /\ cmd'[c].pc \in Stops \ {"stopping"}
      /\ UNCHANGED <<cmd[c].op, cmd[c].st, cmd[c].old, cmd[c].pid>>
      /\ UNCHANGED <<state, started, reserved, told, clearFailed>>
  BY StopsOn
<1>2. cmd[c].st = cmd[c].old /\ (KeepsPairs(c)' <=> KeepsPairs(c))
  BY <1>1 DEF PlaceInv, KeepsPairs
<1>3. ASSUME marker' => marker, pairs' => pairs,
             cmd'[c].pc = "stopped" => cmd'[c].failed \/ KeepsPairs(c) \/ (~marker' /\ ~(pairs' /\ cmd[c].st.vports))
      PROVE  LeftInv(c)'
  BY <1>1, <1>2, <1>3 DEF LeftInv, Stops, Starts
<1>4. NoneAlive' => MarksInv'
  BY DEF NoneAlive, MarksInv
<1>5. CASE StopFinds(c) \/ StopWaits(c) \/ StopTimesOut(c)
  <2>1. UNCHANGED <<worker, marker, pairs>>
    BY <1>5 DEF StopFinds, StopWaits, StopTimesOut
  <2>2. cmd'[c].pc # "stopped"
    BY <1>0, <1>5, Moves DEF StopFinds, StopWaits, StopTimesOut, CommandStates
  <2>3. MarksInv'
    BY <1>1, <2>1 DEF MarksInv, Alive
  <2>4. QED
    BY <1>3, <2>1, <2>2, <2>3
<1>6. CASE StopKills(c)
  <2>1. AliveIs(cmd[c].st.pid) /\ Kill(cmd[c].st.pid) /\ UNCHANGED <<marker, pairs>>
    BY <1>6 DEF StopKills, OwnerInv, Named, AliveIs
  <2>2. cmd'[c].pc # "stopped"
    BY <1>0, <1>6 DEF StopKills, CommandStates
  <2>3. QED
    BY <1>3, <1>4, <2>1, <2>2, Killed
<1>7. CASE StopCleans(c)
  <2>1. NoneAlive'
    BY <1>7 DEF StopCleans, OwnerInv, NoneAlive, Alive
  <2>2. CASE KeepsPairs(c)
    BY <1>3, <1>4, <1>7, <2>1, <2>2 DEF StopCleans
  <2>3. CASE ~KeepsPairs(c)
    <3>1. PICK fails \in BOOLEAN :
            /\ cmd' = [cmd EXCEPT ![c].pc = "stopped", ![c].failed = @ \/ fails]
            /\ pairs' = (pairs /\ (fails \/ ~cmd[c].st.vports))
      BY <1>7, <2>3 DEF StopCleans
    <3>2. cmd'[c].failed = (cmd[c].failed \/ fails)
      BY <1>0, <3>1 DEF CommandStates
    <3>3. ~marker'
      BY <1>7, <2>3 DEF StopCleans
    <3>4. QED
      BY <1>3, <1>4, <2>1, <3>1, <3>2, <3>3
  <2>4. QED
    BY <2>2, <2>3
<1>8. QED
  BY <1>5, <1>6, <1>7 DEF Stopping

\* A start changes whether virtual ports are named only when no worker lives
\* and no marker is left, or with the pairs.
LEMMA StartsMark ==
    ASSUME NEW c, Commands = {c}, LifeInv(c), Starting(c)
    PROVE  MarksInv' /\ LeftInv(c)'
<1> USE DEF LifeInv, outside, At, Op
<1>0. /\ c \in Commands /\ cmd[c].st \in States /\ cmd[c].old \in States /\ state \in States
      /\ worker \in [Pids -> Workers] /\ 0 \notin Pids
  BY LifeAssumption DEF TypeOK, CommandStates, Pids
<1>1. Launches(cmd[c].op) /\ cmd[c].pc \in Starts \cup {"stopped"}
  BY DEF Starting, StartAborts, Opens, Shares, CreatePorts, Forwards, Launch, LaunchFails, LoadsBack,
         SavesPid, StartSucceeds, StartTimesOut, GivesUp, Undoes, Restores, PlaceInv, Starts, Launches
<1>2. NoneAlive' => MarksInv'
  BY DEF NoneAlive, MarksInv
<1>3. UNCHANGED worker /\ NoneAlive => NoneAlive'
  BY DEF NoneAlive, Alive
<1>4. UNCHANGED <<worker, marker>> /\ (state'.vports <=> state.vports) => MarksInv'
  BY DEF MarksInv, Alive
<1>5. ASSUME cmd'[c] = Idle, marker' /\ pairs' => ~state'.vports PROVE LeftInv(c)'
  BY <1>5 DEF LeftInv, Idle, Stops, Starts
<1>6. marker /\ pairs => ~state.vports
  BY DEF LeftInv
<1>7. CASE StartAborts(c) \/ StartSucceeds(c)
  <2>1. cmd'[c] = Idle /\ UNCHANGED <<state, worker, pairs, marker>>
    BY <1>0, <1>7, Moves DEF StartAborts, StartSucceeds
  <2>2. QED
    BY <1>4, <1>5, <1>6, <2>1
<1>8. CASE Opens(c)
  <2>1. /\ cmd'[c].pc = "launching" /\ cmd'[c].op = "open" /\ cmd[c].op = "open"
        /\ UNCHANGED <<cmd[c].st, cmd[c].old, worker, pairs>>
        /\ ~state'.vports /\ ~marker' /\ NoneAlive
    BY <1>0, <1>8, Moves DEF Opens, NoState, PlaceInv, OwnerInv
  <2>2. ~(pairs /\ cmd[c].old.vports)
    BY <1>8, <2>1 DEF Opens, LeftInv, KeepsPairs, Starts
  <2>3. LeftInv(c)'
    BY <2>1, <2>2 DEF LeftInv, Stops, Starts
  <2>4. QED
    BY <1>2, <1>3, <2>1, <2>3
<1>9. CASE Shares(c)
  <2>1. /\ cmd'[c].pc = "creating" /\ cmd'[c].op = "share" /\ UNCHANGED <<worker, marker>> /\ NoneAlive
    BY <1>0, <1>9, Moves DEF Shares, OwnerInv
  <2>2. ~marker
    BY <1>9 DEF Shares, LeftInv, KeepsPairs
  <2>3. LeftInv(c)'
    BY <2>1, <2>2 DEF LeftInv, Stops, Starts
  <2>4. QED
    BY <1>2, <1>3, <2>1, <2>3
<1>10. CASE CreatePorts(c)
  <2>1. UNCHANGED <<state, worker, marker>> /\ ~marker /\ cmd[c].op = "share" /\ NoneAlive
    BY <1>10 DEF CreatePorts, PlaceInv, LeftInv, OwnerInv
  <2>2. CASE Goto(c, "launching")
    <3>1. cmd'[c].pc = "launching" /\ UNCHANGED cmd[c].op
      BY <1>0, <2>2, Moves
    <3>2. LeftInv(c)'
      BY <2>1, <3>1 DEF LeftInv, Stops, Starts
    <3>3. QED
      BY <1>2, <1>3, <2>1, <3>2
  <2>3. CASE Finish(c)
    <3>1. cmd'[c] = Idle
      BY <1>0, <2>3, Moves
    <3>2. QED
      BY <1>2, <1>3, <1>5, <2>1, <3>1
  <2>4. QED
    BY <1>10, <2>2, <2>3 DEF CreatePorts
<1>11. CASE Forwards(c)
  <2>1. /\ cmd'[c].pc = "launching" /\ cmd'[c].op = "tcp"
        /\ UNCHANGED <<cmd[c].st, cmd[c].old, worker, pairs, marker>> /\ NoneAlive
        /\ cmd[c].st = cmd[c].old /\ (cmd[c].st.vports <=> state.vports)
    BY <1>0, <1>11, Moves DEF Forwards, OwnerInv, PlaceInv, LeftInv, Stops
  <2>2. state'.vports <=> cmd[c].st.vports /\ KeepsPairs(c)
    <3> DEFINE keeps == cmd[c].st.vports /\ KeepsPairs(c)
    <3> DEFINE status == IF KeepsPairs(c) THEN cmd[c].st.status ELSE "tcp"
    <3>1. state' = [cmd[c].st EXCEPT !.paused = FALSE, !.tcp = TRUE, !.ctl = 0, !.pid = 0,
                       !.vports = keeps, !.status = status]
      BY <1>11 DEF Forwards
    <3>2. keeps <=> cmd[c].st.vports /\ KeepsPairs(c)
      OBVIOUS
    <3> HIDE DEF keeps, status
    <3>3. state'.vports = keeps
      BY <1>0, <3>1 DEF States
    <3>4. QED
      BY <3>2, <3>3
  <2>3. KeepsPairs(c) \/ (~marker /\ ~(pairs /\ cmd[c].old.vports))
    BY <1>11 DEF Forwards, LeftInv
  <2>4. LeftInv(c)'
    BY <1>6, <2>1, <2>2, <2>3 DEF LeftInv, Stops, Starts
  <2>5. QED
    BY <1>2, <1>3, <2>1, <2>4
<1>12. CASE Launch(c)
  <2>1. /\ cmd'[c].pc = "started" /\ cmd[c].pc = "launching"
        /\ UNCHANGED <<cmd[c].op, cmd[c].old, state, pairs, marker>>
    BY <1>0, <1>12 DEF Launch, TypeOK, CommandStates
  <2>2. worker' = [worker EXCEPT ![started + 1].step = "start"] /\ NoneAlive
    BY <1>12 DEF Launch, OwnerInv
  <2>3. \A v \in Pids : Alive(v)' => worker'[v].step = "start"
    BY <1>0, <2>2 DEF NoneAlive, Alive, Workers
  <2>4. MarksInv'
    BY <2>3 DEF MarksInv, Loaded
  <2>5. LeftInv(c)'
    BY <2>1 DEF LeftInv, Stops, Starts
  <2>6. QED
    BY <2>4, <2>5
<1>13. CASE LaunchFails(c)
  <2>1. UNCHANGED <<state, worker, pairs, marker>> /\ cmd[c].pc \in {"launching", "started"}
    BY <1>13 DEF LaunchFails
  <2>2. CASE Op(c) = "open"
    <3>1. cmd'[c].pc = "restoring" /\ cmd'[c].op = "open" /\ UNCHANGED <<cmd[c].old>>
      BY <1>0, <1>13, <2>2, Moves DEF LaunchFails
    <3>2. LeftInv(c)'
      BY <2>1, <2>2, <3>1 DEF LeftInv, Stops, Starts
    <3>3. QED
      BY <1>4, <2>1, <3>2
  <2>3. CASE Op(c) # "open"
    <3>1. cmd'[c] = Idle
      BY <1>0, <1>13, <2>3, Moves DEF LaunchFails
    <3>2. QED
      BY <1>4, <1>5, <1>6, <2>1, <3>1
  <2>4. QED
    BY <2>2, <2>3
<1>14. CASE LoadsBack(c)
  <2>1. /\ cmd[c].pc = "started" /\ cmd'[c].pc = "recording"
        /\ cmd'[c].st = [state EXCEPT !.pid = cmd[c].pid]
        /\ UNCHANGED <<cmd[c].op, cmd[c].old, state, worker, pairs, marker>>
    BY <1>0, <1>14, Moves DEF LoadsBack
  <2>2. cmd'[c].st.vports = state.vports
    BY <1>0, <2>1 DEF States
  <2>3. LeftInv(c)'
    BY <2>1, <2>2 DEF LeftInv, Stops, Starts
  <2>4. QED
    BY <1>4, <2>1, <2>3
<1>15. CASE SavesPid(c)
  <2>1. /\ cmd[c].pc = "recording" /\ state' = cmd[c].st /\ UNCHANGED <<worker, pairs, marker>>
        /\ (cmd[c].st.vports <=> state.vports)
    BY <1>15 DEF SavesPid, LeftInv
  <2>2. CASE Finish(c)
    <3>1. cmd'[c] = Idle
      BY <1>0, <2>2, Moves
    <3>2. QED
      BY <1>4, <1>5, <1>6, <2>1, <3>1
  <2>3. CASE Goto(c, "watching")
    <3>1. cmd'[c].pc = "watching" /\ UNCHANGED <<cmd[c].op, cmd[c].st, cmd[c].old>>
      BY <1>0, <2>3, Moves
    <3>2. LeftInv(c)'
      BY <2>1, <3>1 DEF LeftInv, Stops, Starts
    <3>3. QED
      BY <1>4, <2>1, <3>2
  <2>4. QED
    BY <1>15, <2>2, <2>3 DEF SavesPid
<1>16. CASE StartTimesOut(c)
  <2>1. /\ cmd[c].pc = "watching" /\ cmd'[c].pc = "givingUp"
        /\ UNCHANGED <<cmd[c].op, cmd[c].st, cmd[c].old, state, worker, pairs, marker>>
    BY <1>0, <1>16, Moves DEF StartTimesOut
  <2>2. LeftInv(c)'
    BY <2>1 DEF LeftInv, Stops, Starts
  <2>3. QED
    BY <1>4, <2>1, <2>2
<1>17. CASE GivesUp(c)
  <2>1. /\ cmd[c].pc = "givingUp" /\ cmd'[c].pc = "undoing"
        /\ UNCHANGED <<cmd[c].op, cmd[c].st, cmd[c].old, state, pairs, marker>>
    BY <1>0, <1>17, Moves DEF GivesUp
  <2>2. NoneAlive'
    BY <1>17, Killed DEF GivesUp, OwnerInv
  <2>3. LeftInv(c)'
    BY <2>1 DEF LeftInv, Stops, Starts
  <2>4. QED
    BY <1>2, <2>2, <2>3
<1>18. CASE Undoes(c)
  <2>1. cmd[c].pc = "undoing" /\ UNCHANGED <<worker, pairs, marker>> /\ NoneAlive
    BY <1>18 DEF Undoes, OwnerInv
  <2>2. marker' /\ pairs' => ~state'.vports
    <3>1. state'.vports = IF Op(c) = "tcp" THEN cmd[c].old.vports ELSE cmd[c].st.vports
      BY <1>0, <1>1, <1>18 DEF Undoes, Launches, States
    <3>2. (cmd[c].st.vports <=> state.vports)
          /\ (Op(c) = "tcp" /\ pairs /\ cmd[c].old.vports => state.vports)
      BY <2>1 DEF LeftInv, Starts
    <3>3. QED
      BY <1>6, <2>1, <3>1, <3>2
  <2>3. CASE Op(c) = "open"
    <3>1. cmd'[c].pc = "restoring" /\ cmd'[c].op = "open" /\ UNCHANGED <<cmd[c].old>>
      BY <1>0, <1>18, <2>3, Moves DEF Undoes
    <3>2. LeftInv(c)'
      BY <2>1, <2>2, <2>3, <3>1 DEF LeftInv, Stops, Starts
    <3>3. QED
      BY <1>2, <1>3, <2>1, <3>2
  <2>4. CASE Op(c) # "open"
    <3>1. cmd'[c] = Idle
      BY <1>0, <1>18, <2>4, Moves DEF Undoes
    <3>2. QED
      BY <1>2, <1>3, <1>5, <2>1, <2>2, <3>1
  <2>5. QED
    BY <2>3, <2>4
<1>19. CASE Restores(c)
  <2>1. cmd[c].pc = "restoring" /\ state' = cmd[c].old /\ UNCHANGED <<worker, pairs>>
        /\ NoneAlive /\ cmd'[c] = Idle
    BY <1>0, <1>19, Moves DEF Restores, OwnerInv
  <2>2. ~(pairs /\ cmd[c].old.vports)
    BY <2>1 DEF PlaceInv, LeftInv, Starts
  <2>3. QED
    BY <1>2, <1>3, <1>5, <2>1, <2>2
<1>20. QED
  BY <1>7, <1>8, <1>9, <1>10, <1>11, <1>12, <1>13, <1>14, <1>15, <1>16, <1>17, <1>18, <1>19 DEF Starting

\* A command begins with the marker as it is.
LEMMA BeginMarks ==
    ASSUME NEW c, Commands = {c}, LifeInv(c), NEW op \in Ops[c], Begin(c, op)
    PROVE  MarksInv' /\ LeftInv(c)'
<1> USE DEF LifeInv, At, Op
<1>0. op \in AllOps
  BY LifeAssumption
<1>1. /\ cmd'[c].op = op /\ cmd'[c].pc = FirstStep(op) /\ cmd'[c].st = state
      /\ cmd'[c].old = state /\ UNCHANGED <<state, marker, pairs, worker>>
  BY <1>0, BeginsWith
<1>2. /\ FirstStep(op) \in {"stopping", "saving", "asking", "clearing", "reserving"}
      /\ FirstStep(op) = "reserving" => op = "open" /\ ~Exists(state)
  BY <1>0 DEF FirstStep, AllOps
<1>3. ~Exists(state) => ~state.vports
  BY DEF PairsInv, Sane
<1>4. MarksInv'
  BY <1>1 DEF MarksInv, Alive
<1>5. LeftInv(c)'
  BY <1>1, <1>2, <1>3 DEF LeftInv, Stops, Starts
<1>6. QED
  BY <1>4, <1>5

\* The other commands keep the marker in line with the lease.
LEMMA OthersMark ==
    ASSUME NEW c, Commands = {c}, LifeInv(c),
           \/ StopIncomplete(c) \/ StopLoads(c) \/ StopSaves(c) \/ Remove(c) \/ ClearPorts(c)
           \/ Pauses(c) \/ Resumes(c) \/ AskFails(c) \/ Saves(c) \/ Interrupted(c)
    PROVE  MarksInv' /\ LeftInv(c)'
<1> USE DEF LifeInv, outside, At, Op
<1>0. /\ c \in Commands /\ cmd[c].st \in States /\ state \in States
      /\ worker \in [Pids -> Workers] /\ 0 \notin Pids
  BY LifeAssumption DEF TypeOK, CommandStates, Pids
<1>1. NoneAlive' => MarksInv'
  BY DEF NoneAlive, MarksInv
<1>2. UNCHANGED worker /\ NoneAlive => NoneAlive'
  BY DEF NoneAlive, Alive
<1>3. UNCHANGED <<worker, marker>> /\ (state'.vports <=> state.vports) => MarksInv'
  BY DEF MarksInv, Alive
<1>4. ASSUME cmd'[c] = Idle, marker' /\ pairs' => ~state'.vports PROVE LeftInv(c)'
  BY <1>4 DEF LeftInv, Idle, Stops, Starts
<1>5. marker /\ pairs => ~state.vports
  BY DEF LeftInv
<1>6. CASE AskFails(c) \/ Interrupted(c) \/ ClearPorts(c)
  <2>1. cmd'[c] = Idle /\ UNCHANGED <<state, worker, marker>>
    BY <1>0, <1>6, Moves DEF AskFails, Interrupted, ClearPorts
  <2>2. pairs' => pairs
    BY <1>6, Zenon DEF AskFails, Interrupted, ClearPorts
  <2>3. QED
    BY <1>3, <1>4, <1>5, <2>1, <2>2
<1>7. CASE StopIncomplete(c)
  <2>1. /\ cmd'[c] = Idle /\ UNCHANGED <<worker, pairs, marker>> /\ NoneAlive
        /\ state'.vports = cmd[c].st.vports /\ (cmd[c].st.vports <=> state.vports)
    BY <1>0, <1>7, Moves DEF StopIncomplete, OwnerInv, Incomplete, Stopped, NoState, LeftInv, Stops
  <2>2. QED
    BY <1>1, <1>2, <1>4, <1>5, <2>1
<1>8. CASE StopLoads(c)
  <2>1. UNCHANGED <<state, worker, pairs, marker>> /\ NoneAlive /\ cmd[c].op \in {"stop", "clearShare"}
    BY <1>8 DEF StopLoads, OwnerInv
  <2>2. CASE Exists(state)
    <3>1. /\ cmd'[c].pc = "saving" /\ cmd'[c].st = state
          /\ UNCHANGED <<cmd[c].op, cmd[c].old>>
      BY <1>0, <1>8, <2>2, Moves DEF StopLoads
    <3>2. LeftInv(c)'
      BY <2>1, <3>1 DEF LeftInv, Stops, Starts
    <3>3. QED
      BY <1>3, <2>1, <3>2
  <2>3. CASE ~Exists(state) /\ Op(c) = "stop"
    <3>1. cmd'[c] = Idle
      BY <1>0, <1>8, <2>3, Moves DEF StopLoads
    <3>2. QED
      BY <1>3, <1>4, <1>5, <2>1, <3>1
  <2>4. CASE ~Exists(state) /\ Op(c) # "stop"
    <3>1. cmd'[c].pc = "clearing" /\ UNCHANGED <<cmd[c].op>>
      BY <1>0, <1>8, <2>4, Moves DEF StopLoads
    <3>2. LeftInv(c)'
      BY <2>1, <3>1 DEF LeftInv, Stops, Starts
    <3>3. QED
      BY <1>3, <2>1, <3>2
  <2>5. QED
    BY <2>2, <2>3, <2>4
<1>9. CASE StopSaves(c)
  <2>1. UNCHANGED worker /\ ~marker' /\ NoneAlive
    BY <1>9 DEF StopSaves, OwnerInv
  <2>2. cmd'[c] = Idle \/ (cmd'[c].pc = "clearing" /\ cmd'[c].op \in {"stop", "clearShare"})
    BY <1>0, <1>9, Moves DEF StopSaves
  <2>3. LeftInv(c)'
    BY <1>4, <2>1, <2>2 DEF LeftInv, Stops, Starts
  <2>4. QED
    BY <1>1, <1>2, <2>1, <2>3
<1>10. CASE Remove(c)
  <2>1. cmd'[c] = Idle /\ UNCHANGED worker /\ ~marker' /\ NoneAlive
    BY <1>0, <1>10, Moves DEF Remove, OwnerInv
  <2>2. QED
    BY <1>1, <1>2, <1>4, <2>1
<1>11. CASE Saves(c)
  <2>1. /\ cmd'[c] = Idle /\ state' = cmd[c].st /\ UNCHANGED <<worker, pairs, marker>>
        /\ (cmd[c].st.vports <=> state.vports)
    BY <1>0, <1>11, Moves DEF Saves, LeftInv
  <2>2. QED
    BY <1>3, <1>4, <1>5, <2>1
<1>12. CASE Pauses(c) \/ Resumes(c)
  <2>1. /\ cmd'[c].pc = "saving" /\ cmd[c].pc = "asking" /\ cmd[c].op \in {"pause", "resume"}
        /\ UNCHANGED <<cmd[c].op, cmd[c].old, state, pairs>>
        /\ cmd'[c].st \in {Paused(cmd[c].st), Resumed(cmd[c].st)}
    BY <1>0, <1>12, Moves DEF Pauses, Resumes
  <2>2. cmd'[c].st.vports = cmd[c].st.vports /\ (cmd[c].st.vports <=> state.vports)
    BY <1>0, <2>1, PausedKeeps DEF LeftInv
  <2>3. MarksInv' /\ (marker' /\ pairs => ~state.vports)
    <3>1. Named(state) /\ Named(cmd[c].st)
      BY <2>1 DEF OwnerInv
    <3>2. ASSUME NEW w \in Pids, Release(w) \/ Acquire(w)
          PROVE  MarksInv' /\ (marker' /\ pairs => ~state.vports)
      <4>1. AliveIs(w)
        BY <3>1, <3>2 DEF AliveIs, Named, Alive, Steps, Release, Acquire
      <4>2. QED
        BY <2>1, <3>2, <4>1, LeaseMarks
    <3>3. CASE ~Running(cmd[c].st.pid) /\ marker' = FALSE /\ UNCHANGED worker
      <4>1. NoneAlive
        BY <1>0, <3>1, <3>3 DEF Named, NoneAlive, Alive, Running
      <4>2. QED
        BY <1>1, <1>2, <3>3, <4>1
    <3>4. CASE UNCHANGED <<worker, marker>>
      BY <1>3, <1>5, <2>1, <3>4
    <3>5. QED
      BY <1>12, <3>2, <3>3, <3>4 DEF Pauses, Resumes, Listening
  <2>4. LeftInv(c)'
    BY <2>1, <2>2, <2>3 DEF LeftInv, Stops, Starts
  <2>5. QED
    BY <2>3, <2>4
<1>13. QED
  BY <1>6, <1>7, <1>8, <1>9, <1>10, <1>11, <1>12

-----------------------------------------------------------------------------
(* The theorems.                                                           *)

\* The invariant holds when no command has been given yet.
LEMMA InitLife == ASSUME NEW c, Commands = {c}, Init PROVE LifeInv(c)
<1>1. TypeOK
  <2>1. NoState \in States /\ TRUE \in BOOLEAN /\ FALSE \in BOOLEAN
    BY StateTypes, Zenon
  <2>2. NoWorker \in Workers
    BY <2>1 DEF NoWorker, Workers
  <2>3. Idle \in CommandStates
    BY <2>1, LifeAssumption DEF Idle, CommandStates, PCs
  <2>4. QED
    <3>1. worker \in [Pids -> Workers] /\ cmd \in [Commands -> CommandStates]
      BY <2>2, <2>3 DEF Init
    <3>2. /\ marker \in BOOLEAN /\ pairs \in BOOLEAN /\ plugged \in BOOLEAN
          /\ borrowed \in BOOLEAN /\ clearFailed \in BOOLEAN
      BY Zenon DEF Init
    <3>3. /\ state \in States /\ started \in 0 .. MaxWorkers /\ reserved \in 0 .. MaxWorkers
          /\ told \in {"none", "stopped", "removed", "paused"}
      BY <2>1, LifeAssumption DEF Init
    <3>4. QED
      BY <3>1, <3>2, <3>3 DEF TypeOK
<1>2. /\ cmd[c] = Idle /\ state = NoState /\ told = "none" /\ pairs = FALSE
      /\ \A w \in Pids : worker[w].step = "none"
  BY DEF Init, NoWorker
<1>3. ModeInv /\ NoneAlive
  BY <1>2 DEF ModeInv, NoneAlive, Alive, Steps
<1>4. PlaceInv(c)
  BY <1>2 DEF Idle, PlaceInv, At, Op, Stops, Starts, Launched, Launches
<1>5. OwnerInv(c)
  BY <1>2, <1>3 DEF Idle, OwnerInv, At, Op, NoneAlive, Named
<1>6. ToldInv(c) /\ PausedInv(c) /\ PairsInv(c)
  BY <1>2 DEF Idle, ToldInv, PausedInv, PairsInv, Owed, NoState, Sane, At
<1>7. MarksInv /\ LeftInv(c)
  BY <1>2, <1>3 DEF Idle, MarksInv, NoneAlive, LeftInv, At, Op, Stops, Starts
<1>8. QED
  BY <1>1, <1>3, <1>4, <1>5, <1>6, <1>7 DEF LifeInv

\* Every step keeps the invariant.
LEMMA NextLife == ASSUME NEW c, Commands = {c}, LifeInv(c), [Next]_vars PROVE LifeInv(c)'
<1>1. TypeOK' /\ PlaceInv(c)' /\ PausedInv(c)'
  BY TypesStep, PlaceStep, PausedStep DEF LifeInv
<1>2. CASE Device \/ UNCHANGED vars
  <2>1. UNCHANGED <<state, pairs, worker, cmd, told, clearFailed>>
    BY <1>2 DEF Device, vars
  <2>2. ModeInv' /\ OwnerInv(c)' /\ ToldInv(c)'
    BY <2>1 DEF LifeInv, ModeInv, OwnerInv, ToldInv, Named, NoneAlive, AliveIs, Alive, Exists, At, Op
  <2>3. PairsInv(c)'
    BY <2>1 DEF LifeInv, PairsInv, Owed, Sane, NoneAlive, Alive, Exists, At, Op, KeepsPairs
  <2>4. UNCHANGED marker
    BY <1>2 DEF Device, vars
  <2>5. MarksInv' /\ LeftInv(c)'
    BY <2>1, <2>4 DEF LifeInv, MarksInv, LeftInv, Alive, At, Op, KeepsPairs
  <2>6. QED
    BY <1>1, <2>2, <2>3, <2>5 DEF LifeInv
<1>3. ASSUME NEW op \in Ops[c], Begin(c, op) PROVE LifeInv(c)'
  BY <1>1, <1>3, BeginKeeps, BeginMarks DEF LifeInv
<1>4. CASE Proceeds(c) \/ Interrupted(c)
  BY <1>1, <1>4, StopsKeep, StartsKeep, OthersKeep, StopsMark, StartsMark, OthersMark
     DEF LifeInv, Proceeds
<1>5. ASSUME NEW w \in Pids, Worker(w) \/ WorkerCrashes(w) \/ ShellReleases(w) \/ ShellAcquires(w) \/ Dies(w)
      PROVE  LifeInv(c)'
  BY <1>1, <1>5, WorkersKeep, WorkersMark DEF LifeInv
<1>6. QED
  BY <1>2, <1>3, <1>4, <1>5 DEF Next

\* The invariant holds of every behaviour of one user's commands.
THEOREM LifeInvariant == ASSUME NEW c, Commands = {c} PROVE Spec => []LifeInv(c)
<1>1. Init => LifeInv(c)
  BY InitLife
<1>2. LifeInv(c) /\ [Next]_vars => LifeInv(c)'
  BY NextLife
<1>3. QED
  BY <1>1, <1>2, PTL DEF Spec

\* Every state, of the file, of the workers and of the commands, is one that
\* session.State, the workers and the commands can have; a start always finds
\* a worker and an address that the bound reserves for it.
THEOREM TypeCorrect == ASSUME NEW c, Commands = {c} PROVE Spec => []TypeOK
<1>1. LifeInv(c) => TypeOK
  BY DEF LifeInv
<1>2. QED
  BY <1>1, LifeInvariant, PTL

\* However many workers a user's commands start, and whatever fails, times
\* out or crashes in them, a worker that lives between two commands is the
\* one that state.json names.
THEOREM NoOrphanHolds == ASSUME NEW c, Commands = {c} PROVE Spec => []NoOrphan
<1>1. LifeInv(c) => NoOrphan
  BY DEF LifeInv, OwnerInv, NoOrphan, AtRest, At, Named
<1>2. QED
  BY <1>1, LifeInvariant, PTL

\* Once stopLiveResources has succeeded no worker of the session lives to
\* save, load or retry anything, so stop and rm stay done until the user's
\* next open, share or tcp.
THEOREM StopStopsHolds == ASSUME NEW c, Commands = {c} PROVE Spec => []StopStops
<1>1. LifeInv(c) => StopStops
  BY DEF LifeInv, ToldInv, NoneAlive, StopStops
<1>2. QED
  BY <1>1, LifeInvariant, PTL

\* After sio pause has the port released nothing opens it and nothing takes
\* the pause back, until another command or the shell does: no retry, no
\* worker that starts late, no save of sio check.
THEOREM PausePromiseHolds == ASSUME NEW c, Commands = {c} PROVE Spec => []PausePromise
<1>1. LifeInv(c) => PausePromise
  <2> SUFFICES ASSUME LifeInv(c), told = "paused"
               PROVE  (AtRest => state.paused) /\ \A w \in Pids : Alive(w) => ~worker[w].holds
    BY DEF PausePromise
  <2>1. AtRest => Op(c) = "none"
    BY DEF LifeInv, AtRest, PlaceInv
  <2>2. QED
    BY <2>1 DEF LifeInv, PausedInv
<1>2. QED
  BY <1>1, LifeInvariant, PTL

\* port.released says of the living worker what its lease is: what a dead
\* worker, an earlier mode or a failed start has left of it is cleared, or
\* belongs to a session whose share worker cannot serve.
THEOREM MarkerHonestHolds == ASSUME NEW c, Commands = {c} PROVE Spec => []MarkerHonest
<1>1. LifeInv(c) => MarkerHonest
  BY DEF LifeInv, MarksInv, MarkerHonest, Alive, Steps
<1>2. QED
  BY <1>1, LifeInvariant, PTL

\* Every save of a command or of a worker keeps the name of the virtual port
\* pairs the driver still has, or comes after they have been removed.
THEOREM PairsTrackedHolds == ASSUME NEW c, Commands = {c} PROVE Spec => []PairsTracked
<1>1. LifeInv(c) => PairsTracked
  BY DEF LifeInv, PairsInv, Owed, PairsTracked
<1>2. QED
  BY <1>1, LifeInvariant, PTL
=============================================================================
