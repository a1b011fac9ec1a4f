------------------------------ MODULE Settings ------------------------------
(* Settings an administrator changes while the servers run: the stored       *)
(* overrides, what each server has in force, the schedules built from it and *)
(* the file that mirrors it.  A save commits first; the server that handled  *)
(* it then reads the overrides back, applies them, rebuilds its schedules    *)
(* and writes its mirror, a step at a time, and another save may come in     *)
(* between.  No other server is told.                                        *)
(*                                                                           *)
(* Two sweeps are scheduled from settings: the deadline alerts always, the   *)
(* retention only while a count of days to keep something is positive.  How  *)
(* values are encrypted, and the cache of what the directory and the model   *)
(* endpoint said, are left out.                                              *)
EXTENDS Naturals, FiniteSets

CONSTANTS Servers, Keys,
          Kind,        \* key -> "text", "number" or "secret"
          Schedule,    \* sweep -> the key with its cron expression
          DayCounts,   \* the keys that say how long to keep something
          Values, Blank,   \* Blank parses as no number and no expression
          Positive,    \* the values that are a number above zero
          Baseline,    \* what the environment supplied
          Saves,       \* requests to save, each handled once
          Changes,     \* what they may ask for: key -> value, Clear or Keep
          Clear, Keep, Unset

Sweeps == {"alerts", "retention"}

ASSUME SettingsAssumption ==
  /\ Schedule \in [Sweeps -> Keys] /\ DayCounts \subseteq Keys /\ Positive \subseteq Values \ {Blank}
  /\ Blank \in Values /\ {Clear, Keep, Unset} \cap Values = {}
  /\ Kind \in [Keys -> {"text", "number", "secret"}] /\ Baseline \in [Keys -> Values]
  /\ Changes \subseteq [Keys -> Values \cup {Clear, Keep}]

Overrides == [Keys -> Values \cup {Unset}]
Timetables == [by : Saves \cup {"boot"}, at : Values]
SaveSteps == {"saved", "read", "applied", "alertsOff", "alertsOn", "retentionOff", "retentionOn", "answered"}
SaveStates == [server : Servers, step : SaveSteps,
               overrides : Overrides, alone : BOOLEAN]

ASSUME UnsetAssumption == Unset \notin Timetables \cup SaveStates

VARIABLES
  stored,     \* key -> the override, or Unset
  running,    \* server -> key -> the value in force
  ticking,    \* server -> sweep -> schedules that are running: who built them, and when they fire
  current,    \* server -> sweep -> the schedule it would stop, or Unset
  mirror,     \* server -> key -> the value in its file
  saving,     \* request -> where it is, Unset before it comes
  doubts      \* history: <<server, aspect>> that something has come between

settingsVars == <<stored, running, ticking, current, mirror, saving, doubts>>

Aspects == {"values", "timetable", "mirror"}

\* Mutation: overrides are laid over what is in force.
MergeRunning(overrides, before) ==
  [k \in Keys |-> IF overrides[k] = Unset \/ (Kind[k] = "number" /\ overrides[k] = Blank)
                  THEN before[k] ELSE overrides[k]]

\* A key without override, or whose number does not parse, has its baseline.
Merge(overrides, before) ==
  [k \in Keys |-> IF overrides[k] = Unset \/ (Kind[k] = "number" /\ overrides[k] = Blank)
                  THEN Baseline[k] ELSE overrides[k]]

\* Nothing is purged until somebody has said what to keep and how long.
CalledFor(sweep, values) == sweep = "retention" => \E k \in DayCounts : values[k] \in Positive

Built(by, sweep, values) ==
  IF CalledFor(sweep, values) THEN [by |-> by, at |-> values[Schedule[sweep]]] ELSE Unset

\* An expression that does not parse is held, and never fires.
Runs(schedule) == IF schedule = Unset \/ schedule.at = Blank THEN {} ELSE {schedule}

NothingStored == [k \in Keys |-> Unset]

SettingsInit ==
  /\ stored = NothingStored
  /\ running = [s \in Servers |-> Baseline] /\ mirror = [s \in Servers |-> Baseline]
  /\ current = [s \in Servers |-> [j \in Sweeps |-> Built("boot", j, Baseline)]]
  /\ ticking = [s \in Servers |-> [j \in Sweeps |-> Runs(Built("boot", j, Baseline))]]
  /\ saving = [w \in Saves |-> Unset] /\ doubts = {}

UnderWay == {w \in Saves : saving[w] # Unset /\ saving[w].step # "answered"}
UnderWayOn(s) == {w \in UnderWay : saving[w].server = s}

\* A secret sent blank keeps what is stored.
Changed(k, request) ==
  IF request[k] = Keep \/ (Kind[k] = "secret" /\ request[k] = Blank) THEN stored[k]
  ELSE IF request[k] = Clear THEN Unset ELSE request[k]

\* One transaction.
SaveSettings(w, s, request) ==
  /\ saving[w] = Unset
  /\ stored' = [k \in Keys |-> Changed(k, request)]
  /\ saving' = [x \in Saves |->
       IF x = w THEN [server |-> s, step |-> "saved", overrides |-> NothingStored, alone |-> UnderWay = {}]
       ELSE IF x \in UnderWay THEN [saving[x] EXCEPT !.alone = FALSE] ELSE saving[x]]
  /\ doubts' = doubts \cup ((Servers \ {s}) \X {"values"})
                      \cup (IF UnderWayOn(s) # {} THEN {s} \X Aspects ELSE {})
  /\ UNCHANGED <<running, ticking, current, mirror>>

At(w, step) == w \in UnderWay /\ saving[w].step = step
Goes(w, step) == saving' = [saving EXCEPT ![w].step = step]

ReadOverrides(w) ==
  /\ At(w, "saved")
  /\ saving' = [saving EXCEPT ![w].step = "read", ![w].overrides = stored]
  /\ UNCHANGED <<stored, running, ticking, current, mirror, doubts>>

Apply(w) ==
  LET s == saving[w].server IN
  /\ At(w, "read") /\ Goes(w, "applied")
  /\ running' = [running EXCEPT ![s] = Merge(saving[w].overrides, @)]
  /\ UNCHANGED <<stored, ticking, current, mirror, doubts>>

\* The alerts are stopped and started, and then the retention.
Before == [alerts |-> "applied", retention |-> "alertsOn"]
Off == [alerts |-> "alertsOff", retention |-> "retentionOff"]
On == [alerts |-> "alertsOn", retention |-> "retentionOn"]

\* Start stops once more what Restart has stopped: this is the last of them.
StopSchedule(w, sweep) ==
  LET s == saving[w].server IN
  /\ At(w, Before[sweep]) /\ Goes(w, Off[sweep])
  /\ ticking' = [ticking EXCEPT ![s][sweep] = @ \ {current[s][sweep]}]
  /\ current' = [current EXCEPT ![s][sweep] = Unset]
  /\ UNCHANGED <<stored, running, mirror, doubts>>

StartSchedule(w, sweep) ==
  LET s == saving[w].server
      schedule == Built(w, sweep, running[s]) IN
  /\ At(w, Off[sweep]) /\ Goes(w, On[sweep])
  /\ current' = IF schedule = Unset THEN current ELSE [current EXCEPT ![s][sweep] = schedule]
  /\ ticking' = [ticking EXCEPT ![s][sweep] = @ \cup Runs(schedule)]
  /\ UNCHANGED <<stored, running, mirror, doubts>>

\* The file is replaced in one rename.  A save nothing came between leaves no
\* doubt about values and mirror.
WriteMirror(w) ==
  LET s == saving[w].server IN
  /\ At(w, "retentionOn") /\ Goes(w, "answered")
  /\ mirror' = [mirror EXCEPT ![s] = running[s]]
  /\ doubts' = IF saving[w].alone THEN doubts \ ({s} \X {"values", "mirror"}) ELSE doubts
  /\ UNCHANGED <<stored, running, ticking, current>>

\* The file cannot be written: the answer says so and the save stands.
MirrorFails(w) ==
  LET s == saving[w].server IN
  /\ At(w, "retentionOn") /\ Goes(w, "answered")
  /\ doubts' = (IF saving[w].alone THEN doubts \ {<<s, "values">>} ELSE doubts) \cup {<<s, "mirror">>}
  /\ UNCHANGED <<stored, running, ticking, current, mirror>>

\* The overrides cannot be read back, or the request dies on the way.
ReloadFails(w) ==
  /\ w \in UnderWay /\ Goes(w, "answered")
  /\ doubts' = doubts \cup ({saving[w].server} \X Aspects)
  /\ UNCHANGED <<stored, running, ticking, current, mirror>>

\* A server starts again: on the stored values, or on the environment alone
\* when they cannot be read.  Its file waits for the next save.
Restart(s) ==
  \E loaded \in BOOLEAN :
    LET values == IF loaded THEN Merge(stored, Baseline) ELSE Baseline IN
    /\ running' = [running EXCEPT ![s] = values]
    /\ current' = [current EXCEPT ![s] = [j \in Sweeps |-> Built("boot", j, values)]]
    /\ ticking' = [ticking EXCEPT ![s] = [j \in Sweeps |-> Runs(Built("boot", j, values))]]
    /\ saving' = [w \in Saves |-> IF w \in UnderWayOn(s) THEN [saving[w] EXCEPT !.step = "answered"] ELSE saving[w]]
    /\ doubts' = (doubts \ ({s} \X {"values", "timetable"}))
                   \cup (IF loaded THEN {} ELSE {<<s, "values">>})
                   \cup (IF mirror[s] # values THEN {<<s, "mirror">>} ELSE {})
    /\ UNCHANGED <<stored, mirror>>

SettingsNext ==
  \/ \E w \in Saves :
       \/ \E s \in Servers : \E request \in Changes : SaveSettings(w, s, request)
       \/ ReadOverrides(w) \/ Apply(w)
       \/ \E sweep \in Sweeps : StopSchedule(w, sweep) \/ StartSchedule(w, sweep)
       \/ WriteMirror(w) \/ MirrorFails(w) \/ ReloadFails(w)
  \/ \E s \in Servers : Restart(s)

SettingsSpec == SettingsInit /\ [][SettingsNext]_settingsVars

-----------------------------------------------------------------------------
(* Properties *)

\* A server that is handling no save has in force what is stored, over what
\* the environment supplied.
ValuesInForce(s) == running[s] = Merge(stored, Baseline)

\* A sweep that is called for has one schedule running, at the time now in
\* force, or none when that does not parse; the retention has none while no
\* count of days in force is positive.
Times(sweep, values) == IF CalledFor(sweep, values) THEN {values[Schedule[sweep]]} \ {Blank} ELSE {}
TimetableInForce(s) ==
  \A j \in Sweeps : /\ {t.at : t \in ticking[s][j]} = Times(j, running[s])
                     /\ Cardinality(ticking[s][j]) <= 1

\* Its file says what is in force.
MirrorInForce(s) == mirror[s] = running[s]

\* Saved means in force: on a server that is handling no save, without a
\* restart, values, both schedules and file agree with what is stored
\* (handlers/settings_handler.go:149-183).  What may keep an aspect from it:
\* two saves that met on this server, a reload that failed or a request that
\* died on the way, any aspect, until the server restarts or, for values and
\* file, a save nothing meets; a save on another server, the values, until the
\* like; a start that could not read the overrides, the values; a start on
\* other values than the file's, or a failed write, the file, until a save
\* that writes it.
SavedIsInForce ==
  \A s \in Servers : UnderWayOn(s) = {} =>
    /\ <<s, "values">> \in doubts \/ ValuesInForce(s)
    /\ <<s, "timetable">> \in doubts \/ TimetableInForce(s)
    /\ <<s, "mirror">> \in doubts \/ MirrorInForce(s)
=============================================================================
