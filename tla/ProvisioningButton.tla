------------------------- MODULE ProvisioningButton -------------------------
(***************************************************************************)
(* The boot key: the gesture recogniser (provisioning_button.c), the       *)
(* gestures the shell can simulate (button_simulation.c), and the polling  *)
(* task that turns a gesture into the command bound to it (button_task).   *)
(* Time is counted in polls; the constants are the code's durations.       *)
(***************************************************************************)
EXTENDS Naturals, FiniteSets

CONSTANTS
  PressConfirm, ClickRelease, DoubleClick, Hold2, Hold6, Hold10, ReleaseConfirm,
  StableRelease,    \* release a destructive command waits for
  SimulatedPress,   \* length of a simulated click, of the gap in a double one, and of
                    \* what a simulated hold adds to its threshold
  SimulatedTail,    \* released samples at the end of a simulated gesture
  Bindings          \* the bindings in use: functions from gestures to commands

ASSUME ButtonAssumption ==
  /\ 0 < ClickRelease /\ ClickRelease <= SimulatedPress /\ PressConfirm <= SimulatedPress
  /\ SimulatedPress < DoubleClick /\ DoubleClick < SimulatedTail
  /\ PressConfirm < Hold2 /\ Hold2 + SimulatedPress < Hold6 /\ Hold6 + SimulatedPress < Hold10
  /\ ReleaseConfirm < SimulatedTail

VARIABLES
  button,           \* airdap_provisioning_button_t
  control,          \* "IDLE", "PHYSICAL_BUSY", or the gesture to simulate
  simulator,        \* airdap_button_simulator_t
  stable,           \* stable_release_ms
  withheld,         \* pending_clear
  commands,         \* the bindings latched for the gesture under way
  bindings,         \* the bindings in effect (button_config.c)
  sent,             \* the gesture and the command the last poll posted
  trace             \* history, see NoTrace

buttonVars == <<button, control, simulator, stable, withheld, commands, bindings, sent, trace>>

Gestures == {"SINGLE", "DOUBLE", "HOLD2", "HOLD6", "HOLD10"}
Destructive == {"CLEAR_NETWORK_RESTART", "RESTART"}

Released == [state |-> "IDLE", held |-> 0, released |-> 0, wait |-> 0, second |-> FALSE]
NotSimulating == [started |-> FALSE, time |-> 0]
Nothing == [gesture |-> "NONE", command |-> "NONE"]

\* history: released samples in a row, pressed samples of the gesture under
\* way, the bindings when it began, and the gestures posted since a simulation
\* began.
NoTrace(b) == [quiet |-> 0, pressed |-> 0, bound |-> b, heard |-> 0]

ButtonInit ==
  /\ button = Released
  /\ control = "IDLE"
  /\ simulator = NotSimulating
  /\ stable = 0
  /\ withheld = "NONE"
  /\ bindings \in Bindings
  /\ commands = bindings
  /\ sent = Nothing
  /\ trace = NoTrace(bindings)

Capped(n, limit) == IF n < limit THEN n + 1 ELSE limit

-----------------------------------------------------------------------------
(* The recogniser: the new state and the gesture, "NONE" where there is none *)

Goes(new) == [button |-> new, gesture |-> "NONE"]
Recognised(gesture) == [button |-> Released, gesture |-> gesture]

\* The READY actions of hold only drive an indicator and are left out.
Hold(x) ==
  LET held == Capped(x.held, Hold10) IN
  Goes([x EXCEPT
    !.held = held, !.released = 0,
    !.state = CASE held >= Hold10 -> "LONG_10S"
                [] held >= Hold6 /\ held < Hold10 -> "LONG_6S"
                [] held >= Hold2 /\ held < Hold6 -> "LONG_2S"
                [] held >= PressConfirm /\ held < Hold2 ->
                     IF x.second THEN "SECOND_PRESSED" ELSE "PRESSED"
                [] OTHER -> @])

WaitForSecond(x, wait) ==
  IF wait >= DoubleClick
    THEN Recognised("SINGLE")
    ELSE Goes([x EXCEPT !.wait = wait, !.state = "WAIT_SECOND_PRESS"])

Release(x) ==
  LET released == x.released + 1
      enough == released >= (IF x.held >= Hold2 THEN ReleaseConfirm ELSE ClickRelease)
  IN
  CASE ~enough -> Goes([x EXCEPT !.released = released, !.state = "RELEASE_DEBOUNCE"])
    [] enough /\ x.held >= Hold10 -> Recognised("HOLD10")
    [] enough /\ x.held >= Hold6 /\ x.held < Hold10 -> Recognised("HOLD6")
    [] enough /\ x.held >= Hold2 /\ x.held < Hold6 -> Recognised("HOLD2")
    [] enough /\ x.held < Hold2 /\ x.second -> Recognised("DOUBLE")
    [] OTHER -> WaitForSecond([x EXCEPT !.released = released], released)

\* airdap_provisioning_button_step
ButtonStep(x, pressed) ==
  LET waited == [x EXCEPT !.wait = Capped(@, DoubleClick)] IN
  CASE x.state = "IDLE" ->
         IF pressed THEN Hold([x EXCEPT !.state = "PRESS_DEBOUNCE"]) ELSE Goes(x)
    [] x.state = "WAIT_SECOND_PRESS" ->
         IF pressed
           THEN Hold([waited EXCEPT !.second = TRUE, !.held = 0, !.state = "SECOND_PRESS_DEBOUNCE"])
           ELSE WaitForSecond(x, x.wait + 1)
    [] x.state = "PRESS_DEBOUNCE" -> IF pressed THEN Hold(x) ELSE Goes(Released)
    [] x.state = "SECOND_PRESS_DEBOUNCE" ->
         IF pressed THEN Hold(waited) ELSE WaitForSecond(x, x.wait + 1)
    [] OTHER -> IF pressed THEN Hold(x) ELSE Release(x)

-----------------------------------------------------------------------------
(* Simulated gestures *)

HoldLength(gesture) ==
  CASE gesture = "SINGLE" -> SimulatedPress
    [] gesture = "DOUBLE" -> 3 * SimulatedPress
    [] gesture = "HOLD2" -> Hold2 + SimulatedPress
    [] gesture = "HOLD6" -> Hold6 + SimulatedPress
    [] OTHER -> Hold10 + SimulatedPress

\* Variant: a double click is simulated without its gap.
HeldThrough(gesture, time) == time < HoldLength(gesture)

Held(gesture, time) ==
  /\ time < HoldLength(gesture)
  /\ gesture = "DOUBLE" => time < SimulatedPress \/ time >= 2 * SimulatedPress

\* airdap_button_simulate: a request of the shell.
Simulate(gesture) ==
  /\ control = "IDLE"
  /\ control' = gesture
  /\ UNCHANGED <<button, simulator, stable, withheld, commands, bindings, sent, trace>>

\* airdap_button_simulation_step: a request that finds the key in use is
\* dropped, a physical press or a failed read ends a simulation.
SimulationStep(valid, physical) ==
  LET idle == button.state = "IDLE"
      running == control \in Gestures
      end == HoldLength(control) + SimulatedTail
      over == simulator.time >= end /\ idle
      step(c, s, pressed, cancelled) ==
        [control |-> c, simulator |-> s, pressed |-> pressed, cancelled |-> cancelled]
  IN
  CASE ~running -> step(IF valid /\ ~physical /\ idle THEN "IDLE" ELSE "PHYSICAL_BUSY",
                        simulator, FALSE, FALSE)
    [] running /\ ~simulator.started /\ ~idle -> step("PHYSICAL_BUSY", simulator, FALSE, FALSE)
    [] running /\ (simulator.started \/ idle) /\ (~valid \/ physical) ->
         step("PHYSICAL_BUSY", NotSimulating, FALSE, TRUE)
    [] running /\ valid /\ ~physical /\ over -> step("IDLE", NotSimulating, FALSE, FALSE)
    [] OTHER -> step(control, [started |-> TRUE, time |-> Capped(simulator.time, end)],
                     Held(control, simulator.time), FALSE)

-----------------------------------------------------------------------------
(* button_task *)

\* airdap_button_config_update: bindings are replaced as a whole.
Rebind(new) ==
  /\ bindings' = new
  /\ UNCHANGED <<button, control, simulator, stable, withheld, commands, sent, trace>>

\* Variant: a destructive command does not wait for a stable release.
WaitsNever(gesture, latched, release) == FALSE

\* A destructive command waits until the key has been released long enough.
Waits(gesture, latched, release) ==
  /\ gesture \in Gestures
  /\ latched[gesture] \in Destructive
  /\ release < StableRelease

\* The bindings are read when a press ends the idle state.
Latched(x, pressed) == IF x.state = "IDLE" /\ pressed THEN bindings ELSE commands

\* One round of the task's loop.  A failed read leaves the recogniser alone.
Poll(reading) ==
  LET valid == reading # "ERROR"
      sim == SimulationStep(valid, reading = "PRESSED")
      pressed == reading = "PRESSED" \/ sim.pressed
      kept == IF sim.cancelled \/ ~valid \/ pressed THEN "NONE" ELSE withheld
      release == IF ~valid \/ pressed THEN 0 ELSE Capped(stable, StableRelease)
      known == IF sim.cancelled THEN Released ELSE button
      latched == IF valid THEN Latched(known, pressed) ELSE commands
      step == IF valid THEN ButtonStep(known, pressed) ELSE Goes(known)
      waiting == IF Waits(step.gesture, latched, release) THEN step.gesture ELSE kept
      due == waiting # "NONE" /\ release >= StableRelease
      gesture == CASE due -> waiting
                   [] ~due /\ Waits(step.gesture, latched, release) -> "NONE"
                   [] OTHER -> step.gesture
  IN
  /\ control' = sim.control
  /\ simulator' = sim.simulator
  /\ button' = step.button
  /\ stable' = release
  /\ commands' = latched
  /\ withheld' = IF due THEN "NONE" ELSE waiting
  /\ sent' = IF gesture = "NONE" THEN Nothing
             ELSE [gesture |-> gesture, command |-> latched[gesture]]
  /\ trace' =
       LET begins == known.state = "IDLE" /\ pressed IN
       [quiet |-> IF valid /\ ~pressed THEN Capped(trace.quiet, StableRelease) ELSE 0,
        pressed |-> IF begins THEN 1
                    ELSE IF valid /\ pressed THEN Capped(trace.pressed, Hold10) ELSE trace.pressed,
        bound |-> IF valid /\ begins THEN bindings ELSE trace.bound,
        heard |-> IF control \in Gestures /\ ~simulator.started THEN 0
                  ELSE IF gesture = "NONE" THEN trace.heard ELSE Capped(trace.heard, 2)]
  /\ UNCHANGED bindings

-----------------------------------------------------------------------------
(* Properties *)

\* A command is never carried out on a key that is still down; one that clears
\* the configuration or restarts the device is posted only after the key has
\* stayed released, a ten second gesture only after the key was down that long,
\* and the command is the one bound when the gesture began ("A binding edit
\* cannot change the meaning of an already-held key").
CommandIsDeliberate ==
  sent # Nothing =>
    /\ trace.quiet > 0
    /\ sent.command \in Destructive => trace.quiet = StableRelease
    /\ sent.gesture = "HOLD10" => trace.pressed = Hold10
    /\ sent.command = trace.bound[sent.gesture]

\* A simulated gesture is recognised as itself, once, or not at all when the
\* physical key interrupts it (the simulator's schedule against the
\* recogniser's thresholds, button_simulation_step).
SimulationIsRecognised ==
  [][(control \in Gestures /\ simulator.started) =>
       (/\ sent' # sent /\ sent' # Nothing => sent'.gesture = control /\ control' = control
        /\ control' = "IDLE" => trace.heard = 1)]_buttonVars
=============================================================================
