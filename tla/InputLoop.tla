----------------------------- MODULE InputLoop -----------------------------
(***************************************************************************)
(* The loop around the prompt: run_input_loop and ReplTimer of             *)
(* model_repl.rs on status_bar.rs.  It waits for a key or for the periodic *)
(* timer; a tick repaints the status row over the line being typed, a key  *)
(* is followed by all others that are ready.  Only a failure ends it.      *)
(*                                                                         *)
(* Keys are numbered as they are pressed.  What a key does to the editor   *)
(* and the controller is in other modules: here it is taken or it fails.   *)
(***************************************************************************)
EXTENDS Naturals, Sequences

CONSTANT MaxKeys   \* bound on the keys the user presses
ASSUME KeysAssumption == MaxKeys \in Nat

VARIABLES
    loop,      \* the next call, "idle" before the loop, "ended" after it
    pressed,   \* keys pressed so far
    taken,     \* keys read so far
    due,       \* the timer's event is signalled
    event,     \* the timer: "none", "created", "periodic" or "closed"
    cursor,    \* where the firmware's cursor stands: in the "line" or in the "row"
    attribute, \* "normal" or "inverted"
    primary,   \* the failure that will be returned, "none" so far
    refused    \* the calls that failed, in order

consoleOf == <<cursor, attribute>>
inputVars == <<loop, pressed, taken, due, event, consoleOf, primary, refused>>

first_error(first, status) == IF first # "none" THEN first ELSE status

\* Was this call among those that failed?
Among(call, calls) == \E i \in 1 .. Len(calls) : calls[i] = call

Works(next) == loop' = next /\ UNCHANGED <<primary, refused>>

Fails(next) ==
    /\ loop' = next
    /\ primary' = first_error(primary, loop)
    /\ refused' = Append(refused, loop)

InputInit ==
    /\ loop = "idle" /\ pressed = 0 /\ taken = 0 /\ due = FALSE
    /\ event = "none" /\ cursor = "line" /\ attribute = "normal"
    /\ primary = "none" /\ refused = << >>

-----------------------------------------------------------------------------
(* The user and the timer.                                                  *)

Press ==
    /\ pressed < MaxKeys
    /\ pressed' = pressed + 1
    /\ UNCHANGED <<loop, taken, due, event, consoleOf, primary, refused>>

Elapse ==
    /\ event = "periodic" /\ ~due
    /\ due' = TRUE
    /\ UNCHANGED <<loop, pressed, taken, event, consoleOf, primary, refused>>

-----------------------------------------------------------------------------
(* ReplTimer.                                                               *)

\* run has written the first prompt.
EnterLoop ==
    /\ loop = "idle"
    /\ Works("create")
    /\ UNCHANGED <<pressed, taken, due, event, consoleOf>>

Create ==
    /\ loop = "create"
    /\ \/ event' = "created" /\ Works("set")
       \/ event' = event /\ Fails("ended")
    /\ UNCHANGED <<pressed, taken, due, consoleOf>>

SetTimer ==
    /\ loop = "set"
    /\ \/ event' = "periodic" /\ Works("wait")
       \/ event' = event /\ Fails("cancel")
    /\ UNCHANGED <<pressed, taken, due, consoleOf>>

\* Mutant: a timer that cannot be cancelled is not closed.
CancelOrReturn ==
    /\ loop = "cancel"
    /\ \/ event' = "created" /\ Works("close")
       \/ event' = event /\ Fails("ended")
    /\ UNCHANGED <<pressed, taken, due, consoleOf>>

\* cleanup_periodic_timer: both calls are made, whatever the first one returns.
Cancel ==
    /\ loop = "cancel"
    /\ \/ event' = "created" /\ Works("close")
       \/ event' = event /\ Fails("close")
    /\ UNCHANGED <<pressed, taken, due, consoleOf>>

Close ==
    /\ loop = "close"
    /\ \/ event' = "closed" /\ due' = FALSE /\ Works("ended")
       \/ UNCHANGED <<event, due>> /\ Fails("ended")
    /\ UNCHANGED <<pressed, taken, consoleOf>>

-----------------------------------------------------------------------------
(* The loop.                                                                *)

Ready == (IF pressed > taken THEN {"key"} ELSE {}) \cup (IF due THEN {"timer"} ELSE {})

\* Mutated form of wait_key_first: the events in the other order.
wait_timer_first == IF due THEN "timer" ELSE "key"

\* The firmware returns the first event of the array that is signalled.
wait_key_first == IF "key" \in Ready THEN "key" ELSE "timer"

Wait ==
    /\ loop = "wait"
    /\ \/ Ready # {} /\ wait_key_first = "key" /\ due' = due /\ Works("read")
       \/ Ready # {} /\ wait_key_first = "timer" /\ due' = FALSE /\ Works("paint")
       \/ due' = due /\ Fails("cancel")
    /\ UNCHANGED <<pressed, taken, event, consoleOf>>

\* read_result: not ready is not a failure, and ends the inner loop.
Read ==
    /\ loop = "read"
    /\ \/ pressed = taken /\ taken' = taken /\ Works("wait")
       \/ pressed > taken /\ taken' = taken + 1 /\ (Works("page") \/ Works("process"))
       \/ taken' = taken /\ Fails("cancel")
    /\ UNCHANGED <<pressed, due, event, consoleOf>>

\* A key pages the history, or goes to the editor and from there to a turn.
\* Processing fails when the turn does or when the prompt index overflows.
Handle ==
    /\ loop \in {"page", "process"}
    /\ Works("read") \/ Fails("cancel")
    /\ UNCHANGED <<pressed, taken, due, event, consoleOf>>

-----------------------------------------------------------------------------
(* waiting_tick: paint_status_row, render_status_row.                       *)

\* The console is not bound, or tells no position: nothing is called.
Paint ==
    /\ loop = "paint"
    /\ Works("set_cursor") \/ Fails("cancel")
    /\ UNCHANGED <<pressed, taken, due, event, consoleOf>>

SetCursor ==
    /\ loop = "set_cursor"
    /\ \/ cursor' = "row" /\ Works("set_attribute")
       \/ cursor' = cursor /\ Fails("restore_attribute")
    /\ UNCHANGED <<pressed, taken, due, event, attribute>>

SetAttribute ==
    /\ loop = "set_attribute"
    /\ \/ attribute' = "inverted" /\ Works("output")
       \/ attribute' = attribute /\ Fails("restore_attribute")
    /\ UNCHANGED <<pressed, taken, due, event, cursor>>

Output ==
    /\ loop = "output"
    /\ Works("restore_attribute") \/ Fails("restore_attribute")
    /\ UNCHANGED <<pressed, taken, due, event, consoleOf>>

\* Made also after a failure.
RestoreAttribute ==
    /\ loop = "restore_attribute"
    /\ \/ attribute' = "normal" /\ Works("restore_cursor")
       \/ attribute' = attribute /\ Fails("restore_cursor")
    /\ UNCHANGED <<pressed, taken, due, event, cursor>>

RestoreCursor ==
    /\ loop = "restore_cursor"
    /\ \/ cursor' = "line" /\ Works(IF primary = "none" THEN "wait" ELSE "cancel")
       \/ cursor' = cursor /\ Fails("cancel")
    /\ UNCHANGED <<pressed, taken, due, event, attribute>>

-----------------------------------------------------------------------------

LoopStep ==
    \/ EnterLoop \/ Create \/ SetTimer \/ Wait \/ Read \/ Handle \/ Cancel \/ Close
    \/ Paint \/ SetCursor \/ SetAttribute \/ Output \/ RestoreAttribute \/ RestoreCursor

InputNext == LoopStep \/ Press \/ Elapse

InputSpec == InputInit /\ [][InputNext]_inputVars

-----------------------------------------------------------------------------
(* Properties.                                                              *)

\* However the loop ends: the failure it returns is the first one; the timer is
\* running or left open only if the call that stops or closes it was refused.
\* Outside the painting, cursor and attribute are those of the line, unless
\* putting them back was refused.
InputLeavesClean ==
    /\ loop = "ended" =>
          /\ primary = refused[1]
          /\ event = "none" <=> Among("create", refused)
          /\ event # "closed" => Among("create", refused) \/ Among("close", refused)
          /\ event = "periodic" => Among("cancel", refused)
    /\ loop \in {"wait", "read", "page", "process", "cancel", "close", "ended"} =>
          /\ cursor = "line" \/ Among("restore_cursor", refused)
          /\ attribute = "normal" \/ Among("restore_attribute", refused)

\* A key that is pressed is read or the loop ends, however often the timer is due.
KeysAreTaken ==
    \A n \in 1 .. MaxKeys : pressed >= n ~> taken >= n \/ loop = "ended"
=============================================================================
