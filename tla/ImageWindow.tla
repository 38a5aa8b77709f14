---------------------------- MODULE ImageWindow ----------------------------
(***************************************************************************)
(* dlib's image_window (dlib/gui_widgets/widgets.cpp) on Windows           *)
(* (dlib/gui_core/gui_core_kernel_1.cpp): the event thread, which handles  *)
(* what the user does to the window, and the calls that the main thread of *)
(* a program makes.  One recursive mutex, wm, serves both.  A size is set  *)
(* by the event thread: the main thread asks for it and sleeps.            *)
(*                                                                         *)
(* A step of the main thread is what it does between two points at which   *)
(* it releases wm.  Clicks are numbered; the number stands for the point.  *)
(* The system takes every message that is posted, and gives a window just  *)
(* the size that it is asked for.                                          *)
(***************************************************************************)
EXTENDS Integers, Sequences

CONSTANTS
  Sizes,        \* <<width, height>> that the user may give the window
  Padding,      \* border of the scrollable region
  Done,         \* no MoveWindow is asked for: move_window_done
  MaxResizes,   \* bounds on what the user does
  MaxClicks

ASSUME WindowAssumption ==
  /\ Sizes \subseteq Nat \X Nat /\ Sizes # {}
  /\ Padding \in Nat /\ Done \notin Nat \X Nat
  /\ MaxResizes \in Nat /\ MaxClicks \in Nat

VARIABLES
  pc, ret,      \* what the main thread does, and where it returns to from a call
  wm,           \* how many locks on wm it holds
  sleeping,     \* the signaler it waits for
  size,
  window_has_closed,    \* has_been_destroyed, too: one handler sets both
  move_window,          \* the size asked for
  previous_image_size,
  have_last_click, last_clicked_point,
  p,            \* the point a call has returned
  clicks, resizes,      \* how many there were
  chosen,       \* sizes that the user or the program itself has chosen
  handed        \* the clicks handed to the program, in this order

main == <<pc, ret, wm>>
click == <<have_last_click, last_clicked_point, p, handed>>
bounds == <<clicks, resizes>>
window == <<size, window_has_closed, chosen>>
windowVars == <<main, sleeping, window, move_window, previous_image_size, click, bounds>>

NoPoint == 0        \* (-1,-1)
NoImage == <<0, 0>>

WindowInit ==
  /\ ret = pc
  /\ wm = 0 /\ sleeping = "nothing"
  /\ size \in Sizes /\ window_has_closed = FALSE /\ chosen = {size}
  /\ move_window = Done /\ previous_image_size = NoImage
  /\ have_last_click = FALSE /\ last_clicked_point = NoPoint /\ p = NoPoint
  /\ clicks = 0 /\ resizes = 0 /\ handed = <<>>

Signal(signaler) ==
  sleeping' = IF sleeping = signaler THEN "nothing" ELSE sleeping

-----------------------------------------------------------------------------
(* The event thread: WndProc locks wm for all of a message. *)
CallMoveWindow ==
  /\ wm = 0 /\ move_window # Done
  /\ size' = IF window_has_closed THEN size ELSE move_window
  /\ move_window' = Done
  /\ Signal("et_signaler")
  /\ UNCHANGED <<main, window_has_closed, chosen, previous_image_size, click, bounds>>

UserResizes ==
  /\ wm = 0 /\ ~window_has_closed
  /\ resizes < MaxResizes
  /\ size' \in Sizes \ {size}
  /\ chosen' = chosen \cup {size'}
  /\ resizes' = resizes + 1
  /\ UNCHANGED <<main, sleeping, window_has_closed, move_window,
                 previous_image_size, click, clicks>>

OnWindowCloseSilently ==
  /\ wm = 0 /\ ~window_has_closed
  /\ window_has_closed' = TRUE
  /\ UNCHANGED <<main, sleeping, size, chosen, move_window, previous_image_size,
                 click, bounds>>
OnWindowClose ==
  /\ wm = 0 /\ ~window_has_closed
  /\ window_has_closed' = TRUE
  /\ Signal("clicked_signaler")
  /\ UNCHANGED <<main, size, chosen, move_window, previous_image_size, click, bounds>>

\* A double click on the image; an earlier one that nobody has asked for is lost.
OnImageClicked ==
  /\ wm = 0 /\ ~window_has_closed
  /\ previous_image_size # NoImage
  /\ clicks < MaxClicks
  /\ clicks' = clicks + 1
  /\ have_last_click' = TRUE /\ last_clicked_point' = clicks'
  /\ Signal("clicked_signaler")
  /\ UNCHANGED <<main, window, move_window, previous_image_size, p, handed, resizes>>

\* Wakes whoever waits for a click; the events are not tied.
OnKeydown ==
  /\ wm = 0 /\ ~window_has_closed
  /\ sleeping = "clicked_signaler"
  /\ Signal("clicked_signaler")
  /\ UNCHANGED <<main, window, move_window, previous_image_size, click, bounds>>

EventThread ==
  CallMoveWindow \/ UserResizes \/ OnWindowClose \/ OnImageClicked \/ OnKeydown

-----------------------------------------------------------------------------
(* Calls of the main thread. *)

\* rsignaler::wait gives up all locks that the thread holds on the mutex.
HeldAsleepUnlockOnce(count) == count - 1
HeldAsleep(count) == 0

\* `count' locks are held when it waits; then it goes on at `next'.
set_size(s, count, next) ==
  /\ ret' = next
  /\ IF window_has_closed
       THEN pc' = next /\ UNCHANGED <<wm, sleeping, move_window>>
       ELSE /\ move_window' = s
            /\ sleeping' = "et_signaler" /\ wm' = HeldAsleep(count)
            /\ pc' = "move_window"
  /\ UNCHANGED <<size, window_has_closed, click, bounds>>

WindowMoved ==
  /\ pc = "move_window" /\ sleeping = "nothing" /\ move_window = Done
  /\ pc' = ret
  /\ UNCHANGED <<ret, wm, sleeping, window, move_window, previous_image_size, click, bounds>>

\* Only an image of another size resizes the window, as long as it is not zoomed.
set_image(image, next) ==
  /\ previous_image_size' = image
  /\ chosen' = chosen
  /\ IF image # previous_image_size
       THEN set_size(<<image[1] + 2 * Padding, image[2] + 2 * Padding>>, 2, next)
       ELSE /\ pc' = next /\ ret' = next
            /\ UNCHANGED <<wm, sleeping, size, window_has_closed, move_window, click, bounds>>

call_get_next_double_click(next) ==
  /\ pc' = "click" /\ ret' = next
  /\ UNCHANGED <<wm, sleeping, window, move_window, previous_image_size, click, bounds>>

WaitForClick ==
  /\ pc = "click" /\ sleeping = "nothing"
  /\ ~have_last_click /\ ~window_has_closed
  /\ sleeping' = "clicked_signaler" /\ wm' = HeldAsleep(1)
  /\ UNCHANGED <<pc, ret, window, move_window, previous_image_size, click, bounds>>

NoClick ==
  /\ pc = "click" /\ sleeping = "nothing"
  /\ window_has_closed
  /\ p' = NoPoint
  /\ pc' = ret
  /\ UNCHANGED <<ret, wm, sleeping, window, move_window, previous_image_size,
                 have_last_click, last_clicked_point, handed, bounds>>

TakeClickAndKeepIt ==
  /\ pc = "click" /\ sleeping = "nothing"
  /\ have_last_click /\ ~window_has_closed
  /\ p' = last_clicked_point /\ handed' = Append(handed, last_clicked_point)
  /\ pc' = ret
  /\ UNCHANGED <<ret, wm, sleeping, window, move_window, previous_image_size,
                 have_last_click, last_clicked_point, bounds>>
TakeClick ==
  /\ pc = "click" /\ sleeping = "nothing"
  /\ have_last_click /\ ~window_has_closed
  /\ p' = last_clicked_point /\ handed' = Append(handed, last_clicked_point)
  /\ have_last_click' = FALSE
  /\ pc' = ret
  /\ UNCHANGED <<ret, wm, sleeping, window, move_window, previous_image_size,
                 last_clicked_point, bounds>>

InCall == WindowMoved \/ WaitForClick \/ NoClick \/ TakeClick

-----------------------------------------------------------------------------
(* A call comes back once what it waits for has happened: the size is set, also
   when the user closes the window before the event thread sees the request;
   there is a click, or the window has been closed. *)
CallsReturn ==
  /\ pc = "move_window" ~> pc # "move_window"
  /\ pc = "click" /\ (have_last_click \/ window_has_closed) ~> pc # "click"
=============================================================================
