----------------------------- MODULE VideoLoop -----------------------------
(***************************************************************************)
(* The main thread of the video detector                                   *)
(* (src/examples/fHOG_FullNaoVideoDetector.cpp): frame by frame it runs    *)
(* the detectors, scales the frame to the window (extern/Video/Helper.cpp) *)
(* and shows it, restores the size that set_image has changed, and looks   *)
(* for a key on the console; `c' asks for a double click.                  *)
(***************************************************************************)
EXTENDS ImageWindow

CONSTANTS
  Frame,        \* <<columns, rows>> of a frame
  Preferred     \* 960 x 540

ASSUME VideoAssumption ==
  Frame \in (Nat \ {0}) \X (Nat \ {0}) /\ Preferred \in Nat \X Nat

VARIABLES
  lWin,         \* lWinWidth, lWinHeight
  lWinOld

videoVars == <<lWin, lWinOld>>

VideoInit == lWin = <<0, 0>> /\ lWinOld = <<0, 0>>

OpenWindow ==
  /\ pc = "open"
  /\ set_size(Preferred, 1, "is_closed")
  /\ chosen' = chosen \cup {Preferred}
  /\ UNCHANGED <<previous_image_size, videoVars>>

Goto(next) ==
  /\ pc' = next
  /\ UNCHANGED <<ret, wm, sleeping, window, move_window, previous_image_size, click,
                 bounds, videoVars>>

\* Grabs a frame and detects robots in it.
GrabFrame == pc = "is_closed" /\ ~window_has_closed /\ Goto("prepare")
\* cv_image asserts on the empty one that comes after the last.
NoMoreFrames == pc = "is_closed" /\ ~window_has_closed /\ Goto("end")
LeaveLoop == pc = "is_closed" /\ window_has_closed /\ Goto("end")

get_size == IF window_has_closed THEN <<0, 0>> ELSE size

\* The largest size of the frame's shape in the window.
Fitted(win) ==
  IF win[1] * Frame[2] > win[2] * Frame[1]
    THEN <<(Frame[1] * win[2]) \div Frame[2], win[2]>>
    ELSE <<win[1], (Frame[2] * win[1]) \div Frame[1]>>

prepareToWindowScaling ==
  /\ pc = "prepare"
  /\ lWinOld' = get_size /\ lWin' = Fitted(get_size)
  /\ pc' = "show"
  /\ UNCHANGED <<ret, wm, sleeping, window, move_window, previous_image_size, click, bounds>>

ShowFrame ==
  /\ pc = "show"
  /\ set_image(lWin, "complete")
  /\ UNCHANGED videoVars

completeToScaledSize ==
  /\ pc = "complete"
  /\ set_size(lWin, 1, "key")
  /\ UNCHANGED <<chosen, previous_image_size, videoVars>>
completeToWindowScaling ==
  /\ pc = "complete"
  /\ set_size(lWinOld, 1, "key")
  /\ UNCHANGED <<chosen, previous_image_size, videoVars>>

\* No key, or one for the threshold or the green filter.
NextFrame == pc = "key" /\ Goto("is_closed")

AskForClick ==
  /\ pc = "key"
  /\ call_get_next_double_click("is_closed")
  /\ UNCHANGED videoVars

VideoStep ==
  \/ OpenWindow \/ GrabFrame \/ NoMoreFrames \/ LeaveLoop
  \/ prepareToWindowScaling \/ ShowFrame \/ completeToWindowScaling
  \/ NextFrame \/ AskForClick

-----------------------------------------------------------------------------
(* Every frame starts with a size of the window that the user or the program
   has chosen, never with one that showing the frames before has left behind,
   whatever the user does to the window while they are shown. *)
WindowKeepsSize ==
  pc \in {"is_closed", "prepare"} /\ ~window_has_closed => size \in chosen
=============================================================================
