--------------------------- MODULE SimpleTracker ---------------------------
(***************************************************************************)
(* The main thread of the tracker (src/examples/                           *)
(* fHOG_SimpleTrackerExample.cpp): the user double clicks the two corners  *)
(* of a box before the first frame, and between frames after a letter on   *)
(* the console, to start a tracker there.                                  *)
(***************************************************************************)
EXTENDS ImageWindow

CONSTANTS
  Frames,       \* how many .jpg files there are
  Images        \* their sizes

ASSUME TrackerAssumption == Frames \in Nat \ {0} /\ Images \subseteq Nat \X Nat

VARIABLES
  i,
  p1,
  boxes         \* <<p1, p2>> that a tracker was started with

trackerVars == <<i, p1, boxes>>

TrackerInit == i = 0 /\ p1 = NoPoint /\ boxes = {}

ShowImage ==
  /\ pc = "load"
  /\ \E image \in Images : set_image(image, IF i = 0 THEN "ask" ELSE "cin")
  /\ UNCHANGED trackerVars

AskForFirst ==
  /\ pc = "ask"
  /\ call_get_next_double_click("ask_for_second")
  /\ UNCHANGED trackerVars

AskForSecond ==
  /\ pc = "ask_for_second"
  /\ p1' = p
  /\ call_get_next_double_click("start_track")
  /\ UNCHANGED <<i, boxes>>

Continue ==
  /\ i' = i + 1
  /\ pc' = IF i' < Frames THEN "load" ELSE "end"
  /\ UNCHANGED <<ret, wm, sleeping, window, move_window, previous_image_size, click, bounds>>

\* The first tracker is started before its frame is done.
StartTrack ==
  /\ pc = "start_track"
  /\ boxes' = boxes \cup {<<p1, p>>}
  /\ UNCHANGED p1

FirstTrack ==
  /\ StartTrack
  /\ i = 0 /\ boxes = {}
  /\ pc' = "cin"
  /\ UNCHANGED <<i, ret, wm, sleeping, window, move_window, previous_image_size, click,
                 bounds>>

LaterTrack == StartTrack /\ boxes # {} /\ Continue

Enter == pc = "cin" /\ Continue /\ UNCHANGED <<p1, boxes>>

\* `r', `g' or `b'.
Letter ==
  /\ pc = "cin"
  /\ call_get_next_double_click("ask_for_second")
  /\ UNCHANGED trackerVars

Console == Enter \/ Letter
TrackerStep == ShowImage \/ AskForFirst \/ AskForSecond \/ FirstTrack \/ LaterTrack

-----------------------------------------------------------------------------
(* The corners of a tracked box are two clicks of the user, the first made
   before the second and neither used for another box, or the window has been
   closed: get_next_double_click says so, and the program does not ask. *)
BoxesAreDrawn ==
  /\ \A a, b \in DOMAIN handed : a < b => handed[a] < handed[b]
  /\ \A box \in boxes :
       \/ box[1] \in 1..(box[2] - 1)
       \/ box[2] = NoPoint /\ window_has_closed
=============================================================================
