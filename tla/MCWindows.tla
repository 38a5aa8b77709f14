----------------------------- MODULE MCWindows -----------------------------
(***************************************************************************)
(* An image window used by the video detector or by the tracker.  Sizes    *)
(* are small: frames of 4 x 3, a preferred window of 3 x 2, and windows    *)
(* wider and higher than the frames.                                       *)
(***************************************************************************)
EXTENDS VideoLoop, SimpleTracker

MCSizes == {<<3, 2>>, <<5, 2>>, <<3, 4>>}
MCFrame == <<4, 3>>
MCPreferred == <<3, 2>>
MCImages == {<<3, 2>>, <<2, 2>>}

vars == <<windowVars, videoVars, trackerVars>>

Init ==
  /\ pc \in {"open", "load"}
  /\ WindowInit /\ VideoInit /\ TrackerInit

Video == VideoStep /\ UNCHANGED trackerVars
Tracker == (TrackerStep \/ Console) /\ UNCHANGED videoVars
Call == InCall /\ UNCHANGED <<videoVars, trackerVars>>
Events == EventThread /\ UNCHANGED <<videoVars, trackerVars>>

Next == Video \/ Tracker \/ Call \/ Events

\* Both threads run; the user need not do anything.
FairSpec ==
  /\ Init /\ [][Next]_vars
  /\ WF_vars(Video) /\ WF_vars(TrackerStep /\ UNCHANGED videoVars) /\ WF_vars(Call)
  /\ WF_vars(CallMoveWindow /\ UNCHANGED <<videoVars, trackerVars>>)

(* Whatever a program does while the user closes its window, it then comes to
   its end, or to where the tracker reads from the console. *)
ClosingFrees == window_has_closed ~> pc \in {"end", "cin"}
=============================================================================
