--------------------------- MODULE Windows_proofs ---------------------------
(***************************************************************************)
(* The window under both programs, for any sizes of windows and frames and *)
(* any number of frames, clicks and resizes: the video detector leaves the *)
(* window at a size that somebody has chosen (WindowKeepsSize), and the    *)
(* tracker's boxes are drawn by two clicks of their own (BoxesAreDrawn).   *)
(***************************************************************************)
EXTENDS MCWindows, TLAPS

USE DEF NoPoint

(* While a frame is shown, the size that is to come back is a chosen one; while
   it is set, it is asked for or there already. *)
SizeComesBack ==
  /\ chosen \subseteq Nat \X Nat
  /\ pc # "move_window" => move_window = Done
  /\ pc = "move_window" => ret \in {"is_closed", "key", "complete", "ask", "cin"}
  /\ pc = "click" => ret \in {"is_closed", "ask_for_second", "start_track"}
  /\ ~window_has_closed =>
       /\ \/ pc \in {"open", "is_closed", "prepare", "key"}
          \/ pc = "click" /\ ret = "is_closed"
          \/ pc = "move_window" /\ ret \in {"is_closed", "key"} /\ move_window = Done
          => size \in chosen
       /\ pc = "move_window" /\ ret \in {"is_closed", "key"} /\ move_window # Done
          => move_window \in chosen
       /\ \/ pc \in {"show", "complete"}
          \/ pc = "move_window" /\ ret = "complete"
          => lWinOld \in chosen

(* The invariant holds when a program starts ... *)
LEMMA SizeInit == Init => SizeComesBack
BY WindowAssumption DEF Init, WindowInit, SizeComesBack

(* ... through every step of the video detector ... *)
LEMMA SizeVideo == SizeComesBack /\ Video => SizeComesBack'
<1> SUFFICES ASSUME SizeComesBack, VideoStep PROVE SizeComesBack'
  BY DEF Video
<1> USE DEF SizeComesBack, main, window, click, bounds, videoVars
<1>1. CASE OpenWindow
  <2>1. chosen' = chosen \cup {Preferred} /\ Preferred \in Nat \X Nat
    BY <1>1, VideoAssumption DEF OpenWindow
  <2> QED BY <1>1, <2>1, WindowAssumption DEF OpenWindow, set_size
<1>2. CASE GrabFrame \/ NoMoreFrames \/ LeaveLoop \/ NextFrame
  BY <1>2 DEF GrabFrame, NoMoreFrames, LeaveLoop, NextFrame, Goto
<1>3. CASE prepareToWindowScaling
  BY <1>3 DEF prepareToWindowScaling, get_size
<1>4. CASE ShowFrame
  BY <1>4 DEF ShowFrame, set_image, set_size
<1>5. CASE completeToWindowScaling
  BY <1>5, WindowAssumption DEF completeToWindowScaling, set_size
<1>6. CASE AskForClick
  BY <1>6 DEF AskForClick, call_get_next_double_click
<1> QED BY <1>1, <1>2, <1>3, <1>4, <1>5, <1>6 DEF VideoStep

(* ... of the tracker, which is at none of these places ... *)
LEMMA SizeTracker == SizeComesBack /\ Tracker => SizeComesBack'
<1> SUFFICES ASSUME SizeComesBack, TrackerStep \/ Console, UNCHANGED videoVars
             PROVE SizeComesBack'
  BY DEF Tracker
<1> USE DEF SizeComesBack, main, window, click, bounds, videoVars
<1>1. CASE ShowImage
  BY <1>1 DEF ShowImage, set_image, set_size
<1>2. CASE AskForFirst \/ AskForSecond \/ Letter
  BY <1>2 DEF AskForFirst, AskForSecond, Letter, call_get_next_double_click
<1>3. CASE FirstTrack \/ LaterTrack \/ Enter
  BY <1>3 DEF FirstTrack, LaterTrack, Enter, StartTrack, Continue
<1> QED BY <1>1, <1>2, <1>3 DEF TrackerStep, Console

(* ... of a call, and of the user. *)
LEMMA SizeCall == SizeComesBack /\ Call => SizeComesBack'
<1> SUFFICES ASSUME SizeComesBack, InCall, UNCHANGED videoVars PROVE SizeComesBack'
  BY DEF Call
<1> USE DEF SizeComesBack, window, click, bounds, videoVars
<1>1. CASE WindowMoved
  BY <1>1 DEF WindowMoved
<1>2. CASE WaitForClick \/ NoClick \/ TakeClick
  BY <1>2 DEF WaitForClick, NoClick, TakeClick
<1> QED BY <1>1, <1>2 DEF InCall

LEMMA SizeEvents == SizeComesBack /\ Events => SizeComesBack'
<1> SUFFICES ASSUME SizeComesBack, EventThread, UNCHANGED videoVars
             PROVE SizeComesBack'
  BY DEF Events
<1> USE DEF SizeComesBack, main, window, click, bounds, videoVars
<1>1. CASE CallMoveWindow
  BY <1>1 DEF CallMoveWindow
<1>2. CASE UserResizes
  BY <1>2, WindowAssumption DEF UserResizes
<1>3. CASE OnWindowClose \/ OnImageClicked \/ OnKeydown
  BY <1>3 DEF OnWindowClose, OnImageClicked, OnKeydown
<1> QED BY <1>1, <1>2, <1>3 DEF EventThread

(* Every frame of the video detector starts with a size of the window that the
   user or the program has chosen. *)
THEOREM WindowSizeKept == FairSpec => []WindowKeepsSize
<1>1. SizeComesBack /\ [Next]_vars => SizeComesBack'
  <2>1. ASSUME SizeComesBack, UNCHANGED vars PROVE SizeComesBack'
    BY <2>1 DEF SizeComesBack, vars, windowVars, videoVars, main, window
  <2> QED BY <2>1, SizeVideo, SizeTracker, SizeCall, SizeEvents DEF Next
<1>2. SizeComesBack => WindowKeepsSize
  BY DEF SizeComesBack, WindowKeepsSize
<1> QED BY SizeInit, <1>1, <1>2, PTL DEF FairSpec
-----------------------------------------------------------------------------
(* A click that is still to be handed out is later than all that were. *)
ClicksInOrder ==
  /\ clicks \in Nat
  /\ handed \in Seq(1..clicks)
  /\ \A a, b \in DOMAIN handed : a < b => handed[a] < handed[b]
  /\ have_last_click =>
       /\ last_clicked_point \in 1..clicks
       /\ \A a \in DOMAIN handed : handed[a] < last_clicked_point

HandedOut(point) == \E a \in DOMAIN handed : handed[a] = point
NoneLeft(point) == point = NoPoint /\ window_has_closed

(* Between its two questions the tracker has a click of the past, unless the
   window was closed. *)
CornersInOrder ==
  /\ pc = "ask_for_second" => HandedOut(p) \/ NoneLeft(p)
  /\ pc = "click" /\ ret = "start_track" => HandedOut(p1) \/ NoneLeft(p1)
  /\ pc = "start_track" => p1 \in 1..(p - 1) \/ NoneLeft(p)
  /\ pc = "move_window" => ret \notin {"ask_for_second", "start_track"}
  /\ \A box \in boxes : box[1] \in 1..(box[2] - 1) \/ NoneLeft(box[2])

Drawn == ClicksInOrder /\ CornersInOrder

(* The invariant holds when a program starts ... *)
LEMMA DrawnInit == Init => Drawn
BY DEF Init, WindowInit, TrackerInit, Drawn, ClicksInOrder, CornersInOrder

(* ... through every step that leaves clicks, places and boxes alone ... *)
LEMMA DrawnQuiet ==
  ASSUME Drawn, UNCHANGED <<click, clicks, p1, boxes>>,
         window_has_closed => window_has_closed',
         \/ UNCHANGED <<pc, ret>>
         \/ /\ pc' \notin {"ask_for_second", "click", "start_track"}
            /\ pc' = "move_window" => ret' \notin {"ask_for_second", "start_track"}
  PROVE  Drawn'
<1>1. UNCHANGED <<have_last_click, last_clicked_point, p, handed, clicks, p1, boxes>>
  BY DEF click
<1>2. ClicksInOrder'
  BY <1>1 DEF Drawn, ClicksInOrder
<1>3. \A point : NoneLeft(point) => NoneLeft(point)'
  BY DEF NoneLeft
<1>4. \A box \in boxes' : box[1] \in 1..(box[2] - 1) \/ NoneLeft(box[2])'
  BY <1>1, <1>3 DEF Drawn, CornersInOrder
<1>5. CornersInOrder'
  <2>1. CASE UNCHANGED <<pc, ret>>
    <3>1. pc' = pc /\ ret' = ret /\ p' = p /\ p1' = p1
      BY <1>1, <2>1
    <3>2. (HandedOut(p) \/ NoneLeft(p)) => (HandedOut(p) \/ NoneLeft(p))'
      BY <1>1 DEF HandedOut, NoneLeft
    <3>3. (HandedOut(p1) \/ NoneLeft(p1)) => (HandedOut(p1) \/ NoneLeft(p1))'
      BY <1>1 DEF HandedOut, NoneLeft
    <3>4. (pc = "ask_for_second" => HandedOut(p) \/ NoneLeft(p))'
      <4>1. SUFFICES ASSUME pc = "ask_for_second" PROVE (HandedOut(p) \/ NoneLeft(p))'
        BY <3>1
      <4>2. HandedOut(p) \/ NoneLeft(p)
        BY <4>1 DEF Drawn, CornersInOrder
      <4> QED BY <4>2, <3>2
    <3>5. (pc = "click" /\ ret = "start_track" => HandedOut(p1) \/ NoneLeft(p1))'
      <4>1. SUFFICES ASSUME pc = "click", ret = "start_track"
                     PROVE (HandedOut(p1) \/ NoneLeft(p1))'
        BY <3>1
      <4>2. HandedOut(p1) \/ NoneLeft(p1)
        BY <4>1 DEF Drawn, CornersInOrder
      <4> QED BY <4>2, <3>3
    <3>6. (pc = "start_track" => p1 \in 1..(p - 1) \/ NoneLeft(p))'
      BY <3>1 DEF Drawn, CornersInOrder, NoneLeft
    <3>7. (pc = "move_window" => ret \notin {"ask_for_second", "start_track"})'
      BY <3>1 DEF Drawn, CornersInOrder
    <3> QED BY <1>4, <3>4, <3>5, <3>6, <3>7 DEF CornersInOrder
  <2>2. CASE /\ pc' \notin {"ask_for_second", "click", "start_track"}
             /\ pc' = "move_window" => ret' \notin {"ask_for_second", "start_track"}
    BY <1>4, <2>2 DEF CornersInOrder
  <2> QED BY <2>1, <2>2
<1> QED BY <1>2, <1>5 DEF Drawn

(* ... of the video detector ... *)
LEMMA DrawnVideo == Drawn /\ Video => Drawn'
<1> SUFFICES ASSUME Drawn, VideoStep, UNCHANGED trackerVars PROVE Drawn'
  BY DEF Video
<1> USE DEF main, window, click, bounds, videoVars, trackerVars
<1>1. CASE OpenWindow \/ completeToWindowScaling
  BY <1>1, DrawnQuiet DEF OpenWindow, completeToWindowScaling, set_size
<1>2. CASE GrabFrame \/ NoMoreFrames \/ LeaveLoop \/ NextFrame
  BY <1>2, DrawnQuiet DEF GrabFrame, NoMoreFrames, LeaveLoop, NextFrame, Goto
<1>3. CASE prepareToWindowScaling
  BY <1>3, DrawnQuiet DEF prepareToWindowScaling
<1>4. CASE ShowFrame
  BY <1>4, DrawnQuiet DEF ShowFrame, set_image, set_size
<1>5. CASE AskForClick
  BY <1>5 DEF AskForClick, call_get_next_double_click, Drawn, ClicksInOrder,
              CornersInOrder, HandedOut, NoneLeft
<1> QED BY <1>1, <1>2, <1>3, <1>4, <1>5 DEF VideoStep

(* ... of the tracker ... *)
LEMMA DrawnTracker == Drawn /\ Tracker => Drawn'
<1> SUFFICES ASSUME Drawn, TrackerStep \/ Console PROVE Drawn'
  BY DEF Tracker
<1> USE DEF main, window, click, bounds, trackerVars
<1>1. CASE ShowImage
  BY <1>1, DrawnQuiet DEF ShowImage, set_image, set_size
<1>2. CASE AskForFirst \/ AskForSecond \/ Letter
  BY <1>2 DEF AskForFirst, AskForSecond, Letter, call_get_next_double_click, Drawn,
              ClicksInOrder, CornersInOrder, HandedOut, NoneLeft
<1>3. CASE FirstTrack \/ LaterTrack
  <2>1. pc = "start_track" /\ boxes' = boxes \cup {<<p1, p>>}
        /\ UNCHANGED <<p1, click, clicks, window_has_closed>>
        /\ pc' \in {"cin", "load", "end"}
    BY <1>3 DEF FirstTrack, LaterTrack, StartTrack, Continue
  <2> QED BY <2>1 DEF Drawn, ClicksInOrder, CornersInOrder, HandedOut, NoneLeft
<1>4. CASE Enter
  BY <1>4, DrawnQuiet DEF Enter, Continue
<1> QED BY <1>1, <1>2, <1>3, <1>4 DEF TrackerStep, Console

(* ... of a call, which hands out the last click ... *)
LEMMA DrawnTakeClick ==
  ASSUME Drawn, TakeClick, UNCHANGED <<p1, boxes>> PROVE Drawn'
<1>1. /\ last_clicked_point \in 1..clicks
      /\ p' = last_clicked_point /\ handed' = Append(handed, last_clicked_point)
      /\ have_last_click' = FALSE
      /\ UNCHANGED <<clicks, window_has_closed, ret>>
      /\ pc = "click" /\ pc' = ret /\ ~window_has_closed
  BY DEF TakeClick, Drawn, ClicksInOrder, window, bounds
<1>2. handed \in Seq(1..clicks) /\ clicks \in Nat
  BY DEF Drawn, ClicksInOrder
<1>3. /\ Len(handed) \in Nat /\ DOMAIN handed = 1..Len(handed)
      /\ DOMAIN handed' = 1..(Len(handed) + 1)
      /\ \A a \in DOMAIN handed : handed'[a] = handed[a]
      /\ handed'[Len(handed) + 1] = last_clicked_point
      /\ handed' \in Seq(1..clicks)
  BY <1>1, <1>2
<1>4. \A a \in DOMAIN handed :
        handed[a] \in 1..clicks /\ handed[a] < last_clicked_point
  BY <1>2, <1>3 DEF Drawn, ClicksInOrder, TakeClick
<1>5. ClicksInOrder'
  <2>1. ASSUME NEW a \in DOMAIN handed', NEW b \in DOMAIN handed', a < b
        PROVE handed'[a] < handed'[b]
    <3>1. CASE b = Len(handed) + 1
      BY <1>3, <1>4, <2>1, <3>1
    <3>2. CASE b # Len(handed) + 1
      <4>1. a \in DOMAIN handed /\ b \in DOMAIN handed
        BY <1>3, <2>1, <3>2
      <4> QED BY <1>3, <2>1, <4>1 DEF Drawn, ClicksInOrder
    <3> QED BY <3>1, <3>2
  <2> QED BY <1>1, <1>2, <1>3, <2>1 DEF ClicksInOrder
<1>6. HandedOut(p)'
  BY <1>1, <1>3 DEF HandedOut
<1>7. pc' = "start_track" => (p1 \in 1..(p - 1))'
  BY <1>1, <1>4 DEF Drawn, CornersInOrder, HandedOut, NoneLeft
<1>8. \A box \in boxes' : box[1] \in 1..(box[2] - 1)
  BY <1>1 DEF Drawn, CornersInOrder, NoneLeft
<1>9. CornersInOrder'
  <2>1. pc' = "click" /\ ret' = "start_track" => FALSE
    BY <1>1
  <2>2. pc' = "move_window" => ret' \notin {"ask_for_second", "start_track"}
    BY <1>1
  <2> QED BY <1>6, <1>7, <1>8, <2>1, <2>2 DEF CornersInOrder
<1> QED BY <1>5, <1>9 DEF Drawn

LEMMA DrawnCall == Drawn /\ Call => Drawn'
<1> SUFFICES ASSUME Drawn, InCall, UNCHANGED trackerVars PROVE Drawn'
  BY DEF Call
<1> USE DEF window, click, bounds, trackerVars
<1>1. CASE WindowMoved \/ WaitForClick
  BY <1>1 DEF WindowMoved, WaitForClick, Drawn, ClicksInOrder, CornersInOrder,
              HandedOut, NoneLeft
<1>2. CASE NoClick
  BY <1>2 DEF NoClick, Drawn, ClicksInOrder, CornersInOrder, HandedOut, NoneLeft
<1>3. CASE TakeClick
  BY <1>3, DrawnTakeClick
<1> QED BY <1>1, <1>2, <1>3 DEF InCall

(* ... and of the user. *)
LEMMA DrawnEvents == Drawn /\ Events => Drawn'
<1> SUFFICES ASSUME Drawn, EventThread, UNCHANGED trackerVars PROVE Drawn'
  BY DEF Events
<1> USE DEF main, window, click, bounds, trackerVars
<1>1. CASE CallMoveWindow \/ UserResizes \/ OnWindowClose \/ OnKeydown
  BY <1>1, DrawnQuiet DEF CallMoveWindow, UserResizes, OnWindowClose, OnKeydown
<1>2. CASE OnImageClicked
  <2>1. /\ clicks' = clicks + 1 /\ last_clicked_point' = clicks + 1
        /\ UNCHANGED <<pc, ret, p, p1, boxes, handed, window_has_closed>>
    BY <1>2 DEF OnImageClicked
  <2>2. ClicksInOrder'
    BY <2>1 DEF Drawn, ClicksInOrder
  <2>3. CornersInOrder'
    BY <2>1 DEF Drawn, CornersInOrder, HandedOut, NoneLeft
  <2> QED BY <2>2, <2>3 DEF Drawn
<1> QED BY <1>1, <1>2 DEF EventThread

(* The two corners of every box the tracker follows are clicks of the user in
   their order, none of them used twice, unless the window was closed. *)
THEOREM BoxesHaveTwoClicks == FairSpec => []BoxesAreDrawn
<1>1. Drawn /\ [Next]_vars => Drawn'
  <2>1. ASSUME Drawn, UNCHANGED vars PROVE Drawn'
    BY <2>1, DrawnQuiet DEF vars, windowVars, trackerVars, main, window, click, bounds
  <2> QED BY <2>1, DrawnVideo, DrawnTracker, DrawnCall, DrawnEvents DEF Next
<1>2. Drawn => BoxesAreDrawn
  BY DEF Drawn, ClicksInOrder, CornersInOrder, NoneLeft, BoxesAreDrawn
<1> QED BY DrawnInit, <1>1, <1>2, PTL DEF FairSpec
=============================================================================
