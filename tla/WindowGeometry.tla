--------------------------- MODULE WindowGeometry ---------------------------
(***************************************************************************)
(* The arithmetic of src/browser/thrust_window_views.cc,                   *)
(* src/browser/thrust_window_mac.mm and                                    *)
(* src/browser/ui/views/frameless_view.cc: where a window is after a move  *)
(* or a resize, and what a click on a frameless window hits.               *)
(*                                                                         *)
(* On Views a rectangle has its origin in the upper left corner and grows  *)
(* downwards; on the Mac a frame has it in the lower left corner of the    *)
(* window, above the lower left corner of the screen.                      *)
(***************************************************************************)
EXTENDS Integers, ThrustWindow

CONSTANTS
  ScreenHeight,   \* of the first screen, in the Mac's points
  Coordinates,    \* where windows and the areas of a page are
  Lengths         \* how wide and high they are

ASSUME GeometryAssumption ==
  ScreenHeight \in Int /\ Coordinates \subseteq Int /\ Lengths \subseteq Nat

Rect(x, y, w, h) == [x |-> x, y |-> y, w |-> w, h |-> h]
Size(w, h) == [w |-> w, h |-> h]

-----------------------------------------------------------------------------
(* Views. *)
ViewsMove(b, x, y)   == Rect(x, y, b.w, b.h)
ViewsResize(b, w, h) == Rect(b.x, b.y, w, h)
ViewsPosition(b)     == <<b.x, b.y>>
ViewsSize(b)         == Size(b.w, b.h)

\* With a frame too: the size that the window would need for the content
\* (new_size) is computed and not used.
ViewsSetContentSize(b, w, h) == ViewsResize(b, w, h)

\* chrome is what the frame view leaves around the client view.
ViewsContentSize(b, chrome, hasFrame) ==
  IF hasFrame THEN Size(b.w - chrome.w, b.h - chrome.h) ELSE ViewsSize(b)

\* Mac: top and height swap roles, the lower edge is what a frame stores.
MacResize_KeepsLowerEdge(f, w, h) == Rect(f.x, f.y, w, h)

MacMove(f, x, y)     == Rect(x, ScreenHeight - y - f.h, f.w, f.h)
MacResize(f, w, h)   == Rect(f.x, (f.y + f.h) - h, w, h)
MacPosition(f)       == <<f.x, ScreenHeight - f.y - f.h>>
MacSize(f)           == Size(f.w, f.h)

\* The frame for a content of w by h; chrome is what the frame adds.
MacSetContentSize(f, chrome, w, h) ==
  LET width  == w + chrome.w
      height == h + chrome.h
  IN  [f EXCEPT !.y = f.y - (height - f.h), !.w = width, !.h = height]

MacContentSize(f, chrome) == Size(f.w - chrome.w, f.h - chrome.h)

\* A new window that fits on the screen.  Views centres its frame, if nothing
\* else takes room on the screen (CenterWindow).  The Mac centres its content,
\* rounding, and if it has a frame resizes that to the size asked for.
ViewsInitial(screen, w, h) ==
  Rect((screen.w - w) \div 2, (screen.h - h) \div 2, w, h)

RoundedHalf(n) == (n + 1) \div 2

MacInitial(screen, chrome, hasFrame, w, h) ==
  LET f == Rect(RoundedHalf(screen.w - w), RoundedHalf(screen.h - h),
                w + chrome.w, h + chrome.h)
  IN  IF hasFrame THEN MacResize(f, w, h) ELSE f

\* The rectangle on Views that covers what the frame covers on the Mac.
AsViews(f) == Rect(f.x, ScreenHeight - f.y - f.h, f.w, f.h)

-----------------------------------------------------------------------------
(* The draggable region of a frameless window. *)
RectContains(b, p) ==
  /\ b.x <= p.x /\ p.x < b.x + b.w
  /\ b.y <= p.y /\ p.y < b.y + b.h

\* Whether p is in the region after the first k of the page's areas have
\* been added to it or taken from it.
DraggableRegion(areas, p) ==
  LET In[k \in 0..Len(areas)] ==
        IF k = 0 THEN FALSE
        ELSE IF areas[k].draggable
             THEN In[k - 1] \/ RectContains(areas[k].bounds, p)
             ELSE In[k - 1] /\ ~RectContains(areas[k].bounds, p)
  IN  In[Len(areas)]

\* A border of the given thickness inside a window of w by h.
OnBorder(p, border, w, h) ==
  ~RectContains(Rect(border, border, w - 2 * border, h - 2 * border), p)

ResizingBorderHitTest(p, s, w, h) ==
  LET border == IF s.maximized \/ s.fullscreen THEN 0 ELSE s.border
  IN  IF OnBorder(p, border, w, h) THEN "border" ELSE "nowhere"

NonClientHitTest(areas, p, s, w, h) ==
  IF s.fullscreen THEN "client"
  ELSE IF DraggableRegion(areas, p) THEN "caption"
  ELSE IF ResizingBorderHitTest(p, s, w, h) # "nowhere" THEN "border"
  ELSE "client"

\* Whether a click is for the page and not for the window.
ShouldDescend_IgnoresRegion(areas, p, s, w, h) ==
  ResizingBorderHitTest(p, s, w, h) = "nowhere"

ShouldDescend(areas, p, s, w, h) ==
  /\ ~DraggableRegion(areas, p)
  /\ ResizingBorderHitTest(p, s, w, h) = "nowhere"

-----------------------------------------------------------------------------
Rects == {Rect(x, y, w, h) : x \in Coordinates, y \in Coordinates,
                             w \in Lengths, h \in Lengths}

\* The Mac counts upwards from the lower edge of the screen and of a window;
\* a client that moves or resizes a window cannot tell: the same call covers
\* the same part of the screen, and position and size answer the same.
CallsAgree ==
  \A f \in Rects, a, b \in Coordinates, w, h \in Lengths :
    /\ AsViews(MacMove(f, a, b)) = ViewsMove(AsViews(f), a, b)
    /\ AsViews(MacResize(f, w, h)) = ViewsResize(AsViews(f), w, h)
    /\ MacPosition(f) = ViewsPosition(AsViews(f))
    /\ MacSize(f) = ViewsSize(AsViews(f))

\* A new window has the size the client asked for, frame included, on both
\* platforms; without a frame the Mac's is larger by what a frame would add.
\* It is in the same place but for the rounding of a half point, and higher on
\* the Mac by the height of the frame.
CreatedAsAsked ==
  \A sw, cw, ch, w, h \in Lengths, hasFrame \in BOOLEAN :
    LET screen == Size(sw, ScreenHeight)
        mac    == MacInitial(screen, Size(cw, ch), hasFrame, w, h)
        views  == ViewsInitial(screen, w, h)
    IN  w <= sw /\ h <= ScreenHeight =>
          /\ ViewsSize(views) = Size(w, h)
          /\ MacSize(mac) = IF hasFrame THEN Size(w, h) ELSE Size(w + cw, h + ch)
          /\ MacPosition(mac)[1] - ViewsPosition(views)[1] = (sw - w) % 2
          /\ MacPosition(mac)[2] = ViewsPosition(views)[2] - ch

\* The upper left corner of a window stays where it is when the size of its
\* content is set.  On the Mac, and on Views without a frame, the content then
\* has that size; on Views with a frame it is the window that gets it, and the
\* content is smaller than the Mac's unless the frame takes no room.
ContentSizeSet ==
  \A f \in Rects, cw, ch, w, h \in Lengths :
    LET chrome == Size(cw, ch)
        mac    == MacSetContentSize(f, chrome, w, h)
        views  == ViewsSetContentSize(AsViews(f), w, h)
    IN  /\ MacPosition(mac) = MacPosition(f)
        /\ ViewsPosition(views) = MacPosition(f)
        /\ MacContentSize(mac, chrome) = Size(w, h)
        /\ ViewsContentSize(views, chrome, FALSE) = Size(w, h)
        /\ ViewsSize(views) = Size(w, h)
        /\ ViewsContentSize(views, chrome, TRUE) = Size(w - cw, h - ch)

\* The Mac's windows are to the client what those of Views are, but for the
\* place of a new one and the two sizes in which the code differs.
PlatformsAgree ==
  platform = "mac" => CallsAgree /\ CreatedAsAsked /\ ContentSizeSet

Areas == [bounds : {Rect(x, 0, w, 2) : x \in Coordinates, w \in Lengths},
          draggable : BOOLEAN]

Points == {[x |-> x, y |-> 0] : x \in Coordinates}

\* Pages nest areas that drag and areas that do not: whether a point drags
\* the window is for the last area around it to say.
LastAreaWins ==
  \A a, b, c \in Areas, p \in Points :
    LET areas  == <<a, b, c>>
        around == {k \in 1..3 : RectContains(areas[k].bounds, p)}
    IN  DraggableRegion(areas, p) <=>
          \E k \in around : areas[k].draggable /\ \A j \in around : j <= k

\* Two callbacks of the toolkit decide whose a click on a frameless window
\* is: the one that says whether the page sees it, the other what part of the
\* window it hit.  Outside of fullscreen they say the same.
ClicksHaveOneOwner ==
  \A a, b \in Areas, p \in Points, maximized \in BOOLEAN, w \in Lengths :
    LET s == [maximized |-> maximized, fullscreen |-> FALSE, border |-> 1]
    IN  RectContains(Rect(0, 0, w, 4), p) =>
          (ShouldDescend(<<a, b>>, p, s, w, 4) <=>
             NonClientHitTest(<<a, b>>, p, s, w, 4) = "client")

\* Every click is either for the window or for the page, as the page's areas
\* say, in whatever order and however nested it gave them.  (Draggable areas
\* are the shell's own work on Views only.)
ClicksDecided == platform = "views" => LastAreaWins /\ ClicksHaveOneOwner
=============================================================================
