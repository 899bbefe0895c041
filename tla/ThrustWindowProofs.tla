------------------------- MODULE ThrustWindowProofs -------------------------
(* What the client of src/browser/thrust_window.cc knows of its windows, for *)
(* any number of windows, on either platform and for any sequence of calls   *)
(* and events; and the arithmetic of the two platforms, for every screen,    *)
(* window and call.                                                          *)
EXTENDS WindowGeometry, ListLemmas

\* A window whose binding is there has told its end exactly when the native
\* window is gone; on the Mac that is when is_closed_ is set.  A window that
\* is not bound (yet, or any more) has neither a native window nor a page.
ClosingSound(x) ==
  /\ x.bound <=> x.obj = "live"
  /\ ~x.bound => ~x.native /\ ~x.contents
  /\ x.page # "idle" => x.contents
  /\ x.closed => ~x.native
  /\ platform = "mac" /\ x.bound /\ ~x.native => x.closed
  /\ x.toldClosed <= 1
  /\ x.bound => (x.native <=> x.toldClosed = 0)

\* What the client heard last is true.
EventsSound(x) ==
  /\ x.bound /\ x.contents => x.toldHung = x.hung
  /\ x.bound /\ x.contents /\ x.native => x.toldActive = x.active

\* No window survives its contents.
WindowSound(x) ==
  /\ ClosingSound(x) /\ EventsSound(x)
  /\ x.bound /\ ~x.contents => x.closed

WindowsSound == \A w \in Windows : WindowSound(win[w])

\* The inductive invariant.  A null pointer is only reached in a window that
\* has told its end, and no step follows it.
IInv ==
  /\ TypeOK
  /\ WindowsSound
  /\ crashed # NoWindow => win[crashed].toldClosed > 0
  /\ InstancesExact
-----------------------------------------------------------------------------
\* Two states of a window that agree on its life, or on all but its end.
SameLife(x, y) ==
  /\ y.obj = x.obj /\ y.bound = x.bound /\ y.contents = x.contents
  /\ y.closed = x.closed /\ y.native = x.native /\ y.page = x.page
  /\ y.hung = x.hung /\ y.toldClosed = x.toldClosed
  /\ y.toldHung = x.toldHung

SameEnd(x, y) ==
  /\ y.obj = x.obj /\ y.bound = x.bound /\ y.contents = x.contents
  /\ y.hung = x.hung /\ y.toldHung = x.toldHung /\ y.toldActive = x.toldActive

LEMMA EmitClosedFields ==
  ASSUME NEW x \in Window, x.toldClosed <= 1
  PROVE  LET y == EmitClosed(x)
         IN  /\ y \in Window /\ SameEnd(x, y)
             /\ y.closed = x.closed /\ y.native = x.native /\ y.page = x.page
             /\ y.active = x.active
             /\ x.bound => y.toldClosed = x.toldClosed + 1
             /\ ~x.bound => y.toldClosed = x.toldClosed
  BY DEF Window, EmitClosed, SameEnd

LEMMA AskPageFields ==
  ASSUME NEW x \in Window
  PROVE  LET y == AskPage(x)
         IN  /\ y \in Window /\ SameEnd(x, y)
             /\ y.closed = x.closed /\ y.native = x.native
             /\ y.active = x.active /\ y.toldClosed = x.toldClosed
  BY Zenon DEF Window, AskPage, SameEnd

LEMMA SetClosedFields ==
  ASSUME NEW x \in Window
  PROVE  LET y == [x EXCEPT !.closed = TRUE]
         IN  /\ y \in Window /\ SameEnd(x, y)
             /\ y.closed /\ y.native = x.native /\ y.page = x.page
             /\ y.active = x.active /\ y.toldClosed = x.toldClosed
  BY Zenon DEF Window, SameEnd

LEMMA HideFields ==
  ASSUME NEW x \in Window
  PROVE  LET y == [x EXCEPT !.native = FALSE, !.shown = FALSE, !.active = FALSE]
         IN  /\ y \in Window /\ SameEnd(x, y)
             /\ y.closed = x.closed /\ ~y.native /\ y.page = x.page
             /\ y.toldClosed = x.toldClosed
  BY Zenon DEF Window, SameEnd

LEMMA DestroyWebContentsFields ==
  ASSUME NEW x \in Window
  PROVE  LET y == DestroyWebContents(x)
         IN  /\ y \in Window
             /\ y.obj = x.obj /\ y.bound = x.bound /\ ~y.contents
             /\ y.closed = x.closed /\ y.native = x.native /\ y.page = "idle"
             /\ y.active = x.active /\ y.toldActive = x.toldActive
             /\ y.toldClosed = x.toldClosed
  BY Zenon DEF Window, DestroyWebContents

LEMMA DeleteDelegateFields ==
  ASSUME NEW x \in Window, x.toldClosed <= 1
  PROVE  LET y == DeleteDelegate(x)
         IN  /\ y \in Window /\ SameEnd(x, y)
             /\ y.native = x.native /\ y.active = x.active
             /\ x.contents => y.closed = x.closed
             /\ ~x.contents => y.closed /\ y.page = x.page
             /\ x.bound => y.toldClosed = x.toldClosed + 1
             /\ ~x.bound => y.toldClosed = x.toldClosed
<1> DEFINE told == EmitClosed(x)
<1>1. /\ told \in Window /\ SameEnd(x, told)
      /\ told.closed = x.closed /\ told.native = x.native /\ told.page = x.page
      /\ told.active = x.active
      /\ x.bound => told.toldClosed = x.toldClosed + 1
      /\ ~x.bound => told.toldClosed = x.toldClosed
  BY EmitClosedFields
<1>2. DeleteDelegate(x) = IF x.contents THEN AskPage(told)
                          ELSE [told EXCEPT !.closed = TRUE]
  BY DEF DeleteDelegate
<1> HIDE DEF told
<1>3. CASE x.contents
<2>1. LET y == AskPage(told)
      IN  /\ y \in Window /\ SameEnd(told, y)
          /\ y.closed = told.closed /\ y.native = told.native
          /\ y.active = told.active /\ y.toldClosed = told.toldClosed
  BY <1>1, AskPageFields
<2>2. DeleteDelegate(x) = AskPage(told)
  BY <1>2, <1>3
<2>3. QED
  BY <1>1, <1>3, <2>1, <2>2 DEF SameEnd
<1>4. CASE ~x.contents
<2> DEFINE y == [told EXCEPT !.closed = TRUE]
<2>1. /\ y \in Window /\ SameEnd(told, y)
      /\ y.closed /\ y.page = told.page /\ y.native = told.native
      /\ y.active = told.active /\ y.toldClosed = told.toldClosed
  BY <1>1, SetClosedFields
<2>2. DeleteDelegate(x) = y
  BY <1>2, <1>4
<2> HIDE DEF y
<2>3. SameEnd(x, y)
  BY <1>1, <2>1 DEF SameEnd
<2>4. QED
  BY <1>1, <1>4, <2>1, <2>2, <2>3
<1>5. QED
  BY <1>3, <1>4

\* Whoever closes a window at once, it ends closed and off the screen, and
\* emits "closed" exactly when it was on the screen.
LEMMA CloseImmediatelyFields ==
  ASSUME platform \in {"views", "mac"},
         NEW x \in Window, x.toldClosed <= 1, x.closed => ~x.native,
         platform = "mac" /\ x.bound /\ ~x.native => x.closed
  PROVE  LET y == CloseImmediately(x)
         IN  /\ y \in Window /\ SameEnd(x, y)
             /\ y.closed /\ ~y.native
             /\ ~x.contents => y.page = x.page
             /\ x.bound /\ x.native => y.toldClosed = x.toldClosed + 1
             /\ ~(x.bound /\ x.native) => y.toldClosed = x.toldClosed
<1>1. CASE x.closed
  BY <1>1 DEF CloseImmediately, SameEnd
<1> DEFINE c == [x EXCEPT !.closed = TRUE]
           h == [c EXCEPT !.native = FALSE, !.shown = FALSE, !.active = FALSE]
<1>2. /\ c \in Window /\ SameEnd(x, c)
      /\ c.closed /\ c.native = x.native /\ c.page = x.page
      /\ c.active = x.active /\ c.toldClosed = x.toldClosed
  BY SetClosedFields
<1>3. ~x.closed => CloseImmediately(x) = PlatformCloseImmediately(c)
  BY DEF CloseImmediately
<1>4. /\ h \in Window /\ SameEnd(c, h)
      /\ h.closed = c.closed /\ ~h.native /\ h.page = c.page
      /\ h.toldClosed = c.toldClosed
<2> HIDE DEF c
<2>1. QED
  BY <1>2, HideFields
<1>5. /\ PlatformCloseImmediately(c) =
           IF platform = "views" THEN IF c.native THEN DeleteDelegate(h) ELSE c
                                 ELSE EmitClosed(h)
  BY DEF PlatformCloseImmediately, ViewsCloseImmediately, MacCloseImmediately,
         windowWillClose
<1> HIDE DEF c, h
<1>6. /\ h \in Window /\ SameEnd(x, h) /\ h.closed /\ ~h.native
      /\ h.page = x.page /\ h.toldClosed = x.toldClosed
  BY <1>2, <1>4 DEF SameEnd
<1>7. CASE ~x.closed /\ platform = "views" /\ x.native
<2>1. LET y == DeleteDelegate(h)
      IN  /\ y \in Window /\ SameEnd(h, y)
          /\ y.native = h.native
          /\ h.contents => y.closed = h.closed
          /\ ~h.contents => y.closed /\ y.page = h.page
          /\ h.bound => y.toldClosed = h.toldClosed + 1
          /\ ~h.bound => y.toldClosed = h.toldClosed
  BY <1>6, DeleteDelegateFields
<2>2. CloseImmediately(x) = DeleteDelegate(h)
  BY <1>2, <1>3, <1>5, <1>7
<2>3. QED
  BY <1>6, <1>7, <2>1, <2>2 DEF SameEnd
<1>8. CASE ~x.closed /\ platform = "views" /\ ~x.native
<2>1. CloseImmediately(x) = c
  BY <1>2, <1>3, <1>5, <1>8
<2>2. QED
  BY <1>2, <1>8, <2>1
<1>9. CASE ~x.closed /\ platform = "mac"
<2>1. LET y == EmitClosed(h)
      IN  /\ y \in Window /\ SameEnd(h, y)
          /\ y.closed = h.closed /\ y.native = h.native /\ y.page = h.page
          /\ h.bound => y.toldClosed = h.toldClosed + 1
          /\ ~h.bound => y.toldClosed = h.toldClosed
  BY <1>6, EmitClosedFields
<2>2. CloseImmediately(x) = EmitClosed(h)
  BY <1>3, <1>5, <1>9
<2>3. QED
  BY <1>6, <1>9, <2>1, <2>2 DEF SameEnd
<1>10. QED
  BY <1>1, <1>7, <1>8, <1>9

LEMMA CloseContentsSound ==
  ASSUME platform \in {"views", "mac"},
         NEW x \in Window, WindowSound(x), x.contents
  PROVE  /\ CloseContents(x) \in Window /\ WindowSound(CloseContents(x))
         /\ CloseContents(x).obj = x.obj
<1> DEFINE d == DestroyWebContents(x)
           y == CloseImmediately(d)
<1>1. /\ d \in Window
      /\ d.obj = x.obj /\ d.bound = x.bound /\ ~d.contents
      /\ d.closed = x.closed /\ d.native = x.native /\ d.page = "idle"
      /\ d.active = x.active /\ d.toldActive = x.toldActive
      /\ d.toldClosed = x.toldClosed
  BY DestroyWebContentsFields
<1>2. CloseContents(x) = y
  BY DEF CloseContents
<1> HIDE DEF d
<1>3. /\ d.toldClosed <= 1 /\ (d.closed => ~d.native)
      /\ platform = "mac" /\ d.bound /\ ~d.native => d.closed
  BY <1>1 DEF WindowSound, ClosingSound
<1>4. /\ y \in Window /\ SameEnd(d, y)
      /\ y.closed /\ ~y.native
      /\ ~d.contents => y.page = d.page
      /\ d.bound /\ d.native => y.toldClosed = d.toldClosed + 1
      /\ ~(d.bound /\ d.native) => y.toldClosed = d.toldClosed
  BY <1>1, <1>3, CloseImmediatelyFields
<1> HIDE DEF y
<1>5. /\ y.bound = x.bound /\ y.obj = x.obj /\ ~y.contents /\ y.page = "idle"
  BY <1>1, <1>4 DEF SameEnd
<1>6. x.bound
  BY DEF WindowSound, ClosingSound
<1>7. y.toldClosed = 1
  BY <1>1, <1>4, <1>6 DEF WindowSound, ClosingSound, Window
<1>8. QED
  BY <1>2, <1>4, <1>5, <1>6, <1>7 DEF WindowSound, ClosingSound, EventsSound

LEMMA CloseSound ==
  ASSUME NEW x \in Window, WindowSound(x), x.bound
  PROVE  /\ Close(x) \in Window /\ WindowSound(Close(x))
         /\ Close(x).obj = x.obj
<1>1. CASE x.contents
<2>1. LET y == AskPage(x)
      IN  /\ y \in Window /\ SameEnd(x, y)
          /\ y.closed = x.closed /\ y.native = x.native
          /\ y.active = x.active /\ y.toldClosed = x.toldClosed
  BY AskPageFields
<2>2. Close(x) = AskPage(x)
  BY <1>1 DEF Close
<2>3. QED
  BY <1>1, <2>1, <2>2
  DEF WindowSound, ClosingSound, EventsSound, SameEnd
<1>2. CASE ~x.contents
<2>1. x.closed
  BY <1>2 DEF WindowSound
<2>2. Close(x) = x
  BY <1>2, <2>1 DEF Close, CloseImmediately
<2>3. QED
  BY <2>2
<1>3. QED
  BY <1>1, <1>2

LEMMA DeleteSound ==
  ASSUME platform \in {"views", "mac"},
         NEW x \in Window, WindowSound(x), x.bound
  PROVE  LET y == CloseImmediately([x EXCEPT !.bound = FALSE])
             z == [DestroyWebContents(y) EXCEPT !.obj = "freed"]
         IN  /\ z \in Window /\ WindowSound(z)
             /\ z.obj = "freed" /\ z.toldClosed = x.toldClosed
<1> DEFINE u == [x EXCEPT !.bound = FALSE]
           y == CloseImmediately(u)
           d == DestroyWebContents(y)
           z == [d EXCEPT !.obj = "freed"]
<1>1. /\ u \in Window /\ ~u.bound /\ u.contents = x.contents
      /\ u.closed = x.closed /\ u.native = x.native /\ u.page = x.page
      /\ u.toldClosed = x.toldClosed
  BY Zenon DEF Window
<1>2. /\ u.toldClosed <= 1 /\ (u.closed => ~u.native)
<2> HIDE DEF u
<2>1. QED
  BY <1>1 DEF WindowSound, ClosingSound
<1>3. /\ y \in Window /\ SameEnd(u, y) /\ y.closed /\ ~y.native
      /\ y.toldClosed = u.toldClosed
<2> HIDE DEF u
<2>1. QED
  BY <1>1, <1>2, CloseImmediatelyFields
<1>4. /\ d \in Window /\ d.bound = y.bound /\ ~d.contents
      /\ d.native = y.native /\ d.page = "idle" /\ d.toldClosed = y.toldClosed
<2> HIDE DEF y
<2>1. QED
  BY <1>3, DestroyWebContentsFields
<1>5. /\ z \in Window /\ z.obj = "freed" /\ z.bound = d.bound
      /\ z.contents = d.contents /\ z.native = d.native
      /\ z.page = d.page /\ z.toldClosed = d.toldClosed
<2> HIDE DEF d
<2>1. QED
  BY <1>4, Zenon DEF Window
<1> HIDE DEF u, y, d, z
<1>6. /\ ~z.bound /\ ~z.contents /\ ~z.native /\ z.page = "idle"
      /\ z.toldClosed = x.toldClosed
  BY <1>1, <1>3, <1>4, <1>5 DEF SameEnd
<1>7. x.toldClosed <= 1
  BY DEF WindowSound, ClosingSound
<1>8. WindowSound(z)
  BY <1>5, <1>6, <1>7 DEF WindowSound, ClosingSound, EventsSound
<1>9. QED
  BY <1>5, <1>6, <1>8 DEF z, d, y, u

\* What a method of the native window, the user's activation or the page's
\* state may change: never the life of the window.
LEMMA SameLifeSound ==
  ASSUME NEW x \in Window, WindowSound(x), NEW y \in Window, SameLife(x, y),
         x.bound /\ x.contents /\ x.native => y.toldActive = y.active
  PROVE  WindowSound(y)
  BY DEF WindowSound, ClosingSound, EventsSound, SameLife

LEMMA ActivationFields ==
  ASSUME NEW x \in Window, NEW a \in BOOLEAN
  PROVE  /\ LET y == ViewsActivation(x, a)
            IN  /\ y \in Window /\ SameLife(x, y)
                /\ x.bound => y.toldActive = y.active
         /\ LET y == MacActivation(x, a)
            IN  /\ y \in Window /\ SameLife(x, y)
                /\ x.bound /\ x.contents => y.toldActive = y.active
<1>1. LET y == ViewsActivation(x, a)
      IN  /\ y \in Window /\ SameLife(x, y)
          /\ x.bound => y.toldActive = y.active
  BY Zenon DEF Window, ViewsActivation, SameLife
<1>2. LET y == MacActivation(x, a)
      IN  /\ y \in Window /\ SameLife(x, y)
          /\ x.bound /\ x.contents => y.toldActive = y.active
  BY Zenon DEF Window, MacActivation, SameLife
<1>3. QED
  BY <1>1, <1>2

LEMMA ViewsMethodFields ==
  ASSUME NEW x \in Window, NEW method \in NativeMethods
  PROVE  LET y == ViewsMethod(method, x)
         IN  /\ y \in Window /\ SameLife(x, y)
             /\ \/ x.bound => y.toldActive = y.active
                \/ y.toldActive = x.toldActive /\ y.active = x.active
<1>1. CASE method \in {"focus", "blur"}
<2>1. \E a \in BOOLEAN : ViewsMethod(method, x) = ViewsActivation(x, a)
  BY <1>1 DEF ViewsMethod
<2>2. QED
  BY <2>1, ActivationFields
<1>2. CASE method = "resize"
  BY <1>2 DEF ViewsMethod, SameLife
<1>3. CASE method = "show"
<2>1. ViewsMethod(method, x) = [x EXCEPT !.shown = TRUE]
  BY <1>3 DEF ViewsMethod
<2>2. QED
  BY <2>1, Zenon DEF Window, SameLife
<1>4. CASE method = "maximize"
<2>1. ViewsMethod(method, x) = [x EXCEPT !.maximized = TRUE, !.minimized = FALSE]
  BY <1>4 DEF ViewsMethod
<2>2. QED
  BY <2>1, Zenon DEF Window, SameLife
<1>5. CASE method \in {"unmaximize", "restore"}
<2>1. ViewsMethod(method, x) = [x EXCEPT !.maximized = FALSE, !.minimized = FALSE]
  BY <1>5 DEF ViewsMethod
<2>2. QED
  BY <2>1, Zenon DEF Window, SameLife
<1>6. CASE method = "minimize"
<2>1. ViewsMethod(method, x) = [x EXCEPT !.minimized = TRUE]
  BY <1>6 DEF ViewsMethod
<2>2. QED
  BY <2>1, Zenon DEF Window, SameLife
<1>7. CASE method \in {"fullscreen", "kiosk"}
<2>1. ViewsMethod(method, x) = [x EXCEPT !.fullscreen = TRUE]
  BY <1>7 DEF ViewsMethod
<2>2. QED
  BY <2>1, Zenon DEF Window, SameLife
<1>8. CASE method \in {"unfullscreen", "unkiosk"}
<2>1. ViewsMethod(method, x) = [x EXCEPT !.fullscreen = FALSE]
  BY <1>8 DEF ViewsMethod
<2>2. QED
  BY <2>1, Zenon DEF Window, SameLife
<1>9. QED
  BY <1>1, <1>2, <1>3, <1>4, <1>5, <1>6, <1>7, <1>8 DEF NativeMethods

LEMMA MacMethodFields ==
  ASSUME NEW x \in Window, NEW method \in NativeMethods
  PROVE  LET y == MacMethod(method, x)
         IN  /\ y \in Window /\ SameLife(x, y)
             /\ \/ x.bound /\ x.contents => y.toldActive = y.active
                \/ y.toldActive = x.toldActive /\ y.active = x.active
<1>1. CASE method \in {"resize", "blur"}
  BY <1>1 DEF MacMethod, SameLife
<1>2. CASE method \in {"show", "focus"}
<2> DEFINE u == [x EXCEPT !.shown = TRUE]
<2>1. /\ u \in Window /\ SameLife(x, u)
  BY Zenon DEF Window, SameLife
<2>2. MacMethod(method, x) = MacActivation(u, TRUE)
  BY <1>2 DEF MacMethod
<2> HIDE DEF u
<2>3. LET y == MacActivation(u, TRUE)
      IN  /\ y \in Window /\ SameLife(u, y)
          /\ u.bound /\ u.contents => y.toldActive = y.active
  BY <2>1, ActivationFields
<2>4. QED
  BY <2>1, <2>2, <2>3 DEF SameLife
<1>3. CASE method \in {"maximize", "unmaximize"}
<2>1. MacMethod(method, x) = [x EXCEPT !.maximized = ~@]
  BY <1>3 DEF MacMethod
<2>2. QED
  BY <2>1, Zenon DEF Window, SameLife
<1>4. CASE method = "minimize"
<2>1. MacMethod(method, x) = [x EXCEPT !.minimized = TRUE]
  BY <1>4 DEF MacMethod
<2>2. QED
  BY <2>1, Zenon DEF Window, SameLife
<1>5. CASE method = "restore"
<2>1. MacMethod(method, x) = [x EXCEPT !.minimized = FALSE]
  BY <1>5 DEF MacMethod
<2>2. QED
  BY <2>1, Zenon DEF Window, SameLife
<1>6. CASE method \in {"fullscreen", "unfullscreen"}
<2>1. \E b \in BOOLEAN : MacMethod(method, x) = [x EXCEPT !.fullscreen = b]
  BY <1>6 DEF MacMethod
<2>2. QED
  BY <2>1, Zenon DEF Window, SameLife
<1>7. CASE method \in {"kiosk", "unkiosk"}
<2>1. \E b \in BOOLEAN : MacMethod(method, x) = MacSetKiosk(b, x)
  BY <1>7 DEF MacMethod
<2>2. PICK b \in BOOLEAN : MacMethod(method, x) = MacSetKiosk(b, x)
  BY <2>1
<2>3. CASE b = x.kiosk
  BY <2>2, <2>3 DEF MacSetKiosk, SameLife
<2>4. CASE b # x.kiosk
<3>1. MacMethod(method, x) = [x EXCEPT !.kiosk = b, !.fullscreen = b]
  BY <2>2, <2>4 DEF MacSetKiosk
<3>2. QED
  BY <3>1, Zenon DEF Window, SameLife
<2>5. QED
  BY <2>3, <2>4
<1>8. QED
  BY <1>1, <1>2, <1>3, <1>4, <1>5, <1>6, <1>7 DEF NativeMethods

LEMMA MethodSound ==
  ASSUME platform \in {"views", "mac"},
         NEW x \in Window, WindowSound(x), NEW method \in NativeMethods
  PROVE  /\ PlatformMethod(method, x) \in Window
         /\ WindowSound(PlatformMethod(method, x))
         /\ PlatformMethod(method, x).toldClosed = x.toldClosed
         /\ PlatformMethod(method, x).obj = x.obj
<1>1. CASE platform = "mac"
<2>1. PlatformMethod(method, x) = MacMethod(method, x)
  BY <1>1 DEF PlatformMethod
<2>2. LET y == MacMethod(method, x)
      IN  /\ y \in Window /\ SameLife(x, y)
          /\ \/ x.bound /\ x.contents => y.toldActive = y.active
             \/ y.toldActive = x.toldActive /\ y.active = x.active
  BY MacMethodFields
<2>3. x.bound /\ x.contents /\ x.native => x.toldActive = x.active
  BY DEF WindowSound, EventsSound
<2>4. WindowSound(MacMethod(method, x))
  BY <2>2, <2>3, SameLifeSound
<2>5. QED
  BY <2>1, <2>2, <2>4 DEF SameLife
<1>2. CASE platform = "views" /\ x.native
<2>1. PlatformMethod(method, x) = ViewsMethod(method, x)
  BY <1>2 DEF PlatformMethod
<2>2. LET y == ViewsMethod(method, x)
      IN  /\ y \in Window /\ SameLife(x, y)
          /\ \/ x.bound => y.toldActive = y.active
             \/ y.toldActive = x.toldActive /\ y.active = x.active
  BY ViewsMethodFields
<2>3. x.bound /\ x.contents /\ x.native => x.toldActive = x.active
  BY DEF WindowSound, EventsSound
<2>4. WindowSound(ViewsMethod(method, x))
  BY <2>2, <2>3, SameLifeSound
<2>5. QED
  BY <2>1, <2>2, <2>4 DEF SameLife
<1>3. CASE platform = "views" /\ ~x.native
<2>1. PlatformMethod(method, x) = x
  BY <1>3 DEF PlatformMethod
<2>2. QED
  BY <2>1
<1>4. QED
  BY <1>1, <1>2, <1>3

LEMMA ContentMethodSound ==
  ASSUME NEW x \in Window, WindowSound(x), NEW method
  PROVE  /\ ContentMethod(method, x) \in Window
         /\ WindowSound(ContentMethod(method, x))
         /\ ContentMethod(method, x).toldClosed = x.toldClosed
         /\ ContentMethod(method, x).obj = x.obj
<1>1. \/ ContentMethod(method, x) = x
      \/ \E b \in BOOLEAN : ContentMethod(method, x) = [x EXCEPT !.devtools = b]
  BY DEF ContentMethod
<1>2. CASE ContentMethod(method, x) = x
  BY <1>2
<1>3. CASE \E b \in BOOLEAN : ContentMethod(method, x) = [x EXCEPT !.devtools = b]
<2>1. /\ ContentMethod(method, x) \in Window
      /\ SameLife(x, ContentMethod(method, x))
      /\ ContentMethod(method, x).toldActive = x.toldActive
      /\ ContentMethod(method, x).active = x.active
  BY <1>3, Zenon DEF Window, SameLife
<2>2. x.bound /\ x.contents /\ x.native => x.toldActive = x.active
  BY DEF WindowSound, EventsSound
<2>3. QED
  BY <2>1, <2>2, SameLifeSound DEF SameLife
<1>4. QED
  BY <1>1, <1>2, <1>3

-----------------------------------------------------------------------------
(* The steps. *)
LEMMA PlatformIsOne == TypeOK => platform \in {"views", "mac"}
  BY WindowAssumption DEF TypeOK

\* A step that gives one window a new sound state keeps all sound.
LEMMA UpdateSound ==
  ASSUME TypeOK, WindowsSound, NEW w \in Windows,
         NEW y \in Window, WindowSound(y),
         win' = [win EXCEPT ![w] = y], platform' = platform
  PROVE  win' \in [Windows -> Window] /\ WindowsSound'
<1>1. win \in [Windows -> Window]
  BY DEF TypeOK
<1>2. win' \in [Windows -> Window]
  BY <1>1
<1>3. ASSUME NEW v \in Windows
      PROVE  WindowSound(win[v])'
<2>1. WindowSound(win[v]) /\ WindowSound(y)
  BY DEF WindowsSound
<2>2. win'[v] = win[v] \/ win'[v] = y
  BY <1>1
<2>3. QED
  BY <2>1, <2>2 DEF WindowSound, ClosingSound, EventsSound
<1>4. QED
  BY <1>2, <1>3 DEF WindowsSound

LEMMA SameListExact ==
  ASSUME TypeOK, InstancesExact, NEW w \in Windows, NEW y,
         win' = [win EXCEPT ![w] = y], y.obj = win[w].obj,
         instances' = instances
  PROVE  InstancesExact'
<1>1. \A v \in Windows : win'[v].obj = win[v].obj
  BY DEF TypeOK
<1>2. {v \in Windows : win'[v].obj = "live"} =
        {v \in Windows : win[v].obj = "live"}
  BY <1>1
<1>3. QED
  BY <1>2 DEF InstancesExact

\* Whatever the user, the page or the client does to one window without
\* creating or deleting it.
LEMMA HappensSound ==
  ASSUME IInv, NEW w \in Windows, NEW y \in Window, WindowSound(y),
         y.obj = win[w].obj,
         crashed = NoWindow, win' = [win EXCEPT ![w] = y],
         platform' = platform, instances' = instances, crashed' = crashed,
         calls' \in 0..MaxCalls
  PROVE  IInv'
<1>1. win' \in [Windows -> Window] /\ WindowsSound'
  BY UpdateSound DEF IInv
<1>2. InstancesExact'
  BY SameListExact DEF IInv
<1>3. TypeOK'
  BY <1>1 DEF IInv, TypeOK
<1>4. crashed' = NoWindow
  OBVIOUS
<1>5. QED
  BY <1>1, <1>2, <1>3, <1>4 DEF IInv

LEMMA CallsGrow == TypeOK /\ ClientActs => calls' \in 0..MaxCalls
  BY WindowAssumption DEF TypeOK, ClientActs

LEMMA NewWindowSound ==
  ASSUME NEW frame \in BOOLEAN, NEW beforeunload \in BOOLEAN
  PROVE  LET y == NewWindow(frame, beforeunload)
         IN  y \in Window /\ WindowSound(y) /\ y.obj = "live"
<1> DEFINE y == NewWindow(frame, beforeunload)
<1>1. Absent \in Window /\ Absent.toldClosed = 0 /\ Absent.page = "idle"
      /\ ~Absent.closed /\ Absent.toldHung = Absent.hung
      /\ Absent.toldActive = Absent.active
  BY DEF Absent, Window
<1>2. /\ y \in Window
      /\ y.obj = "live" /\ y.bound /\ y.contents /\ y.native
      /\ y.toldClosed = Absent.toldClosed /\ y.page = Absent.page
      /\ y.closed = Absent.closed /\ y.hung = Absent.hung
      /\ y.active = Absent.active /\ y.toldActive = Absent.toldActive
      /\ y.toldHung = Absent.toldHung
<2> HIDE DEF Absent
<2> DEFINE a == [Absent EXCEPT !.obj = "live", !.bound = TRUE, !.frame = frame]
           b == [a EXCEPT !.contents = TRUE, !.native = TRUE]
           c == [b EXCEPT !.beforeunload = beforeunload]
<2>1. y = c
  BY DEF NewWindow
<2>2. /\ a \in Window /\ a.obj = "live" /\ a.bound
      /\ a.toldClosed = Absent.toldClosed /\ a.page = Absent.page
      /\ a.closed = Absent.closed /\ a.hung = Absent.hung
      /\ a.active = Absent.active /\ a.toldActive = Absent.toldActive
      /\ a.toldHung = Absent.toldHung
  BY <1>1, Zenon DEF Window
<2> HIDE DEF a
<2>3. /\ b \in Window /\ b.obj = "live" /\ b.bound /\ b.contents /\ b.native
      /\ b.toldClosed = a.toldClosed /\ b.page = a.page
      /\ b.closed = a.closed /\ b.hung = a.hung
      /\ b.active = a.active /\ b.toldActive = a.toldActive
      /\ b.toldHung = a.toldHung
  BY <2>2, Zenon DEF Window
<2> HIDE DEF b
<2>4. /\ c \in Window /\ c.obj = "live" /\ c.bound /\ c.contents /\ c.native
      /\ c.toldClosed = b.toldClosed /\ c.page = b.page
      /\ c.closed = b.closed /\ c.hung = b.hung
      /\ c.active = b.active /\ c.toldActive = b.toldActive
      /\ c.toldHung = b.toldHung
  BY <2>3, Zenon DEF Window
<2>5. QED
  BY <2>1, <2>2, <2>3, <2>4
<1> HIDE DEF y
<1>3. WindowSound(y)
  BY <1>1, <1>2 DEF WindowSound, ClosingSound, EventsSound
<1>4. QED
  BY <1>2, <1>3 DEF y

LEMMA CreateSound ==
  ASSUME IInv, NEW w \in Windows, Create(w)
  PROVE  IInv'
<1>1. PICK frame \in BOOLEAN, beforeunload \in BOOLEAN :
        win' = [win EXCEPT ![w] = NewWindow(frame, beforeunload)]
  BY DEF Create
<1> DEFINE y == NewWindow(frame, beforeunload)
<1>2. y \in Window /\ WindowSound(y) /\ y.obj = "live"
  BY NewWindowSound
<1> HIDE DEF y
<1>3. /\ win' = [win EXCEPT ![w] = y] /\ platform' = platform
      /\ crashed = NoWindow /\ crashed' = NoWindow
      /\ instances' = Append(instances, w) /\ win[w].obj = "none"
      /\ win \in [Windows -> Window] /\ instances \in Seq(Windows)
  BY <1>1 DEF Create, ClientActs, IInv, TypeOK, y
<1>4. win' \in [Windows -> Window] /\ WindowsSound'
  BY <1>2, <1>3, UpdateSound DEF IInv
<1>5. TypeOK'
<2>1. instances' \in Seq(Windows) /\ calls' \in 0..MaxCalls
  BY <1>3, CallsGrow DEF IInv, Create
<2>2. QED
  BY <1>3, <1>4, <2>1 DEF IInv, TypeOK
<1>6. \A i \in 1..Len(instances) : instances[i] # w
  BY <1>3 DEF IInv, InstancesExact
<1>7. /\ Len(instances') = Len(instances) + 1
      /\ \A i \in 1..Len(instances) : instances'[i] = instances[i]
      /\ instances'[Len(instances) + 1] = w
      /\ Len(instances) \in Nat
  BY <1>3
<1>8. \A i, j \in 1..Len(instances') : instances'[i] = instances'[j] => i = j
<2>1. \A i, j \in 1..Len(instances) : instances[i] = instances[j] => i = j
  BY DEF IInv, InstancesExact
<2>2. QED
  BY <1>6, <1>7, <2>1
<1>9. ASSUME NEW v \in Windows
      PROVE  v \in {instances'[i] : i \in 1..Len(instances')}
               <=> win'[v].obj = "live"
<2>1. v \in {instances[i] : i \in 1..Len(instances)} <=> win[v].obj = "live"
  BY DEF IInv, InstancesExact
<2>2. CASE v = w
  BY <1>2, <1>3, <1>7, <2>2
<2>3. CASE v # w
<3>1. win'[v] = win[v]
  BY <1>3, <2>3
<3>2. v \in {instances'[i] : i \in 1..Len(instances')}
        <=> v \in {instances[i] : i \in 1..Len(instances)}
  BY <1>7, <2>3
<3>3. QED
  BY <2>1, <3>1, <3>2
<2>4. QED
  BY <2>2, <2>3
<1>10. {instances'[i] : i \in 1..Len(instances')} \subseteq Windows
  BY <1>5 DEF TypeOK
<1>11. {instances'[i] : i \in 1..Len(instances')} =
         {v \in Windows : win'[v].obj = "live"}
  BY <1>9, <1>10
<1>12. InstancesExact'
  BY <1>8, <1>11 DEF InstancesExact
<1>13. QED
  BY <1>3, <1>4, <1>5, <1>12 DEF IInv

LEMMA CallLocalMethodSound ==
  ASSUME IInv, NEW w \in Windows, NEW method \in Methods,
         CallLocalMethod(w, method)
  PROVE  IInv'
<1> DEFINE x == win[w]
<1>1. /\ x \in Window /\ WindowSound(x) /\ platform \in {"views", "mac"}
      /\ win \in [Windows -> Window] /\ x.bound
      /\ crashed = NoWindow /\ platform' = platform /\ instances' = instances
      /\ calls' \in 0..MaxCalls
  BY PlatformIsOne, CallsGrow
  DEF IInv, TypeOK, WindowsSound, CallLocalMethod, ClientActs
<1>2. CASE /\ crashed' = w /\ UNCHANGED win
           /\ \/ UsesContents(method, x) /\ ~x.contents
              \/ UsesDelegate(method, x)
<2>1. x.closed
  BY <1>1, <1>2 DEF WindowSound, UsesDelegate
<2>2. x.toldClosed > 0
  BY <1>1, <2>1 DEF WindowSound, ClosingSound, Window
<2>3. WindowsSound' /\ InstancesExact'
  BY <1>1, <1>2
  DEF IInv, WindowsSound, WindowSound, ClosingSound, EventsSound, InstancesExact
<2>4. TypeOK'
  BY <1>1, <1>2 DEF IInv, TypeOK
<2>5. win'[crashed'].toldClosed > 0
  BY <1>2, <2>2
<2>6. QED
  BY <2>3, <2>4, <2>5 DEF IInv
<1>3. CASE /\ UsesContents(method, x) => x.contents
           /\ win' = [win EXCEPT ![w] = IF method \in ContentMethods
                                        THEN ContentMethod(method, x)
                                        ELSE PlatformMethod(method, x)]
           /\ UNCHANGED crashed
<2> DEFINE y == IF method \in ContentMethods THEN ContentMethod(method, x)
                                             ELSE PlatformMethod(method, x)
<2>1. y \in Window /\ WindowSound(y) /\ y.obj = x.obj
<3>1. CASE method \in ContentMethods
  BY <1>1, <3>1, ContentMethodSound
<3>2. CASE method \notin ContentMethods
<4>1. method \in NativeMethods
  BY <3>2, WindowAssumption
<4>2. QED
  BY <1>1, <3>2, <4>1, MethodSound
<3>3. QED
  BY <3>1, <3>2
<2> HIDE DEF y
<2>2. win' = [win EXCEPT ![w] = y]
  BY <1>3 DEF y
<2>3. QED
  BY <1>1, <1>3, <2>1, <2>2, HappensSound
<1>4. QED
  BY <1>2, <1>3 DEF CallLocalMethod

LEMMA DeleteKeeps ==
  ASSUME IInv, NEW w \in Windows, Delete(w)
  PROVE  IInv'
<1> DEFINE x == win[w]
           c == CloseImmediately([x EXCEPT !.bound = FALSE])
           y == [DestroyWebContents(c) EXCEPT !.obj = "freed"]
<1>1. /\ x \in Window /\ WindowSound(x) /\ platform \in {"views", "mac"}
      /\ win \in [Windows -> Window] /\ x.bound
      /\ crashed = NoWindow /\ platform' = platform /\ crashed' = NoWindow
      /\ instances' = RemoveFirst(instances, w)
      /\ instances \in Seq(Windows)
      /\ calls' \in 0..MaxCalls
      /\ win' = [win EXCEPT ![w] = y]
  BY PlatformIsOne, CallsGrow
  DEF IInv, TypeOK, WindowsSound, Delete, ClientActs, Erase
<1>2. y \in Window /\ WindowSound(y) /\ y.obj = "freed"
<2> HIDE DEF x
<2>1. QED
  BY <1>1, DeleteSound
<1> HIDE DEF y
<1>3. win' \in [Windows -> Window] /\ WindowsSound'
  BY <1>1, <1>2, UpdateSound DEF IInv
<1>4. x.obj = "live"
  BY <1>1 DEF WindowSound, ClosingSound
<1>5. /\ \A i, j \in 1..Len(instances) : instances[i] = instances[j] => i = j
      /\ {instances[i] : i \in 1..Len(instances)} =
           {v \in Windows : win[v].obj = "live"}
  BY DEF IInv, InstancesExact
<1>6. \E i \in 1..Len(instances) : instances[i] = w
  BY <1>4, <1>5
<1> DEFINE t == RemoveFirst(instances, w)
<1>7. /\ t \in Seq(Windows)
      /\ \A i, j \in 1..Len(t) : t[i] = t[j] => i = j
      /\ \A i \in 1..Len(t) :
           t[i] # w /\ \E j \in 1..Len(instances) : instances[j] = t[i]
      /\ \A j \in 1..Len(instances) :
           instances[j] # w => \E i \in 1..Len(t) : t[i] = instances[j]
<2>1. instances \in Seq(Windows)
  BY <1>1
<2>2. \A i, j \in 1..Len(instances) : instances[i] = instances[j] => i = j
  BY <1>5
<2>3. QED
  BY <2>1, <2>2, <1>6, RemoveFirstExact
<1> HIDE DEF t
<1>8. {v \in Windows : win'[v].obj = "live"} =
        {v \in Windows : win[v].obj = "live"} \ {w}
  BY <1>1, <1>2
<1>9. {t[i] : i \in 1..Len(t)} = {v \in Windows : win'[v].obj = "live"}
<2>1. \A i \in 1..Len(t) : t[i] # w /\ t[i] \in {v \in Windows : win[v].obj = "live"}
  BY <1>5, <1>7
<2>2. \A v \in Windows : win[v].obj = "live" /\ v # w
                           => \E i \in 1..Len(t) : t[i] = v
<3>1. \A v \in Windows : win[v].obj = "live"
                           => \E j \in 1..Len(instances) : instances[j] = v
  BY <1>5
<3>2. QED
  BY <1>7, <3>1
<2>3. QED
  BY <1>8, <2>1, <2>2
<1>10. instances' = t
  BY <1>1 DEF t
<1>11. InstancesExact'
  BY <1>7, <1>9, <1>10 DEF InstancesExact
<1>12. TypeOK'
  BY <1>1, <1>3, <1>7, <1>10 DEF IInv, TypeOK
<1>13. QED
  BY <1>1, <1>3, <1>11, <1>12 DEF IInv

LEMMA ClientClosesSound ==
  ASSUME IInv, NEW w \in Windows, ClientCloses(w)
  PROVE  IInv'
<1>1. /\ win[w] \in Window /\ WindowSound(win[w]) /\ win[w].bound
      /\ calls' \in 0..MaxCalls
  BY CallsGrow DEF IInv, TypeOK, WindowsSound, ClientCloses
<1>2. /\ Close(win[w]) \in Window /\ WindowSound(Close(win[w]))
      /\ Close(win[w]).obj = win[w].obj
  BY <1>1, CloseSound
<1>3. QED
  BY <1>1, <1>2, HappensSound DEF ClientCloses, ClientActs

\* The steps of the user, the page and the hang monitor have this form.
LEMMA HappensKeeps ==
  ASSUME IInv, NEW w \in Windows, NEW y \in Window, WindowSound(y),
         y.obj = win[w].obj, Happens(w, y)
  PROVE  IInv'
<1>1. calls' \in 0..MaxCalls
  BY DEF Happens, IInv, TypeOK
<1>2. QED
  BY <1>1, HappensSound DEF Happens

LEMMA UserClosesSound ==
  ASSUME IInv, NEW w \in Windows, UserCloses(w)
  PROVE  IInv'
<1> DEFINE x == win[w]
           h == [x EXCEPT !.native = FALSE, !.shown = FALSE, !.active = FALSE]
<1>1. /\ x \in Window /\ WindowSound(x) /\ x.native
      /\ platform \in {"views", "mac"}
  BY PlatformIsOne DEF IInv, TypeOK, WindowsSound, UserCloses
<1>2. x.bound /\ x.toldClosed = 0 /\ x.toldClosed <= 1 /\ ~x.closed /\ x.contents
  BY <1>1 DEF WindowSound, ClosingSound
<1>3. CASE platform = "views"
<2>1. /\ h \in Window /\ SameEnd(x, h)
      /\ h.closed = x.closed /\ ~h.native /\ h.page = x.page
      /\ h.toldClosed = x.toldClosed
<3> HIDE DEF x
<3>1. QED
  BY <1>1, HideFields
<2>2. Happens(w, DeleteDelegate(h))
  BY <1>3 DEF UserCloses
<2> DEFINE y == DeleteDelegate(h)
<2>3. /\ y \in Window /\ SameEnd(h, y)
      /\ y.native = h.native /\ y.active = h.active
      /\ h.contents => y.closed = h.closed
      /\ h.bound => y.toldClosed = h.toldClosed + 1
<3> HIDE DEF h
<3>1. QED
  BY <1>2, <2>1, DeleteDelegateFields
<2> HIDE DEF h, y
<2>4. /\ y \in Window /\ y.obj = x.obj /\ y.bound /\ y.contents /\ ~y.native
      /\ ~y.closed /\ y.toldClosed = 1 /\ y.toldHung = x.toldHung
      /\ y.hung = x.hung
  BY <1>2, <2>1, <2>3 DEF SameEnd
<2>5. WindowSound(y)
  BY <1>1, <1>2, <1>3, <2>4 DEF WindowSound, ClosingSound, EventsSound
<2>6. QED
  BY <2>2, <2>4, <2>5, HappensKeeps DEF y
<1>4. CASE platform = "mac"
<2>1. Happens(w, Close(x))
  BY <1>4 DEF UserCloses
<2>2. QED
  BY <1>1, <1>2, <2>1, CloseSound, HappensKeeps
<1>5. QED
  BY <1>1, <1>3, <1>4

LEMMA UserActivatesSound ==
  ASSUME IInv, NEW w \in Windows, UserActivates(w)
  PROVE  IInv'
<1> DEFINE x == win[w]
<1>1. /\ x \in Window /\ WindowSound(x) /\ (~x.active) \in BOOLEAN
      /\ platform \in {"views", "mac"}
  BY PlatformIsOne DEF IInv, TypeOK, WindowsSound
<1>2. PICK y : /\ y \in {ViewsActivation(x, ~x.active), MacActivation(x, ~x.active)}
               /\ Happens(w, y)
  BY <1>1 DEF UserActivates
<1>3. /\ y \in Window /\ SameLife(x, y)
      /\ x.bound /\ x.contents => y.toldActive = y.active
  BY <1>1, <1>2, ActivationFields
<1>4. WindowSound(y)
  BY <1>1, <1>3, SameLifeSound
<1>5. QED
  BY <1>2, <1>3, <1>4, HappensKeeps DEF SameLife

LEMMA RunBeforeUnloadDialogSound ==
  ASSUME IInv, NEW w \in Windows, RunBeforeUnloadDialog(w)
  PROVE  IInv'
<1> DEFINE x == win[w]
           y == [x EXCEPT !.page = "unload"]
<1>1. x \in Window /\ WindowSound(x) /\ x.page # "idle" /\ Happens(w, y)
  BY DEF IInv, TypeOK, WindowsSound, RunBeforeUnloadDialog
<1>2. /\ y \in Window /\ SameEnd(x, y)
      /\ y.closed = x.closed /\ y.native = x.native
      /\ y.active = x.active /\ y.toldClosed = x.toldClosed
<2> HIDE DEF x
<2>1. QED
  BY <1>1, Zenon DEF Window, SameEnd
<1> HIDE DEF y
<1>3. WindowSound(y)
  BY <1>1, <1>2 DEF WindowSound, ClosingSound, EventsSound, SameEnd
<1>4. QED
  BY <1>1, <1>2, <1>3, HappensKeeps DEF SameEnd

LEMMA PageEndsSound ==
  ASSUME IInv, NEW w \in Windows, PageUnloads(w) \/ PageCloses(w)
  PROVE  IInv'
<1> DEFINE x == win[w]
<1>1. /\ x \in Window /\ WindowSound(x) /\ platform \in {"views", "mac"}
      /\ Happens(w, CloseContents(x))
  BY PlatformIsOne DEF IInv, TypeOK, WindowsSound, PageUnloads, PageCloses
<1>2. x.contents
  BY <1>1 DEF PageUnloads, PageCloses, WindowSound, ClosingSound
<1>3. QED
  BY <1>1, <1>2, CloseContentsSound, HappensKeeps

LEMMA HangMonitorSound ==
  ASSUME IInv, NEW w \in Windows,
         RendererUnresponsive(w) \/ RendererResponsive(w)
  PROVE  IInv'
<1> DEFINE x == win[w]
<1>1. x \in Window /\ WindowSound(x)
  BY DEF IInv, TypeOK, WindowsSound
<1>2. PICK b \in BOOLEAN : Happens(w, [x EXCEPT !.hung = b, !.toldHung = b])
  BY DEF RendererUnresponsive, RendererResponsive
<1> DEFINE y == [x EXCEPT !.hung = b, !.toldHung = b]
<1>3. /\ y \in Window
      /\ y.obj = x.obj /\ y.bound = x.bound /\ y.contents = x.contents
      /\ y.closed = x.closed /\ y.native = x.native /\ y.page = x.page
      /\ y.active = x.active /\ y.toldActive = x.toldActive
      /\ y.toldClosed = x.toldClosed /\ y.hung = y.toldHung
<2> HIDE DEF x
<2>1. QED
  BY <1>1, Zenon DEF Window
<1> HIDE DEF y
<1>4. WindowSound(y)
  BY <1>1, <1>3 DEF WindowSound, ClosingSound, EventsSound
<1>5. QED
  BY <1>2, <1>3, <1>4, HappensKeeps DEF y

LEMMA InitSound == Init => IInv
<1> SUFFICES ASSUME Init PROVE IInv
  OBVIOUS
<1>1. Absent \in Window /\ WindowSound(Absent) /\ Absent.obj = "none"
  BY DEF Absent, Window, WindowSound, ClosingSound, EventsSound
<1>2. \A w \in Windows : win[w] = Absent
  BY DEF Init
<1>3. WindowsSound
  BY <1>1, <1>2 DEF WindowsSound
<1>4. TypeOK
  BY <1>1, WindowAssumption DEF Init, TypeOK
<1>5. InstancesExact
  BY <1>1, <1>2 DEF Init, InstancesExact
<1>6. QED
  BY <1>3, <1>4, <1>5 DEF IInv, Init

LEMMA StepSound == IInv /\ [Next]_vars => IInv'
<1> SUFFICES ASSUME IInv, [Next]_vars PROVE IInv'
  OBVIOUS
<1>1. ASSUME NEW w \in Windows, Create(w) PROVE IInv'
  BY <1>1, CreateSound
<1>2. ASSUME NEW w \in Windows, NEW method \in Methods,
             CallLocalMethod(w, method)
      PROVE  IInv'
  BY <1>2, CallLocalMethodSound
<1>3. ASSUME NEW w \in Windows, ClientCloses(w) PROVE IInv'
  BY <1>3, ClientClosesSound
<1>4. ASSUME NEW w \in Windows, Delete(w) PROVE IInv'
  BY <1>4, DeleteKeeps
<1>5. ASSUME NEW w \in Windows, UserCloses(w) PROVE IInv'
  BY <1>5, UserClosesSound
<1>6. ASSUME NEW w \in Windows, UserActivates(w) PROVE IInv'
  BY <1>6, UserActivatesSound
<1>7. ASSUME NEW w \in Windows, RunBeforeUnloadDialog(w) PROVE IInv'
  BY <1>7, RunBeforeUnloadDialogSound
<1>8. ASSUME NEW w \in Windows, PageUnloads(w) \/ PageCloses(w) PROVE IInv'
  BY <1>8, PageEndsSound
<1>9. ASSUME NEW w \in Windows,
             RendererUnresponsive(w) \/ RendererResponsive(w)
      PROVE  IInv'
  BY <1>9, HangMonitorSound
<1>10. CASE UNCHANGED vars
  BY <1>10 DEF vars, IInv, TypeOK, WindowsSound, WindowSound, ClosingSound,
               EventsSound, InstancesExact
<1>11. QED
  BY <1>1, <1>2, <1>3, <1>4, <1>5, <1>6, <1>7, <1>8, <1>9, <1>10 DEF Next

LEMMA SoundIsKnown == IInv => ClientKnows
<1> SUFFICES ASSUME IInv PROVE ClientKnows
  OBVIOUS
<1>1. \A w \in Windows : win[w] \in Window /\ WindowSound(win[w])
  BY DEF IInv, TypeOK, WindowsSound
<1>2. ClosedOnce
  BY <1>1 DEF ClosedOnce, WindowSound, ClosingSound
<1>3. ContentsGoneIsTold
<2>1. ASSUME NEW w \in Windows, win[w].bound, ~win[w].contents
      PROVE  win[w].closed /\ win[w].toldClosed > 0
  BY <1>1, <2>1 DEF WindowSound, ClosingSound, Window
<2>2. QED
  BY <2>1 DEF ContentsGoneIsTold, IInv
<1>4. ClientFollowsWindow
  BY <1>1 DEF ClientFollowsWindow, WindowSound, EventsSound
<1>5. QED
  BY <1>2, <1>3, <1>4 DEF IInv, ClientKnows

\* However the client's calls, the user, the pages and the hang monitor
\* interleave: "closed" is emitted at most once per window and before any call
\* can fall on missing contents, focus and responsiveness are reported as they
\* are, and s_instances is exactly the list of the windows alive.
THEOREM ClientAlwaysKnows == Spec => []ClientKnows
<1>1. Spec => []IInv
  BY InitSound, StepSound, PTL DEF Spec
<1>2. QED
  BY <1>1, SoundIsKnown, PTL

-----------------------------------------------------------------------------
(* The geometry: what the Mac computes upwards is what Views computes      *)
(* downwards, for every screen, every window and every call.               *)
LEMMA RectsAreIntegers ==
  ASSUME NEW f \in Rects
  PROVE  \E x, y, w, h \in Int : f = [x |-> x, y |-> y, w |-> w, h |-> h]
<1>1. PICK x \in Coordinates, y \in Coordinates, w \in Lengths, h \in Lengths :
        f = Rect(x, y, w, h)
  BY DEF Rects
<1>2. x \in Int /\ y \in Int /\ w \in Int /\ h \in Int
  BY GeometryAssumption
<1>3. f = [x |-> x, y |-> y, w |-> w, h |-> h]
  BY <1>1 DEF Rect
<1>4. QED
  BY <1>2, <1>3

LEMMA MovesAgree ==
  ASSUME NEW f \in Rects, NEW a \in Coordinates, NEW b \in Coordinates
  PROVE  AsViews(MacMove(f, a, b)) = ViewsMove(AsViews(f), a, b)
<1>1. a \in Int /\ b \in Int /\ ScreenHeight \in Int
  BY GeometryAssumption
<1>2. PICK x, y, w, h \in Int : f = [x |-> x, y |-> y, w |-> w, h |-> h]
  BY RectsAreIntegers
<1>3. MacMove(f, a, b) = [x |-> a, y |-> ScreenHeight - b - h, w |-> w, h |-> h]
  BY <1>2 DEF MacMove, Rect
<1>4. ScreenHeight - (ScreenHeight - b - h) - h = b
  BY <1>1, <1>2
<1>5. AsViews(MacMove(f, a, b)) = [x |-> a, y |-> b, w |-> w, h |-> h]
  BY <1>3, <1>4 DEF AsViews, Rect
<1>6. QED
  BY <1>2, <1>5 DEF AsViews, ViewsMove, Rect

LEMMA ResizesAgree ==
  ASSUME NEW f \in Rects, NEW w \in Lengths, NEW h \in Lengths
  PROVE  AsViews(MacResize(f, w, h)) = ViewsResize(AsViews(f), w, h)
<1>1. w \in Int /\ h \in Int /\ ScreenHeight \in Int
  BY GeometryAssumption
<1>2. PICK x, y, v, g \in Int : f = [x |-> x, y |-> y, w |-> v, h |-> g]
  BY RectsAreIntegers
<1>3. MacResize(f, w, h) = [x |-> x, y |-> (y + g) - h, w |-> w, h |-> h]
  BY <1>2 DEF MacResize, Rect
<1>4. ScreenHeight - ((y + g) - h) - h = ScreenHeight - y - g
  BY <1>1, <1>2
<1>5. AsViews(MacResize(f, w, h)) =
        [x |-> x, y |-> ScreenHeight - y - g, w |-> w, h |-> h]
  BY <1>3, <1>4 DEF AsViews, Rect
<1>6. QED
  BY <1>2, <1>5 DEF AsViews, ViewsResize, Rect

LEMMA CallsAlwaysAgree == CallsAgree
<1>1. SUFFICES ASSUME NEW f \in Rects,
                      NEW a \in Coordinates, NEW b \in Coordinates,
                      NEW w \in Lengths, NEW h \in Lengths
               PROVE  /\ AsViews(MacMove(f, a, b)) = ViewsMove(AsViews(f), a, b)
                      /\ AsViews(MacResize(f, w, h)) =
                           ViewsResize(AsViews(f), w, h)
                      /\ MacPosition(f) = ViewsPosition(AsViews(f))
                      /\ MacSize(f) = ViewsSize(AsViews(f))
  BY DEF CallsAgree
<1>2. MacPosition(f) = ViewsPosition(AsViews(f))
  BY DEF MacPosition, ViewsPosition, AsViews, Rect
<1>3. MacSize(f) = ViewsSize(AsViews(f))
  BY DEF MacSize, ViewsSize, AsViews, Rect, Size
<1>4. QED
  BY <1>2, <1>3, MovesAgree, ResizesAgree

\* The centre on the Mac, counted from above, is the one of Views.
LEMMA HalvesMeet ==
  ASSUME NEW n \in Int
  PROVE  /\ RoundedHalf(n) \in Int /\ n \div 2 \in Int
         /\ n - RoundedHalf(n) = n \div 2
         /\ RoundedHalf(n) - n \div 2 = n % 2
BY DEF RoundedHalf

LEMMA AlwaysCreatedAsAsked == CreatedAsAsked
<1>1. SUFFICES ASSUME NEW sw \in Lengths, NEW cw \in Lengths,
                      NEW ch \in Lengths, NEW w \in Lengths, NEW h \in Lengths,
                      NEW hasFrame \in BOOLEAN
               PROVE  LET mac   == MacInitial(Size(sw, ScreenHeight), Size(cw, ch),
                                              hasFrame, w, h)
                          views == ViewsInitial(Size(sw, ScreenHeight), w, h)
                      IN  /\ ViewsSize(views) = Size(w, h)
                          /\ MacSize(mac) = IF hasFrame THEN Size(w, h)
                                            ELSE Size(w + cw, h + ch)
                          /\ MacPosition(mac)[1] - ViewsPosition(views)[1] = (sw - w) % 2
                          /\ MacPosition(mac)[2] = ViewsPosition(views)[2] - ch
  BY DEF CreatedAsAsked
<1>2. /\ sw \in Int /\ cw \in Int /\ ch \in Int /\ w \in Int /\ h \in Int
      /\ ScreenHeight \in Int
  BY GeometryAssumption
<1> DEFINE screen == Size(sw, ScreenHeight)
           x == RoundedHalf(sw - w)
           y == RoundedHalf(ScreenHeight - h)
           f == Rect(x, y, w + cw, h + ch)
           mac == MacInitial(screen, Size(cw, ch), hasFrame, w, h)
           views == ViewsInitial(screen, w, h)
<1>3. views = [x |-> (sw - w) \div 2, y |-> (ScreenHeight - h) \div 2, w |-> w, h |-> h]
  BY DEF ViewsInitial, Rect, Size
<1>4. f = [x |-> x, y |-> y, w |-> w + cw, h |-> h + ch]
  BY DEF Rect
<1>5. mac = IF hasFrame THEN [x |-> x, y |-> (y + (h + ch)) - h, w |-> w, h |-> h]
            ELSE [x |-> x, y |-> y, w |-> w + cw, h |-> h + ch]
  BY <1>4 DEF MacInitial, MacResize, Rect, Size
<1>6. ViewsSize(views) = Size(w, h)
  BY <1>3 DEF ViewsSize
<1>7. MacSize(mac) = IF hasFrame THEN Size(w, h) ELSE Size(w + cw, h + ch)
  BY <1>5 DEF MacSize
<1>8. /\ x \in Int /\ (sw - w) \div 2 \in Int
      /\ x - (sw - w) \div 2 = (sw - w) % 2
  <2>1. sw - w \in Int
    BY <1>2
  <2>2. QED
    BY <2>1, HalvesMeet
<1>9. /\ y \in Int /\ (ScreenHeight - h) \div 2 \in Int
      /\ (ScreenHeight - h) - y = (ScreenHeight - h) \div 2
  <2>1. ScreenHeight - h \in Int
    BY <1>2
  <2>2. QED
    BY <2>1, HalvesMeet
<1>10. mac.x = x
  BY <1>5
<1> HIDE DEF x, y
<1>11. MacPosition(mac)[1] - ViewsPosition(views)[1] = (sw - w) % 2
  BY <1>3, <1>8, <1>10 DEF MacPosition, ViewsPosition
<1>12. ScreenHeight - mac.y - mac.h = ((ScreenHeight - h) - y) - ch
  <2>1. CASE hasFrame
    <3>1. mac.y = (y + (h + ch)) - h /\ mac.h = h
      BY <1>5, <2>1
    <3>2. QED
      BY <1>2, <1>9, <3>1
  <2>2. CASE ~hasFrame
    <3>1. mac.y = y /\ mac.h = h + ch
      BY <1>5, <2>2
    <3>2. QED
      BY <1>2, <1>9, <3>1
  <2>3. QED
    BY <2>1, <2>2
<1>13. MacPosition(mac)[2] = ViewsPosition(views)[2] - ch
  BY <1>3, <1>9, <1>12 DEF MacPosition, ViewsPosition
<1>14. QED
  BY <1>6, <1>7, <1>11, <1>13

LEMMA ContentSizeAlwaysSet == ContentSizeSet
<1>1. SUFFICES ASSUME NEW f \in Rects, NEW cw \in Lengths, NEW ch \in Lengths,
                      NEW w \in Lengths, NEW h \in Lengths
               PROVE  LET chrome == Size(cw, ch)
                          mac    == MacSetContentSize(f, chrome, w, h)
                          views  == ViewsSetContentSize(AsViews(f), w, h)
                      IN  /\ MacPosition(mac) = MacPosition(f)
                          /\ ViewsPosition(views) = MacPosition(f)
                          /\ MacContentSize(mac, chrome) = Size(w, h)
                          /\ ViewsContentSize(views, chrome, FALSE) = Size(w, h)
                          /\ ViewsSize(views) = Size(w, h)
                          /\ ViewsContentSize(views, chrome, TRUE) = Size(w - cw, h - ch)
  BY DEF ContentSizeSet
<1>2. cw \in Int /\ ch \in Int /\ w \in Int /\ h \in Int /\ ScreenHeight \in Int
  BY GeometryAssumption
<1>3. PICK x, y, v, k \in Int : f = [x |-> x, y |-> y, w |-> v, h |-> k]
  BY RectsAreIntegers
<1> DEFINE mac == MacSetContentSize(f, Size(cw, ch), w, h)
           views == ViewsSetContentSize(AsViews(f), w, h)
<1>4. mac = [x |-> x, y |-> y - ((h + ch) - k), w |-> w + cw, h |-> h + ch]
  <2>1. Size(cw, ch).w = cw /\ Size(cw, ch).h = ch /\ f.y = y /\ f.h = k
    BY <1>3 DEF Size
  <2>2. mac = [f EXCEPT !.y = y - ((h + ch) - k), !.w = w + cw, !.h = h + ch]
    BY <2>1 DEF MacSetContentSize
  <2>3. QED
    BY <1>3, <2>2
<1>5. (w + cw) - cw = w /\ (h + ch) - ch = h
  BY <1>2
<1>6. MacContentSize(mac, Size(cw, ch)) = Size(w, h)
  BY <1>4, <1>5 DEF MacContentSize, Size
<1>7. ScreenHeight - (y - ((h + ch) - k)) - (h + ch) = ScreenHeight - y - k
  BY <1>2, <1>3
<1>8. MacPosition(mac) = MacPosition(f)
  BY <1>3, <1>4, <1>7 DEF MacPosition
<1>9. views = [x |-> x, y |-> ScreenHeight - y - k, w |-> w, h |-> h]
  BY <1>3 DEF ViewsSetContentSize, ViewsResize, AsViews, Rect
<1>10. /\ ViewsPosition(views) = MacPosition(f)
       /\ ViewsSize(views) = Size(w, h)
       /\ ViewsContentSize(views, Size(cw, ch), FALSE) = Size(w, h)
       /\ ViewsContentSize(views, Size(cw, ch), TRUE) = Size(w - cw, h - ch)
  BY <1>3, <1>9
  DEF ViewsPosition, MacPosition, ViewsSize, ViewsContentSize, Size
<1>11. QED
  BY <1>6, <1>8, <1>10

\* A client that moves or resizes a window or asks where it is cannot tell the
\* Mac from Views, whatever the screen, the window and the call: the
\* conversions of PlatformMove, PlatformResize and PlatformPosition cancel.
\* Creating a window and setting the size of its content differ by exactly what
\* CreatedAsAsked and ContentSizeSet say.
THEOREM PlatformsAlwaysAgree == Spec => []PlatformsAgree
<1>1. PlatformsAgree
  BY CallsAlwaysAgree, AlwaysCreatedAsAsked, ContentSizeAlwaysSet
  DEF PlatformsAgree
<1>2. QED
  BY <1>1, PTL

-----------------------------------------------------------------------------
(* Clicks on a frameless window. *)
\* What each of the page's areas makes of a point that the areas before it
\* left draggable or not.
Consulted(areas, p) ==
  [k \in 1..Len(areas) |-> [b \in BOOLEAN |->
     IF areas[k].draggable THEN b \/ RectContains(areas[k].bounds, p)
     ELSE b /\ ~RectContains(areas[k].bounds, p)]]

\* DraggableRegion takes these steps, one area after the other.
LEMMA RegionStepByStep ==
  ASSUME NEW S, NEW areas \in Seq(S), NEW p
  PROVE  \E In \in [0..Len(areas) -> BOOLEAN] :
           /\ In[0] = FALSE
           /\ \A k \in 1..Len(areas) :
                In[k] <=> IF areas[k].draggable
                          THEN In[k - 1] \/ RectContains(areas[k].bounds, p)
                          ELSE In[k - 1] /\ ~RectContains(areas[k].bounds, p)
           /\ DraggableRegion(areas, p) = In[Len(areas)]
<1> DEFINE Body(g) == [k \in 0..Len(areas) |->
             IF k = 0 THEN FALSE
             ELSE IF areas[k].draggable
                  THEN g[k - 1] \/ RectContains(areas[k].bounds, p)
                  ELSE g[k - 1] /\ ~RectContains(areas[k].bounds, p)]
           In == CHOOSE g : g = Body(g)
           step == Consulted(areas, p)
<1>1. Len(areas) \in Nat
  OBVIOUS
<1>2. \A k \in 1..Len(areas), b \in BOOLEAN : step[k][b] \in BOOLEAN
  BY Zenon DEF Consulted
<1>3. PICK f \in [0..Len(areas) -> BOOLEAN] :
        f[0] = FALSE /\ \A k \in 1..Len(areas) : f[k] = step[k][f[k - 1]]
<2>1. StepsWithin(Len(areas), BOOLEAN, step)
  BY <1>2 DEF StepsWithin
<2> HIDE DEF step
<2>2. PICK f : FollowsSteps(f, Len(areas), BOOLEAN, FALSE, step)
  BY <1>1, <2>1, RecursionOnNaturals
<2>3. QED
  BY <2>2, Zenon DEF FollowsSteps
<1>4. ASSUME NEW k \in 1..Len(areas)
      PROVE  f[k] = Body(f)[k]
<2>1. k \in 0..Len(areas) /\ k # 0 /\ k - 1 \in 0..Len(areas)
  BY <1>1
<2>2. f[k - 1] \in BOOLEAN
  BY <2>1
<2>3. f[k] = IF areas[k].draggable
             THEN f[k - 1] \/ RectContains(areas[k].bounds, p)
             ELSE f[k - 1] /\ ~RectContains(areas[k].bounds, p)
  BY <1>3, <2>2, Zenon DEF Consulted
<2>4. QED
  BY <2>1, <2>3
<1>5. f = Body(f)
<2>1. Body(f)[0] = FALSE /\ DOMAIN Body(f) = 0..Len(areas)
  BY <1>1
<2>2. \A k \in 0..Len(areas) : k = 0 \/ k \in 1..Len(areas)
  BY <1>1
<2>3. \A k \in 0..Len(areas) : f[k] = Body(f)[k]
  BY <1>3, <1>4, <2>1, <2>2
<2> DEFINE g == Body(f)
<2>4. \E D, e : TRUE
  OBVIOUS
<2>5. f = [k \in 0..Len(areas) |-> f[k]]
  OBVIOUS
<2>6. QED
  BY <2>3, <2>5
<1>6. In = Body(In)
  BY <1>5
<1>7. DraggableRegion(areas, p) = In[Len(areas)]
  BY DEF DraggableRegion
<1> HIDE DEF In
<1>8. ASSUME NEW k \in 0..Len(areas)
      PROVE  In[k] = IF k = 0 THEN FALSE
             ELSE IF areas[k].draggable
                  THEN In[k - 1] \/ RectContains(areas[k].bounds, p)
                  ELSE In[k - 1] /\ ~RectContains(areas[k].bounds, p)
  BY <1>6, Zenon
<1>11. DOMAIN In = 0..Len(areas) /\ In = [k \in 0..Len(areas) |-> In[k]]
  BY <1>6
<1>12. \A k \in 0..Len(areas) : In[k] \in BOOLEAN
  BY <1>8, Zenon
<1>13. In \in [0..Len(areas) -> BOOLEAN]
  BY <1>11, <1>12
<1>14. ASSUME NEW k \in 1..Len(areas)
       PROVE  In[k] <=> IF areas[k].draggable
                        THEN In[k - 1] \/ RectContains(areas[k].bounds, p)
                        ELSE In[k - 1] /\ ~RectContains(areas[k].bounds, p)
<2>1. k \in 0..Len(areas) /\ k # 0
  BY <1>1
<2>2. QED
  BY <1>8, <2>1, Zenon
<1>15. In[0] = FALSE
<2>1. 0 \in 0..Len(areas)
  BY <1>1
<2>2. QED
  BY <1>8, <2>1, Zenon
<1>16. QED
  BY <1>7, <1>13, <1>14, <1>15

\* Among any number of areas, not only three, the last around the point says.
LEMMA LastAreaDecides ==
  ASSUME NEW S, NEW areas \in Seq(S), NEW p
  PROVE  DraggableRegion(areas, p) <=>
           \E k \in 1..Len(areas) :
             /\ RectContains(areas[k].bounds, p) /\ areas[k].draggable
             /\ \A j \in 1..Len(areas) :
                  RectContains(areas[j].bounds, p) => j <= k
<1>1. PICK In \in [0..Len(areas) -> BOOLEAN] :
           /\ In[0] = FALSE
           /\ \A k \in 1..Len(areas) :
                In[k] <=> IF areas[k].draggable
                          THEN In[k - 1] \/ RectContains(areas[k].bounds, p)
                          ELSE In[k - 1] /\ ~RectContains(areas[k].bounds, p)
           /\ DraggableRegion(areas, p) = In[Len(areas)]
  BY RegionStepByStep
<1> DEFINE Around(j) == RectContains(areas[j].bounds, p)
           Drags(j) == areas[j].draggable
           Decides(m) == \E k \in 1..m : /\ Around(k) /\ Drags(k)
                                         /\ \A j \in 1..m : Around(j) => j <= k
           Agree == {m \in Nat : m <= Len(areas) => (In[m] <=> Decides(m))}
<1>2. Len(areas) \in Nat
  OBVIOUS
<1>3. \A k \in 1..Len(areas) :
        In[k] <=> IF Drags(k) THEN In[k - 1] \/ Around(k)
                              ELSE In[k - 1] /\ ~Around(k)
  BY <1>1
<1> HIDE DEF Around, Drags
<1>4. 0 \in Agree
<2>1. 1..0 = {}
  OBVIOUS
<2>2. QED
  BY <1>1, <2>1
<1>5. ASSUME NEW m \in Nat, m \in Agree
      PROVE  m + 1 \in Agree
<2>1. SUFFICES ASSUME m + 1 <= Len(areas)
               PROVE  In[m + 1] <=> Decides(m + 1)
  OBVIOUS
<2>2. In[m] <=> Decides(m)
  BY <1>2, <1>5, <2>1
<2>3. In[m + 1] <=> IF Drags(m + 1) THEN In[m] \/ Around(m + 1)
                                    ELSE In[m] /\ ~Around(m + 1)
<3>1. m + 1 \in 1..Len(areas) /\ (m + 1) - 1 = m
  BY <1>2, <2>1
<3>2. QED
  BY <1>3, <3>1
<2>4. 1..(m + 1) = 1..m \union {m + 1} /\ \A j \in 1..m : j <= m + 1 /\ ~(m + 1 <= j)
  OBVIOUS
<2>5. CASE Around(m + 1)
<3>1. Decides(m + 1) <=> Drags(m + 1)
  BY <2>4, <2>5
<3>2. QED
  BY <2>3, <2>5, <3>1
<2>6. CASE ~Around(m + 1)
<3>1. Decides(m + 1) <=> Decides(m)
  BY <2>4, <2>6
<3>2. QED
  BY <2>2, <2>3, <2>6, <3>1
<2>7. QED
  BY <2>5, <2>6
<1>6. Nat \subseteq Agree
<2> HIDE DEF Agree
<2>1. QED
  BY <1>4, <1>5, SetInduction
<1>7. In[Len(areas)] <=> Decides(Len(areas))
  BY <1>2, <1>6
<1>8. QED
  BY <1>1, <1>7 DEF Around, Drags

LEMMA LastAreaAlwaysWins == LastAreaWins
<1>1. SUFFICES ASSUME NEW a \in Areas, NEW b \in Areas, NEW c \in Areas,
                      NEW p \in Points
               PROVE  LET areas  == <<a, b, c>>
                          around == {k \in 1..3 : RectContains(areas[k].bounds, p)}
                      IN  DraggableRegion(areas, p) <=>
                            \E k \in around : areas[k].draggable
                                              /\ \A j \in around : j <= k
  BY DEF LastAreaWins
<1> DEFINE areas == <<a, b, c>>
<1>2. areas \in Seq(Areas) /\ Len(areas) = 3
  OBVIOUS
<1> HIDE DEF areas
<1>3. DraggableRegion(areas, p) <=>
           \E k \in 1..3 :
             /\ RectContains(areas[k].bounds, p) /\ areas[k].draggable
             /\ \A j \in 1..3 : RectContains(areas[j].bounds, p) => j <= k
  BY <1>2, LastAreaDecides
<1>4. QED
  BY <1>3 DEF areas

LEMMA ClicksAlwaysHaveOneOwner == ClicksHaveOneOwner
  BY DEF ClicksHaveOneOwner, ShouldDescend, NonClientHitTest

\* On Views a click on a frameless window is the window's or the page's as the
\* last of the page's areas around it says, and NonClientHitTest and
\* ShouldDescendIntoChildForEventHandling agree about it.
THEOREM ClicksAlwaysDecided == Spec => []ClicksDecided
<1>1. ClicksDecided
  BY LastAreaAlwaysWins, ClicksAlwaysHaveOneOwner DEF ClicksDecided
<1>2. QED
  BY <1>1, PTL
=============================================================================
