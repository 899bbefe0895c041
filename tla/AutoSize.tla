------------------------------ MODULE AutoSize ------------------------------
(***************************************************************************)
(* The size of a guest that adapts to its content: what web_view_guest.cc  *)
(* remembers of it, what it tells the guest's view, and how the attributes *)
(* of the element reach it.                                                *)
(*                                                                         *)
(* An attribute that is missing counts as 0.  The plugin is given the      *)
(* attributes as the texts they are, and the window reads limits that are  *)
(* texts as none at all: the request that follows attachment turns the     *)
(* mode off, whatever the attributes.                                      *)
(***************************************************************************)
EXTENDS Integers

NoSize == [w |-> 0, h |-> 0]

IsEmpty(size) == size.w <= 0 \/ size.h <= 0

SetToMin(s, t) == [w |-> IF s.w < t.w THEN s.w ELSE t.w,
                   h |-> IF s.h < t.h THEN s.h ELSE t.h]
SetToMax(s, t) == [w |-> IF s.w > t.w THEN s.w ELSE t.w,
                   h |-> IF s.h > t.h THEN s.h ELSE t.h]

\* The members of a guest, whether its view is there, and the last request
\* for a way of resizing that the view received.
NewSizing ==
  [enabled |-> FALSE, min |-> NoSize, max |-> NoSize, element |-> NoSize,
   guest |-> NoSize, attached |-> FALSE, ready |-> FALSE, told |-> <<>>]

\* EnableAutoResize and DisableAutoResize; a view that is gone hears nothing.
AutoResize(s) ==
  IF ~s.ready THEN s
  ELSE [s EXCEPT !.told = IF s.enabled THEN <<"auto", s.min, s.max>>
                                       ELSE <<"fixed", s.element>>]

ElementSizeChanged(s, size) == [s EXCEPT !.element = size]

GuestSizeChanged(s, size) ==
  IF s.enabled THEN [s EXCEPT !.guest = size] ELSE s

\* Limits given the wrong way round are swapped, and a guest that might be
\* sized to nothing does not adapt.
SetAutoSize(s, wanted, min, max) ==
  LET limited == [s EXCEPT !.min = SetToMin(min, max), !.max = SetToMax(max, min)]
      on      == wanted /\ ~IsEmpty(limited.min) /\ ~IsEmpty(limited.max)
      set     == [limited EXCEPT !.enabled = on]
  IN  IF ~on /\ ~s.enabled THEN limited
      ELSE IF ~s.attached THEN set
      ELSE IF on THEN AutoResize(set)
      ELSE [AutoResize(set) EXCEPT !.guest = s.element]

RenderViewReady(s) == AutoResize([s EXCEPT !.ready = TRUE])

-----------------------------------------------------------------------------
(* The requests of the element. *)
\* A limit is read only if both its lengths are numbers.
ReadLimit(size, text) == IF text THEN NoSize ELSE size

WebViewGuestSetAutoSize(s, a, text) ==
  SetAutoSize(s, a.autosize, ReadLimit(a.min, text), ReadLimit(a.max, text))

\* An attribute is changed: its value is made a number.
AttributeChanged(s, a) == WebViewGuestSetAutoSize(s, a, FALSE)

\* The answer to "did-attach" passes on what the plugin was given.
Attached(s) == [s EXCEPT !.attached = TRUE]

AnswersDidAttach(s, a) == WebViewGuestSetAutoSize(s, a, TRUE)

ViewGone(s) == [s EXCEPT !.ready = FALSE, !.told = <<>>]

\* What may happen to a guest; its first navigation, which makes the view,
\* follows attachment.
Happens(s, sizes, attributes) ==
  {ElementSizeChanged(s, size) : size \in sizes}
    \union {GuestSizeChanged(s, size) : size \in sizes}
    \union {AttributeChanged(s, a) : a \in attributes}
    \union {Attached(s)}
    \union (IF s.attached
            THEN {RenderViewReady(s), ViewGone(s)}
                   \union {AnswersDidAttach(s, a) : a \in attributes}
            ELSE {})

\* The guests n events later.
Sizings(n, sizes, attributes) ==
  LET After[i \in 0..n] ==
        IF i = 0 THEN {NewSizing}
        ELSE After[i - 1] \union
               UNION {Happens(s, sizes, attributes) : s \in After[i - 1]}
  IN  After[n]

\* The limits are in order and leave room whenever the guest adapts, and the
\* view does what the guest believes it does, whatever was changed before it
\* was attached or while it was gone.
SizingSound(s) ==
  /\ s.min.w <= s.max.w /\ s.min.h <= s.max.h
  /\ s.enabled => ~IsEmpty(s.min)
  /\ s.ready => IF s.enabled THEN s.told = <<"auto", s.min, s.max>>
                             ELSE s.told[1] = "fixed"
=============================================================================
