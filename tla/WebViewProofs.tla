--------------------------- MODULE WebViewProofs ---------------------------
EXTENDS WebViewElement, ListLemmas, FiniteSetTheorems

Addresses == Urls \union {NoUrl}

\* What a message or an event may carry.
Commit == [url : Urls, index : Int, count : Nat]

Args == Addresses \union Int \union Zooms \union Commit

\* A message of the renderer, and an event of a guest.
Kinds ==
  {"Attach", "Destroy", "PluginDestroyed", "DialogClosed", "Find",
   "SetAutoSize", "LoadUrl", "Go", "Reload", "Stop", "SetZoom"}

Events == {"did-attach", "did-commit", "zoom-changed", "dialog", "destroyed"}

Fits(m) ==
  /\ m.kind = "Attach" => m.arg \in Addresses
  /\ m.kind = "LoadUrl" => m.arg \in Urls
  /\ m.kind = "Go" => m.arg \in Int
  /\ m.kind = "SetZoom" => m.arg \in Zooms
  /\ m.kind = "DialogClosed" => m.arg \in Dialogs

FitsEvent(m) ==
  /\ m.kind = "did-attach" => m.arg \in Addresses
  /\ m.kind = "did-commit" => m.arg \in Commit
  /\ m.kind = "zoom-changed" => m.arg \in Zooms
  /\ m.kind = "dialog" => m.arg \in Dialogs

UpSet == {m \in [kind : Kinds, guest : Nat, arg : Args] : Fits(m)}
DownSet == {m \in [kind : Events, guest : Nat, arg : Args] : FitsEvent(m)}

\* An element while its callback runs: it may name a guest that is about to be
\* made.
AnyElement == [
  attached : BOOLEAN, hidden : BOOLEAN, plugin : BOOLEAN, bound : Nat,
  timer : BOOLEAN, dying : SUBSET Nat, guest : Nat, first : BOOLEAN,
  ignore : BOOLEAN, attr : Addresses, src : Addresses, index : Int, count : Nat,
  zoom : Zooms, held : SUBSET Dialogs]

Turns == [el : AnyElement, msgs : Seq(UpSet), recs : Seq(Addresses), made : BOOLEAN]

-----------------------------------------------------------------------------
(* The handlers of the element, field by field. *)

\* A message is what it was made of.
LEMMA MessageFields ==
  ASSUME NEW kind \in Kinds, NEW g \in Nat, NEW arg \in Args,
         Fits(Message(kind, g, arg))
  PROVE  /\ Message(kind, g, arg) \in UpSet
         /\ Message(kind, g, arg).kind = kind /\ Message(kind, g, arg).guest = g
         /\ Message(kind, g, arg).arg = arg
  BY DEF Message, UpSet

\* Two turns with the same parts are the same.
LEMMA SameTurn ==
  ASSUME NEW t \in Turns, NEW u \in Turns, t.el = u.el, t.msgs = u.msgs,
         t.recs = u.recs, t.made = u.made
  PROVE  t = u
  BY DEF Turns

\* Two elements with the same parts are the same.
LEMMA SameElement ==
  ASSUME NEW d \in AnyElement, NEW e \in AnyElement,
         d.attached = e.attached, d.hidden = e.hidden, d.plugin = e.plugin,
         d.bound = e.bound, d.timer = e.timer, d.dying = e.dying,
         d.guest = e.guest, d.first = e.first, d.ignore = e.ignore,
         d.attr = e.attr, d.src = e.src, d.index = e.index, d.count = e.count,
         d.zoom = e.zoom, d.held = e.held
  PROVE  d = e
  BY DEF AnyElement

\* Sending adds one message to the turn and changes nothing else.
LEMMA SendFields ==
  ASSUME NEW t \in Turns, NEW kind \in Kinds, NEW g \in Nat, NEW arg \in Args,
         Fits(Message(kind, g, arg))
  PROVE  LET u == Send(t, kind, g, arg)
         IN  /\ u \in Turns /\ u.el = t.el /\ u.recs = t.recs /\ u.made = t.made
             /\ u.msgs = Append(t.msgs, Message(kind, g, arg))
<1> DEFINE x == Message(kind, g, arg)
           ms == Append(t.msgs, x)
           u == Send(t, kind, g, arg)
<1>1. x \in UpSet
  BY MessageFields
<1>2. t.msgs \in Seq(UpSet)
  BY DEF Turns
<1>3. u = [t EXCEPT !.msgs = ms]
  BY DEF Send
<1> HIDE DEF x
<1>4. ms \in Seq(UpSet)
  BY <1>1, <1>2
<1> HIDE DEF ms, u
<1>5. /\ u \in Turns /\ u.el = t.el /\ u.recs = t.recs /\ u.made = t.made
      /\ u.msgs = ms
  BY <1>3, <1>4 DEF Turns
<1>6. QED
  BY <1>5 DEF ms, u, x

\* A turn whose element is replaced keeps its messages and records.
LEMMA ElementChanges ==
  ASSUME NEW t \in Turns, NEW e \in AnyElement, NEW u, u = [t EXCEPT !.el = e]
  PROVE  u \in Turns /\ u.el = e /\ u.msgs = t.msgs /\ u.recs = t.recs
         /\ u.made = t.made
  BY DEF Turns

\* The same for single fields of the element: the guest it names,
LEMMA GuestNamed ==
  ASSUME NEW t \in Turns, NEW g \in Nat
  PROVE  LET u == [t EXCEPT !.el.guest = g] IN
         /\ u \in Turns /\ u.el = [t.el EXCEPT !.guest = g]
         /\ u.msgs = t.msgs /\ u.recs = t.recs /\ u.made = t.made
  BY DEF Turns, AnyElement

\* and the property src.
LEMMA SrcSet ==
  ASSUME NEW t \in Turns, NEW a \in Addresses
  PROVE  LET u == [t EXCEPT !.el.src = a] IN
         /\ u \in Turns /\ u.el = [t.el EXCEPT !.src = a]
         /\ u.msgs = t.msgs /\ u.recs = t.recs /\ u.made = t.made
  BY DEF Turns, AnyElement

\* A plugin that holds the guest already sends nothing; another one sends the
\* guest it is given, and the one it held before is about to go.
LEMMA PluginAttachFields ==
  ASSUME NEW t \in Turns, NEW g \in Nat
  PROVE  LET u == PluginAttach(t, g) IN
         /\ u \in Turns /\ u.recs = t.recs /\ u.made = t.made
         /\ IF t.el.bound = g THEN u = t
            ELSE /\ u.msgs = Append(t.msgs, Message("Attach", g, t.el.src))
                 /\ u.el = [t.el EXCEPT !.dying = @ \union ({t.el.bound} \ {0}),
                                        !.bound = g]
<1> DEFINE s == Send(t, "Attach", g, t.el.src)
<1>0. t.el.src \in Addresses
  BY DEF Turns, AnyElement
<1>1. t.el.src \in Args /\ t.el.src \in Addresses /\ "Attach" \in Kinds
  BY <1>0 DEF Args, Kinds
<1>2. Fits(Message("Attach", g, t.el.src))
  BY <1>1 DEF Message, Fits
<1>3. /\ s \in Turns /\ s.el = t.el /\ s.recs = t.recs /\ s.made = t.made
      /\ s.msgs = Append(t.msgs, Message("Attach", g, t.el.src))
  BY <1>1, <1>2, SendFields
<1> HIDE DEF s
<1> DEFINE u == [s EXCEPT !.el.dying = @ \union ({t.el.bound} \ {0}),
                          !.el.bound = g]
<1>4. t.el.bound \in Nat
  BY DEF Turns, AnyElement
<1>5. /\ u \in Turns /\ u.recs = s.recs /\ u.made = s.made /\ u.msgs = s.msgs
      /\ u.el = [s.el EXCEPT !.dying = @ \union ({t.el.bound} \ {0}),
                             !.bound = g]
  BY <1>3, <1>4 DEF Turns, AnyElement
<1>6. PluginAttach(t, g) = IF t.el.bound = g THEN t ELSE u
  BY DEF PluginAttach, s
<1> HIDE DEF u
<1>7. QED
  BY <1>3, <1>5, <1>6

\* attach_window names the guest, and hands it to the plugin if there is one.
LEMMA AttachWindowFields ==
  ASSUME NEW t \in Turns, NEW g \in Nat
  PROVE  LET u == attach_window(t, g) IN
         /\ u \in Turns /\ u.recs = t.recs /\ u.made = t.made
         /\ IF t.el.plugin /\ t.el.bound # g
            THEN /\ u.msgs = Append(t.msgs, Message("Attach", g, t.el.src))
                 /\ u.el = [t.el EXCEPT !.guest = g,
                              !.dying = @ \union ({t.el.bound} \ {0}), !.bound = g]
            ELSE u.msgs = t.msgs /\ u.el = [t.el EXCEPT !.guest = g]
<1> DEFINE n == [t EXCEPT !.el.guest = g]
<1>1. /\ n \in Turns /\ n.el = [t.el EXCEPT !.guest = g]
      /\ n.msgs = t.msgs /\ n.recs = t.recs /\ n.made = t.made
  BY GuestNamed
<1>2. /\ n.el.plugin = t.el.plugin /\ n.el.bound = t.el.bound
      /\ n.el.src = t.el.src /\ n.el.dying = t.el.dying /\ t.el \in AnyElement
  BY DEF Turns, AnyElement
<1>3. attach_window(t, g) = IF t.el.plugin THEN PluginAttach(n, g) ELSE n
  BY DEF attach_window, is_plugin_in_render_tree
<1> HIDE DEF n
<1>4. LET u == PluginAttach(n, g) IN
         /\ u \in Turns /\ u.recs = n.recs /\ u.made = n.made
         /\ IF n.el.bound = g THEN u = n
            ELSE /\ u.msgs = Append(n.msgs, Message("Attach", g, n.el.src))
                 /\ u.el = [n.el EXCEPT !.dying = @ \union ({n.el.bound} \ {0}),
                                        !.bound = g]
  BY <1>1, PluginAttachFields
<1>5. [[t.el EXCEPT !.guest = g] EXCEPT !.dying = @ \union ({n.el.bound} \ {0}), !.bound = g]
      = [t.el EXCEPT !.guest = g, !.dying = @ \union ({t.el.bound} \ {0}), !.bound = g]
  BY <1>2
<1>6. QED
  BY <1>1, <1>2, <1>3, <1>4, <1>5

\* What create_guest makes of a turn.
LEMMA CreateFields ==
  ASSUME NEW t \in Turns, lastId \in Nat
  PROVE  LET u == create_guest(t)
             g == lastId + 1
         IN
         /\ u \in Turns /\ u.recs = t.recs /\ u.made = TRUE
         /\ IF ~t.el.attached
            THEN u.el = t.el /\ u.msgs = Append(t.msgs, Message("Destroy", g, NoUrl))
            ELSE IF t.el.plugin /\ t.el.bound # g
            THEN /\ u.msgs = Append(t.msgs, Message("Attach", g, t.el.src))
                 /\ u.el = [t.el EXCEPT !.guest = g,
                              !.dying = @ \union ({t.el.bound} \ {0}), !.bound = g]
            ELSE u.msgs = t.msgs /\ u.el = [t.el EXCEPT !.guest = g]
<1> DEFINE g == lastId + 1
           n == [t EXCEPT !.made = TRUE]
<1>1. /\ n \in Turns /\ n.el = t.el
      /\ n.msgs = t.msgs /\ n.recs = t.recs /\ n.made = TRUE
  BY DEF Turns
<1>2. create_guest(t) = IF t.el.attached THEN attach_window(n, g)
                        ELSE Send(n, "Destroy", g, NoUrl)
  BY DEF create_guest
<1>3. g \in Nat /\ NoUrl \in Args /\ "Destroy" \in Kinds
      /\ Fits(Message("Destroy", g, NoUrl))
  BY DEF Args, Addresses, Message, Fits, Kinds
<1> HIDE DEF n, g
<1>4. /\ Send(n, "Destroy", g, NoUrl) \in Turns
      /\ Send(n, "Destroy", g, NoUrl).el = n.el
      /\ Send(n, "Destroy", g, NoUrl).recs = n.recs
      /\ Send(n, "Destroy", g, NoUrl).made = n.made
      /\ Send(n, "Destroy", g, NoUrl).msgs = Append(n.msgs, Message("Destroy", g, NoUrl))
  BY <1>1, <1>3, SendFields
<1>5. LET u == attach_window(n, g) IN
         /\ u \in Turns /\ u.recs = n.recs /\ u.made = n.made
         /\ IF n.el.plugin /\ n.el.bound # g
            THEN /\ u.msgs = Append(n.msgs, Message("Attach", g, n.el.src))
                 /\ u.el = [n.el EXCEPT !.guest = g,
                              !.dying = @ \union ({n.el.bound} \ {0}), !.bound = g]
            ELSE u.msgs = n.msgs /\ u.el = [n.el EXCEPT !.guest = g]
  BY <1>1, <1>3, AttachWindowFields
<1>6. CASE t.el.attached
  BY <1>1, <1>2, <1>5, <1>6 DEF g
<1>7. CASE ~t.el.attached
  BY <1>1, <1>2, <1>4, <1>7 DEF g
<1>8. QED
  BY <1>6, <1>7

\* A native sends one request to the guest of the element, or none.
LEMMA NativeFields ==
  ASSUME NEW t \in Turns, NEW kind \in Kinds, NEW arg \in Args,
         t.el.guest # 0 => Fits(Message(kind, t.el.guest, arg))
  PROVE  LET u == Native(t, kind, arg)
         IN  /\ u \in Turns /\ u.el = t.el /\ u.recs = t.recs /\ u.made = t.made
             /\ u.msgs = IF t.el.guest = 0 THEN t.msgs
                         ELSE Append(t.msgs, Message(kind, t.el.guest, arg))
<1>1. t.el.guest \in Nat
  BY DEF Turns, AnyElement
<1>2. CASE t.el.guest = 0
  BY <1>2 DEF Native
<1>3. CASE t.el.guest # 0
  BY <1>1, <1>3, SendFields DEF Native
<1>4. QED
  BY <1>2, <1>3

Creates(e) == e.attr # NoUrl /\ e.guest = 0 /\ e.first

\* The element and the messages after attr_src_parse.
ParsedElement(e) ==
  LET s == [e EXCEPT !.src = e.attr]
      f == [s EXCEPT !.first = FALSE]
      g == lastId + 1
  IN  IF ~Creates(e) THEN s
      ELSE IF ~e.attached THEN f
      ELSE IF e.plugin /\ e.bound # g
      THEN [f EXCEPT !.guest = g, !.dying = @ \union ({e.bound} \ {0}), !.bound = g]
      ELSE [f EXCEPT !.guest = g]

ParsedMessages(e, msgs) ==
  LET g == lastId + 1
  IN  IF ~Creates(e)
      THEN IF e.attr # NoUrl /\ e.guest # 0
           THEN Append(msgs, Message("LoadUrl", e.guest, e.attr)) ELSE msgs
      ELSE IF ~e.attached THEN Append(msgs, Message("Destroy", g, NoUrl))
      ELSE IF e.plugin /\ e.bound # g THEN Append(msgs, Message("Attach", g, e.attr))
      ELSE msgs

\* attr_src_parse is ParsedElement and ParsedMessages, whichever case it takes.
LEMMA ParseFields ==
  ASSUME NEW t \in Turns, lastId \in Nat
  PROVE  LET u == attr_src_parse(t) IN
         /\ u \in Turns /\ u.recs = t.recs
         /\ u.made = (t.made \/ Creates(t.el))
         /\ u.el = ParsedElement(t.el) /\ u.msgs = ParsedMessages(t.el, t.msgs)
<1> DEFINE p == [t EXCEPT !.el.src = t.el.attr]
           q == [p EXCEPT !.el.first = FALSE]
           e == t.el
<1>0. e \in AnyElement /\ e.attr \in Addresses /\ e.guest \in Nat /\ t.made \in BOOLEAN
  BY DEF Turns, AnyElement
<1>1. /\ p \in Turns /\ p.el = [e EXCEPT !.src = e.attr]
      /\ p.msgs = t.msgs /\ p.recs = t.recs /\ p.made = t.made
  BY <1>0, SrcSet
<1>2. /\ p.el.guest = e.guest /\ p.el.first = e.first /\ p.el.attr = e.attr
  BY <1>0, <1>1 DEF AnyElement
<1>3. /\ q \in Turns /\ q.el = [p.el EXCEPT !.first = FALSE]
      /\ q.msgs = t.msgs /\ q.recs = t.recs /\ q.made = t.made
<2> HIDE DEF p
<2>1. QED
  BY <1>1 DEF Turns, AnyElement
<1>4. /\ q.el.attached = e.attached /\ q.el.plugin = e.plugin
      /\ q.el.bound = e.bound /\ q.el.src = e.attr /\ q.el.dying = e.dying
<2> HIDE DEF q, p, e
<2>1. /\ p.el.attached = e.attached /\ p.el.plugin = e.plugin
      /\ p.el.bound = e.bound /\ p.el.src = e.attr /\ p.el.dying = e.dying
  BY <1>0, <1>1 DEF AnyElement
<2>2. p.el \in AnyElement
  BY <1>1 DEF Turns
<2>3. QED
  BY <1>3, <2>1, <2>2 DEF AnyElement
<1>5. attr_src_parse(t) =
        IF e.attr # NoUrl /\ e.guest # 0 THEN api_loadUrl(p, e.attr)
        ELSE IF Creates(e) THEN create_guest(q) ELSE p
<2> HIDE DEF p, q
<2>1. CASE e.attr = NoUrl
  BY <2>1 DEF attr_src_parse, Creates, p
<2>2. CASE e.attr # NoUrl /\ e.guest # 0
  BY <2>2 DEF attr_src_parse, p
<2>3. CASE e.attr # NoUrl /\ e.guest = 0 /\ e.first
  BY <1>2, <2>3 DEF attr_src_parse, p, q, Creates
<2>4. CASE e.attr # NoUrl /\ e.guest = 0 /\ ~e.first
  BY <1>2, <2>4 DEF attr_src_parse, p, Creates
<2>5. QED
  BY <2>1, <2>2, <2>3, <2>4
<1> HIDE DEF p, q
<1>6. CASE e.attr # NoUrl /\ e.guest # 0
<2>1. e.attr \in Urls /\ e.attr \in Args /\ "LoadUrl" \in Kinds
  BY <1>0, <1>6 DEF Addresses, Args, Kinds
<2>2. Fits(Message("LoadUrl", e.guest, e.attr))
  BY <2>1 DEF Fits, Message
<2>3. LET u == Native(p, "LoadUrl", e.attr)
      IN  /\ u \in Turns /\ u.el = p.el /\ u.recs = p.recs /\ u.made = p.made
          /\ u.msgs = IF p.el.guest = 0 THEN p.msgs
                      ELSE Append(p.msgs, Message("LoadUrl", p.el.guest, e.attr))
<3> HIDE DEF e
<3>1. QED
  BY <1>1, <1>2, <2>1, <2>2, NativeFields
<2>4. ~Creates(e)
  BY <1>6 DEF Creates
<2> HIDE DEF e
<2>5. /\ ParsedElement(e) = p.el
      /\ ParsedMessages(e, t.msgs) = Append(t.msgs, Message("LoadUrl", e.guest, e.attr))
  BY <1>1, <1>6, <2>4 DEF ParsedElement, ParsedMessages
<2>6. attr_src_parse(t) = Native(p, "LoadUrl", e.attr)
  BY <1>5, <1>6 DEF api_loadUrl
<2>7. QED
  BY <1>0, <1>1, <1>2, <1>6, <2>3, <2>4, <2>5, <2>6 DEF e
<1>7. CASE Creates(e)
<2> HIDE DEF e
<2>1. attr_src_parse(t) = create_guest(q)
  BY <1>5, <1>7 DEF Creates
<2> DEFINE u == create_guest(q)
           g == lastId + 1
<2>2. /\ u \in Turns /\ u.recs = q.recs /\ u.made = TRUE
         /\ IF ~q.el.attached
            THEN u.el = q.el /\ u.msgs = Append(q.msgs, Message("Destroy", g, NoUrl))
            ELSE IF q.el.plugin /\ q.el.bound # g
            THEN /\ u.msgs = Append(q.msgs, Message("Attach", g, q.el.src))
                 /\ u.el = [q.el EXCEPT !.guest = g,
                              !.dying = @ \union ({q.el.bound} \ {0}), !.bound = g]
            ELSE u.msgs = q.msgs /\ u.el = [q.el EXCEPT !.guest = g]
  BY <1>3, CreateFields
<2> HIDE DEF u
<2>3. u.el = ParsedElement(e)
  BY <1>1, <1>3, <1>4, <1>7, <2>2 DEF ParsedElement
<2>4. u.msgs = ParsedMessages(e, t.msgs)
  BY <1>3, <1>4, <1>7, <2>2 DEF ParsedMessages
<2>5. QED
  BY <1>3, <1>7, <2>1, <2>2, <2>3, <2>4 DEF u, e
<1>8. CASE ~Creates(e) /\ ~(e.attr # NoUrl /\ e.guest # 0)
<2> HIDE DEF e
<2>1. attr_src_parse(t) = p
  BY <1>5, <1>8
<2>2. ParsedElement(e) = p.el /\ ParsedMessages(e, t.msgs) = t.msgs
  BY <1>1, <1>8 DEF ParsedElement, ParsedMessages
<2>3. QED
  BY <1>0, <1>1, <1>8, <2>1, <2>2 DEF e
<1>9. QED
  BY <1>6, <1>7, <1>8

\* A written attribute owes the observer one record, of the value before.
LEMMA WrittenFields ==
  ASSUME NEW t \in Turns, NEW new \in Addresses
  PROVE  LET u == Written(t, new) IN
         /\ u \in Turns /\ u.el = [t.el EXCEPT !.attr = new]
         /\ u.recs = Append(t.recs, t.el.attr)
         /\ u.msgs = t.msgs /\ u.made = t.made
<1>1. t.el.attr \in Addresses
  BY DEF Turns, AnyElement
<1> DEFINE s == [t EXCEPT !.el.attr = new]
           r == Append(t.recs, t.el.attr)
<1>2. /\ s \in Turns /\ s.el = [t.el EXCEPT !.attr = new]
      /\ s.recs = t.recs /\ s.msgs = t.msgs /\ s.made = t.made
  BY <1>1 DEF Turns, AnyElement
<1>3. r \in Seq(Addresses)
  BY <1>1 DEF Turns
<1>4. Written(t, new) = [s EXCEPT !.recs = r]
  BY DEF Written
<1> HIDE DEF s, r
<1>5. QED
  BY <1>2, <1>3, <1>4 DEF Turns, r

\* The flag that silences a change of src is a field like the others.
LEMMA IgnoreSet ==
  ASSUME NEW t \in Turns, NEW b \in BOOLEAN
  PROVE  LET u == [t EXCEPT !.el.ignore = b] IN
         /\ u \in Turns /\ u.el = [t.el EXCEPT !.ignore = b]
         /\ u.recs = t.recs /\ u.msgs = t.msgs /\ u.made = t.made
  BY DEF Turns, AnyElement

\* What parsing makes of an element does not depend on its property src.
LEMMA ParsedAgain ==
  ASSUME NEW e \in AnyElement, NEW a \in Addresses
  PROVE  /\ [e EXCEPT !.src = a] \in AnyElement
         /\ Creates([e EXCEPT !.src = a]) <=> Creates(e)
         /\ ParsedElement([e EXCEPT !.src = a]) = ParsedElement(e)
         /\ \A msgs : ParsedMessages([e EXCEPT !.src = a], msgs) = ParsedMessages(e, msgs)
<1> DEFINE d == [e EXCEPT !.src = a]
<1>1. /\ d \in AnyElement /\ d.attr = e.attr /\ d.guest = e.guest
      /\ d.first = e.first /\ d.attached = e.attached /\ d.plugin = e.plugin
      /\ d.bound = e.bound /\ d.dying = e.dying /\ e.attr \in Addresses
  BY DEF AnyElement
<1>2. [d EXCEPT !.src = d.attr] = [e EXCEPT !.src = e.attr]
<2>1. [d EXCEPT !.src = d.attr] \in AnyElement /\ [e EXCEPT !.src = e.attr] \in AnyElement
  BY <1>1 DEF AnyElement
<2>2. QED
  BY <2>1, <1>1, SameElement DEF AnyElement
<1> HIDE DEF d
<1>3. Creates(d) <=> Creates(e)
  BY <1>1 DEF Creates
<1>4. ParsedElement(d) = ParsedElement(e)
  BY <1>1, <1>2, <1>3 DEF ParsedElement
<1>5. \A msgs : ParsedMessages(d, msgs) = ParsedMessages(e, msgs)
  BY <1>1, <1>3 DEF ParsedMessages
<1>6. QED
  BY <1>1, <1>3, <1>4, <1>5 DEF d

\* A change of src is swallowed by the flag, which is spent, or is parsed.
LEMMA SrcChangedFields ==
  ASSUME NEW t \in Turns, NEW new \in Addresses, lastId \in Nat
  PROVE  LET u == src_changed(t, new) IN
         /\ u \in Turns /\ u.recs = t.recs
         /\ IF t.el.ignore
            THEN /\ u.el = [t.el EXCEPT !.src = new, !.ignore = FALSE]
                 /\ u.msgs = t.msgs /\ u.made = t.made
            ELSE /\ u.el = ParsedElement(t.el)
                 /\ u.msgs = ParsedMessages(t.el, t.msgs)
                 /\ u.made = (t.made \/ Creates(t.el))
<1> DEFINE s == [t EXCEPT !.el.src = new]
<1>1. /\ s \in Turns /\ s.el = [t.el EXCEPT !.src = new]
      /\ s.msgs = t.msgs /\ s.recs = t.recs /\ s.made = t.made
  BY SrcSet
<1>2. s.el.ignore = t.el.ignore /\ t.el \in AnyElement /\ t.el.ignore \in BOOLEAN
  BY DEF Turns, AnyElement
<1>3. src_changed(t, new) = IF s.el.ignore THEN [s EXCEPT !.el.ignore = FALSE]
                            ELSE attr_src_parse(s)
  BY DEF src_changed
<1> HIDE DEF s
<1>4. CASE t.el.ignore
<2>1. LET u == [s EXCEPT !.el.ignore = FALSE] IN
         /\ u \in Turns /\ u.el = [s.el EXCEPT !.ignore = FALSE]
         /\ u.recs = s.recs /\ u.msgs = s.msgs /\ u.made = s.made
  BY <1>1, IgnoreSet
<2>2. QED
  BY <1>1, <1>2, <1>3, <1>4, <2>1
<1>5. CASE ~t.el.ignore
<2>1. LET u == attr_src_parse(s) IN
         /\ u \in Turns /\ u.recs = s.recs
         /\ u.made = (s.made \/ Creates(s.el))
         /\ u.el = ParsedElement(s.el) /\ u.msgs = ParsedMessages(s.el, s.msgs)
  BY <1>1, ParseFields
<2>2. /\ Creates(s.el) <=> Creates(t.el)
      /\ ParsedElement(s.el) = ParsedElement(t.el)
      /\ ParsedMessages(s.el, s.msgs) = ParsedMessages(t.el, t.msgs)
  BY <1>1, <1>2, ParsedAgain
<2>3. (s.made \/ Creates(s.el)) = (t.made \/ Creates(t.el))
  BY <1>1, <2>2
<2>4. QED
  BY <1>1, <1>2, <1>3, <1>5, <2>1, <2>2, <2>3
<1>6. QED
  BY <1>4, <1>5

Observed(t, rec) ==
  IF rec # t.el.attr THEN t ELSE webview_mutation_handler(t, rec, rec)

\* The observer, for the records of one write, which are two at most.
LEMMA ObserverSteps ==
  ASSUME NEW t \in Turns
  PROVE  /\ t.recs = <<>> => src_observer(t) = [t EXCEPT !.recs = <<>>]
         /\ \A r : t.recs = <<r>>
              => src_observer(t) = [Observed(t, r) EXCEPT !.recs = <<>>]
         /\ Len(t.recs) = 2
              => src_observer(t) = [Observed(Observed(t, t.recs[1]), t.recs[2])
                                      EXCEPT !.recs = <<>>]
<1> DEFINE n == Len(t.recs)
           Body(g) == [i \in 0..Len(t.recs) |->
              IF i = 0 THEN t
              ELSE IF t.recs[i] # g[i - 1].el.attr THEN g[i - 1]
              ELSE webview_mutation_handler(g[i - 1], t.recs[i], t.recs[i])]
           S1 == Observed(t, t.recs[1])
           S2 == Observed(S1, t.recs[2])
           G == [i \in 0..n |-> IF i = 0 THEN t ELSE IF i = 1 THEN S1 ELSE S2]
           f == CHOOSE g : g = Body(g)
<1>1. src_observer(t) = [f[n] EXCEPT !.recs = <<>>]
  BY Zenon DEF src_observer
<1>2. SUFFICES ASSUME n \in {0, 1, 2}
               PROVE  f[n] = IF n = 0 THEN t ELSE IF n = 1 THEN S1 ELSE S2
<2> HIDE DEF f, S1, S2
<2>1. CASE t.recs = <<>>
  BY <1>1, <1>2, <2>1
<2>2. ASSUME NEW r, t.recs = <<r>>
      PROVE  src_observer(t) = [Observed(t, r) EXCEPT !.recs = <<>>]
<3>1. n = 1 /\ t.recs[1] = r
  BY <2>2
<3>2. S1 = Observed(t, r)
  BY <3>1 DEF S1
<3>3. QED
  BY <1>1, <1>2, <3>1, <3>2
<2>3. ASSUME n = 2
      PROVE  src_observer(t) = [Observed(Observed(t, t.recs[1]), t.recs[2])
                                  EXCEPT !.recs = <<>>]
<3>1. S2 = Observed(Observed(t, t.recs[1]), t.recs[2])
  BY DEF S2, S1
<3>2. QED
  BY <1>1, <1>2, <2>3, <3>1
<2>4. QED
  BY <1>1, <1>2, <2>1, <2>2, <2>3
<1>3. G = Body(G)
<2> HIDE DEF S1, S2
<2>1. ASSUME NEW i \in 0..n
      PROVE  G[i] = IF i = 0 THEN t
              ELSE IF t.recs[i] # G[i - 1].el.attr THEN G[i - 1]
              ELSE webview_mutation_handler(G[i - 1], t.recs[i], t.recs[i])
<3>1. CASE i = 0
  BY <3>1
<3>2. CASE i = 1
<4>1. G[i] = S1 /\ G[i - 1] = t
  BY <3>2
<4>2. QED
  BY <3>2, <4>1, Zenon DEF S1, Observed
<3>3. CASE i = 2
<4>1. G[i] = S2 /\ G[i - 1] = S1
  BY <3>3
<4>2. QED
  BY <3>3, <4>1, Zenon DEF S2, Observed
<3>4. QED
  BY <1>2, <3>1, <3>2, <3>3
<2>2. QED
  BY <2>1, Zenon
<1>4. f = Body(f)
  BY <1>3, Zenon
<1> HIDE DEF f
<1>5. ASSUME NEW i \in 0..n
      PROVE  f[i] = IF i = 0 THEN t
              ELSE IF t.recs[i] # f[i - 1].el.attr THEN f[i - 1]
              ELSE webview_mutation_handler(f[i - 1], t.recs[i], t.recs[i])
<2>1. f[i] = Body(f)[i]
  BY <1>4
<2>2. QED
  BY <2>1, Zenon
<1>6. f[0] = t
  BY <1>2, <1>5
<1>7. n >= 1 => f[1] = S1
<2>1. SUFFICES ASSUME n >= 1 PROVE f[1] = S1
  OBVIOUS
<2>2. 1 \in 0..n /\ 1 # 0 /\ 1 - 1 = 0
  BY <2>1
<2>3. QED
  BY <1>5, <1>6, <2>2, Zenon DEF Observed
<1>8. n = 2 => f[2] = S2
<2>1. SUFFICES ASSUME n = 2 PROVE f[2] = S2
  OBVIOUS
<2>2. 2 \in 0..n /\ 2 # 0 /\ 2 - 1 = 1 /\ n >= 1
  BY <2>1
<2> HIDE DEF S1
<2>3. QED
  BY <1>5, <1>7, <2>2, Zenon DEF Observed
<1> HIDE DEF S1, S2
<1>9. CASE n = 0
  BY <1>6, <1>9
<1>10. CASE n = 1
  BY <1>7, <1>10
<1>11. CASE n = 2
  BY <1>8, <1>11
<1>12. QED
  BY <1>2, <1>9, <1>10, <1>11

\* Nothing but what they handle changes an element or what was sent.
LEMMA ParsedKeeps ==
  ASSUME NEW e \in AnyElement, lastId \in Nat
  PROVE  LET p == ParsedElement(e)
             g == lastId + 1
         IN  /\ p \in AnyElement
             /\ p.attached = e.attached /\ p.hidden = e.hidden /\ p.plugin = e.plugin
             /\ p.timer = e.timer /\ p.ignore = e.ignore /\ p.attr = e.attr
             /\ p.src = e.attr /\ p.index = e.index /\ p.count = e.count
             /\ p.zoom = e.zoom /\ p.held = e.held
             /\ ~Creates(e) => /\ p.guest = e.guest /\ p.first = e.first
                               /\ p.bound = e.bound /\ p.dying = e.dying
             /\ Creates(e) /\ ~e.attached => /\ p.guest = 0 /\ p.first = FALSE
                               /\ p.bound = e.bound /\ p.dying = e.dying
             /\ Creates(e) /\ e.attached /\ ~e.plugin =>
                               /\ p.guest = g /\ p.first = FALSE
                               /\ p.bound = e.bound /\ p.dying = e.dying
             /\ Creates(e) /\ e.attached /\ e.plugin =>
                               /\ p.guest = g /\ p.first = FALSE /\ p.bound = g
                               /\ e.dying \subseteq p.dying
                               /\ p.dying \subseteq e.dying \union ({e.bound} \ {0})
<1> DEFINE s == [e EXCEPT !.src = e.attr]
           f == [s EXCEPT !.first = FALSE]
           g == lastId + 1
           d == e.dying \union ({e.bound} \ {0})
<1>0. /\ e.attr \in Addresses /\ g \in Nat /\ e.dying \in SUBSET Nat /\ d \in SUBSET Nat
      /\ e.bound \in Nat
  BY DEF AnyElement
<1>1. /\ s \in AnyElement
      /\ s.attached = e.attached /\ s.hidden = e.hidden /\ s.plugin = e.plugin
      /\ s.timer = e.timer /\ s.ignore = e.ignore /\ s.attr = e.attr
      /\ s.src = e.attr /\ s.index = e.index /\ s.count = e.count
      /\ s.zoom = e.zoom /\ s.held = e.held /\ s.guest = e.guest
      /\ s.first = e.first /\ s.bound = e.bound /\ s.dying = e.dying
  BY <1>0 DEF AnyElement
<1> HIDE DEF s
<1>2. /\ f \in AnyElement
      /\ f.attached = s.attached /\ f.hidden = s.hidden /\ f.plugin = s.plugin
      /\ f.timer = s.timer /\ f.ignore = s.ignore /\ f.attr = s.attr
      /\ f.src = s.src /\ f.index = s.index /\ f.count = s.count
      /\ f.zoom = s.zoom /\ f.held = s.held /\ f.guest = s.guest
      /\ f.first = FALSE /\ f.bound = s.bound /\ f.dying = s.dying
  BY <1>1 DEF AnyElement
<1> HIDE DEF f
<1> DEFINE n == [f EXCEPT !.guest = g]
<1>3. /\ n \in AnyElement
      /\ n.attached = f.attached /\ n.hidden = f.hidden /\ n.plugin = f.plugin
      /\ n.timer = f.timer /\ n.ignore = f.ignore /\ n.attr = f.attr
      /\ n.src = f.src /\ n.index = f.index /\ n.count = f.count
      /\ n.zoom = f.zoom /\ n.held = f.held /\ n.guest = g
      /\ n.first = f.first /\ n.bound = f.bound /\ n.dying = f.dying
  BY <1>0, <1>2 DEF AnyElement
<1> DEFINE k == [n EXCEPT !.dying = d]
           b == [k EXCEPT !.bound = g]
<1> HIDE DEF n
<1>4. /\ k \in AnyElement
      /\ k.attached = n.attached /\ k.hidden = n.hidden /\ k.plugin = n.plugin
      /\ k.timer = n.timer /\ k.ignore = n.ignore /\ k.attr = n.attr
      /\ k.src = n.src /\ k.index = n.index /\ k.count = n.count
      /\ k.zoom = n.zoom /\ k.held = n.held /\ k.guest = n.guest
      /\ k.first = n.first /\ k.bound = n.bound /\ k.dying = d
  BY <1>0, <1>3 DEF AnyElement
<1> HIDE DEF k
<1>5. /\ b \in AnyElement
      /\ b.attached = k.attached /\ b.hidden = k.hidden /\ b.plugin = k.plugin
      /\ b.timer = k.timer /\ b.ignore = k.ignore /\ b.attr = k.attr
      /\ b.src = k.src /\ b.index = k.index /\ b.count = k.count
      /\ b.zoom = k.zoom /\ b.held = k.held /\ b.guest = k.guest
      /\ b.first = k.first /\ b.bound = g /\ b.dying = k.dying
  BY <1>0, <1>4 DEF AnyElement
<1>6. ParsedElement(e) = IF ~Creates(e) THEN s
                         ELSE IF ~e.attached THEN f
                         ELSE IF e.plugin /\ e.bound # g THEN b ELSE n
<2>1. [f EXCEPT !.guest = g, !.dying = @ \union ({e.bound} \ {0}), !.bound = g] = b
  BY <1>0, <1>1, <1>2, <1>3 DEF b, k, n
<2>2. QED
  BY <2>1 DEF ParsedElement, s, f, n
<1> HIDE DEF b
<1>7. Creates(e) => e.guest = 0
  BY DEF Creates
<1>8. e.plugin \in BOOLEAN /\ e.attached \in BOOLEAN
  BY DEF AnyElement
<1>9. CASE ~Creates(e)
  BY <1>1, <1>6, <1>9
<1>10. CASE Creates(e) /\ ~e.attached
  BY <1>1, <1>2, <1>6, <1>7, <1>10
<1>11. CASE Creates(e) /\ e.attached /\ ~(e.plugin /\ e.bound # g)
<2> DEFINE p == ParsedElement(e)
<2>1. p = n
  BY <1>6, <1>11
<2> HIDE DEF p
<2>2. /\ p \in AnyElement
      /\ p.attached = e.attached /\ p.hidden = e.hidden /\ p.plugin = e.plugin
      /\ p.timer = e.timer /\ p.ignore = e.ignore /\ p.attr = e.attr
      /\ p.src = e.attr /\ p.index = e.index /\ p.count = e.count
      /\ p.zoom = e.zoom /\ p.held = e.held
  BY <1>1, <1>2, <1>3, <2>1
<2>3. /\ p.guest = g /\ p.first = FALSE /\ p.bound = e.bound /\ p.dying = e.dying
  BY <1>1, <1>2, <1>3, <2>1
<2>4. QED
  BY <1>7, <1>11, <2>2, <2>3 DEF p
<1>12. CASE Creates(e) /\ e.attached /\ e.plugin /\ e.bound # g
<2> DEFINE p == ParsedElement(e)
<2>1. p = b /\ p \in AnyElement
  BY <1>5, <1>6, <1>12
<2> HIDE DEF p
<2>2. /\ p.attached = e.attached /\ p.hidden = e.hidden /\ p.plugin = e.plugin
      /\ p.timer = e.timer /\ p.ignore = e.ignore /\ p.attr = e.attr
      /\ p.src = e.attr /\ p.index = e.index /\ p.count = e.count
      /\ p.zoom = e.zoom /\ p.held = e.held
  BY <1>1, <1>2, <1>3, <1>4, <1>5, <2>1
<2>3. /\ p.guest = g /\ p.first = FALSE /\ p.bound = g /\ p.dying = d
  BY <1>1, <1>2, <1>3, <1>4, <1>5, <2>1
<2>4. QED
  BY <1>12, <2>1, <2>2, <2>3 DEF p
<1>13. QED
  BY <1>9, <1>10, <1>11, <1>12

\* A turn whose records were delivered is the same turn without them.
LEMMA RecsDropped ==
  ASSUME NEW t \in Turns
  PROVE  LET u == [t EXCEPT !.recs = <<>>] IN
         /\ u \in Turns /\ u.el = t.el /\ u.recs = <<>>
         /\ u.msgs = t.msgs /\ u.made = t.made
         /\ t.recs = <<>> => u = t
<1> DEFINE u == [t EXCEPT !.recs = <<>>]
<1>0. <<>> \in Seq(Addresses)
  OBVIOUS
<1>1. /\ u \in Turns /\ u.el = t.el /\ u.recs = <<>>
      /\ u.msgs = t.msgs /\ u.made = t.made
  BY <1>0 DEF Turns
<1> HIDE DEF u
<1>2. t.recs = <<>> => u = t
  BY <1>1, SameTurn
<1>3. QED
  BY <1>1, <1>2 DEF u

\* Without records the observer does nothing.
LEMMA NothingObserved ==
  ASSUME NEW t \in Turns, t.recs = <<>>
  PROVE  src_observer(t) = t
  BY ObserverSteps, RecsDropped

\* A turn begins with the element and nothing else.
LEMMA TurnFields ==
  ASSUME el \in AnyElement
  PROVE  /\ Turn \in Turns /\ Turn.el = el /\ Turn.msgs = <<>> /\ Turn.recs = <<>>
         /\ Turn.made = FALSE
  BY DEF Turn, Turns

Assigned(new) == IF new = NoUrl THEN el.attr ELSE new

\* An assignment to src, with the records of it observed, parses src once.
LEMMA AssignFields ==
  ASSUME el \in AnyElement, lastId \in Nat, ~el.ignore, NEW new \in Addresses,
         new # NoUrl \/ el.attr # NoUrl
  PROVE  LET u == src_observer(setAttribute(Turn, new))
             e == [el EXCEPT !.attr = Assigned(new)]
         IN  /\ u \in Turns /\ u.recs = <<>> /\ e \in AnyElement
             /\ u.el = ParsedElement(e) /\ u.msgs = ParsedMessages(e, <<>>)
             /\ u.made = Creates(e)
<1> DEFINE u == src_observer(setAttribute(Turn, new))
           e == [el EXCEPT !.attr = Assigned(new)]
           w == Written(Turn, new)
           old == el.attr
<1>0. el.ignore = FALSE /\ old \in Addresses
  BY DEF AnyElement
<1>1. /\ Turn \in Turns /\ Turn.el = el /\ Turn.msgs = <<>> /\ Turn.recs = <<>>
      /\ Turn.made = FALSE
  BY TurnFields
<1>2. /\ w \in Turns /\ w.el = [el EXCEPT !.attr = new]
      /\ w.recs = Append(Turn.recs, old) /\ w.msgs = <<>> /\ w.made = FALSE
  BY <1>1, WrittenFields
<1>3. w.recs = <<old>>
  BY <1>1, <1>2
<1>4. w.el \in AnyElement /\ w.el.attr = new /\ w.el.ignore = FALSE
  BY <1>0, <1>2 DEF AnyElement
<1>5. e \in AnyElement /\ e.attr = Assigned(new) /\ e.ignore = FALSE
  BY <1>0 DEF AnyElement, Assigned
<1> HIDE DEF w
<1>6. setAttribute(Turn, new) = IF new = old THEN w
                                ELSE webview_mutation_handler(w, old, new)
  BY <1>1 DEF setAttribute, w
<1>7. CASE new = old
<2>1. setAttribute(Turn, new) = w /\ new # NoUrl
  BY <1>6, <1>7
<2>2. src_observer(w) = [Observed(w, old) EXCEPT !.recs = <<>>]
  BY <1>2, <1>3, ObserverSteps
<2>3. Observed(w, old) = src_changed(w, old)
  BY <1>4, <1>7, <2>1 DEF Observed, webview_mutation_handler
<2>4. LET v == src_changed(w, old) IN
         /\ v \in Turns /\ v.recs = w.recs
         /\ IF w.el.ignore
            THEN /\ v.el = [w.el EXCEPT !.src = old, !.ignore = FALSE]
                 /\ v.msgs = w.msgs /\ v.made = w.made
            ELSE /\ v.el = ParsedElement(w.el)
                 /\ v.msgs = ParsedMessages(w.el, w.msgs)
                 /\ v.made = (w.made \/ Creates(w.el))
  BY <1>0, <1>2, SrcChangedFields
<2>5. w.el = e
  BY <1>2, <1>7, <2>1 DEF Assigned
<2> DEFINE v == src_changed(w, old)
<2> HIDE DEF v
<2>6. LET x == [v EXCEPT !.recs = <<>>] IN
         /\ x \in Turns /\ x.el = v.el /\ x.recs = <<>>
         /\ x.msgs = v.msgs /\ x.made = v.made
  BY <2>4, RecsDropped DEF v
<2>7. u = [v EXCEPT !.recs = <<>>]
  BY <2>1, <2>2, <2>3 DEF v
<2>8. /\ v.el = ParsedElement(e) /\ v.msgs = ParsedMessages(e, <<>>)
      /\ v.made = Creates(e)
  BY <1>2, <1>4, <2>4, <2>5 DEF v, Creates
<2> HIDE DEF u, e
<2>9. QED
  BY <1>5, <2>6, <2>7, <2>8 DEF u, e
<1>8. CASE new # old /\ new # NoUrl
<2> DEFINE v == src_changed(w, new)
<2>1. setAttribute(Turn, new) = v
  BY <1>6, <1>8 DEF webview_mutation_handler
<2>2. /\ v \in Turns /\ v.recs = w.recs
         /\ IF w.el.ignore
            THEN /\ v.el = [w.el EXCEPT !.src = new, !.ignore = FALSE]
                 /\ v.msgs = w.msgs /\ v.made = w.made
            ELSE /\ v.el = ParsedElement(w.el)
                 /\ v.msgs = ParsedMessages(w.el, w.msgs)
                 /\ v.made = (w.made \/ Creates(w.el))
  BY <1>2, SrcChangedFields
<2>3. w.el = e
  BY <1>2, <1>8 DEF Assigned
<2> HIDE DEF v, e
<2>4. /\ v.el = ParsedElement(e) /\ v.msgs = ParsedMessages(e, <<>>)
      /\ v.made = Creates(e) /\ v.recs = <<old>>
  BY <1>2, <1>3, <1>4, <2>2, <2>3 DEF Creates
<2>5. v.el.attr = new
  BY <1>4, <2>3, <2>4, ParsedKeeps
<2>6. src_observer(v) = [Observed(v, old) EXCEPT !.recs = <<>>]
  BY <2>2, <2>4, ObserverSteps
<2>7. Observed(v, old) = v
  BY <1>8, <2>5 DEF Observed
<2>8. LET x == [v EXCEPT !.recs = <<>>] IN
         /\ x \in Turns /\ x.el = v.el /\ x.recs = <<>>
         /\ x.msgs = v.msgs /\ x.made = v.made
  BY <2>2, RecsDropped
<2>9. u = [v EXCEPT !.recs = <<>>]
  BY <2>1, <2>6, <2>7
<2> HIDE DEF u
<2>10. QED
  BY <1>5, <2>4, <2>8, <2>9 DEF u, e
<1>9. CASE new = NoUrl /\ old # NoUrl
<2> DEFINE i == [w EXCEPT !.el.ignore = TRUE]
           x == Written(i, old)
           r == src_changed(x, old)
           v == src_changed(r, old)
<2>1. setAttribute(Turn, new) = r
  BY <1>6, <1>9, Zenon DEF webview_mutation_handler
<2>2. /\ i \in Turns /\ i.el = [w.el EXCEPT !.ignore = TRUE]
      /\ i.recs = <<old>> /\ i.msgs = <<>> /\ i.made = FALSE
  BY <1>2, <1>3, IgnoreSet
<2>3. i.el \in AnyElement /\ i.el.attr = NoUrl
<3>1. w.el \in AnyElement /\ w.el.attr = NoUrl
  BY <1>4, <1>9
<3> HIDE DEF i
<3>2. i.el.attr = w.el.attr
  BY <2>2, <3>1 DEF AnyElement
<3>3. QED
  BY <2>2, <3>1, <3>2 DEF Turns
<2> HIDE DEF i
<2>4. /\ x \in Turns /\ x.el = [i.el EXCEPT !.attr = old]
      /\ x.recs = Append(i.recs, i.el.attr) /\ x.msgs = <<>> /\ x.made = FALSE
  BY <1>0, <2>2, WrittenFields
<2>5. Len(x.recs) = 2 /\ x.recs[1] = old /\ x.recs[2] = NoUrl
<3>1. <<old>> \in Seq(Addresses) /\ NoUrl \in Addresses
  BY <1>0 DEF Addresses
<3>2. QED
  BY <2>2, <2>3, <2>4, <3>1
<2>6. x.el.ignore = TRUE
  BY <1>4, <2>2, <2>3, <2>4 DEF AnyElement
<2> HIDE DEF x
<2>7. /\ r \in Turns /\ r.recs = x.recs
      /\ r.el = [x.el EXCEPT !.src = old, !.ignore = FALSE]
      /\ r.msgs = x.msgs /\ r.made = x.made
  BY <1>0, <2>4, <2>6, SrcChangedFields
<2> HIDE DEF r
<2>8. /\ r.el \in AnyElement /\ r.el.attr = old /\ r.el.ignore = FALSE
  BY <1>0, <2>3, <2>4, <2>7 DEF Turns, AnyElement
<2>9. r.el = [e EXCEPT !.src = old]
<3> DEFINE y == [e EXCEPT !.src = old]
<3>1. e.attr = old
  BY <1>5, <1>9 DEF Assigned
<3>2. y \in AnyElement
  BY <1>0, <1>5 DEF AnyElement
<3>3. /\ y.attached = el.attached /\ y.hidden = el.hidden /\ y.plugin = el.plugin
      /\ y.timer = el.timer /\ y.ignore = FALSE /\ y.attr = old
      /\ y.src = old /\ y.index = el.index /\ y.count = el.count
      /\ y.zoom = el.zoom /\ y.held = el.held /\ y.guest = el.guest
      /\ y.first = el.first /\ y.bound = el.bound /\ y.dying = el.dying
  BY <1>0, <1>5, <3>1 DEF AnyElement
<3>4. LET z == w.el IN
      /\ z \in AnyElement
      /\ z.attached = el.attached /\ z.hidden = el.hidden /\ z.plugin = el.plugin
      /\ z.timer = el.timer /\ z.index = el.index /\ z.count = el.count
      /\ z.zoom = el.zoom /\ z.held = el.held /\ z.guest = el.guest
      /\ z.first = el.first /\ z.bound = el.bound /\ z.dying = el.dying
  BY <1>2, <1>4 DEF AnyElement
<3>5. LET z == x.el IN
      /\ z \in AnyElement
      /\ z.attached = el.attached /\ z.hidden = el.hidden /\ z.plugin = el.plugin
      /\ z.timer = el.timer /\ z.index = el.index /\ z.count = el.count
      /\ z.zoom = el.zoom /\ z.held = el.held /\ z.guest = el.guest
      /\ z.first = el.first /\ z.bound = el.bound /\ z.dying = el.dying
      /\ z.attr = old
<4>1. LET z == i.el IN
      /\ z.attached = el.attached /\ z.hidden = el.hidden /\ z.plugin = el.plugin
      /\ z.timer = el.timer /\ z.index = el.index /\ z.count = el.count
      /\ z.zoom = el.zoom /\ z.held = el.held /\ z.guest = el.guest
      /\ z.first = el.first /\ z.bound = el.bound /\ z.dying = el.dying
  BY <2>2, <3>4 DEF AnyElement
<4>2. QED
  BY <1>0, <2>3, <2>4, <4>1 DEF AnyElement
<3>6. LET z == r.el IN
      /\ z.attached = el.attached /\ z.hidden = el.hidden /\ z.plugin = el.plugin
      /\ z.timer = el.timer /\ z.index = el.index /\ z.count = el.count
      /\ z.zoom = el.zoom /\ z.held = el.held /\ z.guest = el.guest
      /\ z.first = el.first /\ z.bound = el.bound /\ z.dying = el.dying
      /\ z.attr = old /\ z.src = old
  BY <1>0, <2>7, <3>5 DEF AnyElement
<3> HIDE DEF y
<3>7. r.el = y
  BY <2>8, <3>2, <3>3, <3>6, SameElement
<3>8. QED
  BY <3>7 DEF y
<2>10. src_observer(r) = [Observed(Observed(r, old), NoUrl) EXCEPT !.recs = <<>>]
  BY <2>5, <2>7, ObserverSteps
<2>11. Observed(r, old) = v
  BY <1>9, <2>8 DEF Observed, webview_mutation_handler
<2>12. /\ v \in Turns /\ v.recs = r.recs
       /\ v.el = ParsedElement(r.el)
       /\ v.msgs = ParsedMessages(r.el, r.msgs)
       /\ v.made = (r.made \/ Creates(r.el))
  BY <1>0, <2>7, <2>8, SrcChangedFields
<2> HIDE DEF v, e
<2>13. /\ v.el = ParsedElement(e) /\ v.msgs = ParsedMessages(e, <<>>)
       /\ v.made = Creates(e)
<3>1. /\ Creates(r.el) <=> Creates(e)
      /\ ParsedElement(r.el) = ParsedElement(e)
      /\ ParsedMessages(r.el, <<>>) = ParsedMessages(e, <<>>)
  BY <1>0, <1>5, <2>9, ParsedAgain
<3>2. r.made = FALSE /\ r.msgs = <<>>
  BY <2>4, <2>7
<3>3. (r.made \/ Creates(r.el)) = Creates(e)
  BY <3>1, <3>2 DEF Creates
<3>4. QED
  BY <2>12, <3>1, <3>2, <3>3
<2>14. v.el.attr = old
  BY <2>8, <2>12, ParsedKeeps
<2>15. Observed(v, NoUrl) = v
  BY <1>9, <2>14 DEF Observed
<2>16. LET z == [v EXCEPT !.recs = <<>>] IN
         /\ z \in Turns /\ z.el = v.el /\ z.recs = <<>>
         /\ z.msgs = v.msgs /\ z.made = v.made
  BY <2>12, RecsDropped
<2>17. u = [v EXCEPT !.recs = <<>>]
  BY <2>1, <2>10, <2>11, <2>15
<2> HIDE DEF u
<2>18. QED
  BY <1>5, <2>13, <2>16, <2>17 DEF u, e
<1>10. QED
  BY <1>7, <1>8, <1>9

\* The commit of a guest reaches the attribute and the property, and no message
\* goes out.
LEMMA CommitFields ==
  ASSUME el \in AnyElement, lastId \in Nat, ~el.ignore, NEW m \in DownSet,
         m.kind = "did-commit"
  PROVE  LET u == src_observer(did_commit(Turn, m.arg))
         IN  /\ u \in Turns /\ u.recs = <<>> /\ u.msgs = <<>> /\ u.made = FALSE
             /\ u.el.attached = el.attached /\ u.el.hidden = el.hidden
             /\ u.el.plugin = el.plugin /\ u.el.timer = el.timer
             /\ u.el.guest = el.guest /\ u.el.first = el.first
             /\ u.el.bound = el.bound /\ u.el.dying = el.dying
             /\ u.el.zoom = el.zoom /\ u.el.held = el.held
             /\ u.el.attr = m.arg.url /\ u.el.ignore = FALSE
<1> DEFINE event == m.arg
           told == [Turn EXCEPT !.el.index = event.index, !.el.count = event.count]
           u == src_observer(did_commit(Turn, event))
           old == el.attr
           url == event.url
<1>0. /\ event \in Commit /\ url \in Addresses /\ url # NoUrl
      /\ event.index \in Int /\ event.count \in Nat
  BY WebViewAssumption DEF DownSet, FitsEvent, Commit, Addresses
<1>1. /\ Turn \in Turns /\ Turn.el = el /\ Turn.msgs = <<>> /\ Turn.recs = <<>>
      /\ Turn.made = FALSE /\ el.ignore = FALSE /\ old \in Addresses
  BY TurnFields DEF AnyElement
<1> HIDE DEF event
<1>2. /\ told \in Turns
      /\ told.msgs = <<>> /\ told.recs = <<>> /\ told.made = FALSE
<2> DEFINE t1 == [Turn EXCEPT !.el.index = event.index]
<2>1. t1 \in Turns /\ t1.msgs = <<>> /\ t1.recs = <<>> /\ t1.made = FALSE
  BY <1>0, <1>1 DEF Turns, AnyElement
<2>2. told = [t1 EXCEPT !.el.count = event.count]
  OBVIOUS
<2> HIDE DEF t1, told
<2>3. QED
  BY <1>0, <2>1, <2>2 DEF Turns, AnyElement
<1>3. LET z == told.el IN
      /\ z \in AnyElement /\ z.attr = old /\ z.ignore = FALSE
      /\ z.attached = el.attached /\ z.hidden = el.hidden /\ z.plugin = el.plugin
      /\ z.timer = el.timer
      /\ z.zoom = el.zoom /\ z.held = el.held /\ z.guest = el.guest
      /\ z.first = el.first /\ z.bound = el.bound /\ z.dying = el.dying
<2> DEFINE t1 == [Turn EXCEPT !.el.index = event.index]
<2>1. t1 \in Turns /\ t1.el = [el EXCEPT !.index = event.index]
  BY <1>0, <1>1 DEF Turns, AnyElement
<2>2. LET z == t1.el IN
      /\ z \in AnyElement /\ z.attr = old /\ z.ignore = FALSE
      /\ z.attached = el.attached /\ z.hidden = el.hidden /\ z.plugin = el.plugin
      /\ z.timer = el.timer
      /\ z.zoom = el.zoom /\ z.held = el.held /\ z.guest = el.guest
      /\ z.first = el.first /\ z.bound = el.bound /\ z.dying = el.dying
  BY <1>0, <1>1, <2>1 DEF AnyElement
<2>3. told = [t1 EXCEPT !.el.count = event.count]
  OBVIOUS
<2> HIDE DEF t1, told
<2>4. told.el = [t1.el EXCEPT !.count = event.count]
  BY <1>0, <2>1, <2>3 DEF Turns, AnyElement
<2>5. QED
  BY <1>0, <2>2, <2>4 DEF AnyElement
<1>4. did_commit(Turn, event) = IF url = old THEN told
                                ELSE setAttribute([told EXCEPT !.el.ignore = TRUE], url)
  BY <1>1 DEF did_commit
<1> HIDE DEF told
<1>5. CASE url = old
<2>1. u = told
  BY <1>2, <1>4, <1>5, NothingObserved
<2> HIDE DEF u
<2>2. QED
  BY <1>2, <1>3, <1>5, <2>1 DEF u, event
<1>6. CASE url # old
<2> DEFINE i == [told EXCEPT !.el.ignore = TRUE]
           w == Written(i, url)
           v == src_changed(w, url)
<2>1. /\ i \in Turns /\ i.el = [told.el EXCEPT !.ignore = TRUE]
      /\ i.recs = <<>> /\ i.msgs = <<>> /\ i.made = FALSE
  BY <1>2, IgnoreSet
<2> HIDE DEF i
<2>2. LET z == i.el IN
      /\ z \in AnyElement /\ z.attr = old /\ z.ignore = TRUE
      /\ z.attached = el.attached /\ z.hidden = el.hidden /\ z.plugin = el.plugin
      /\ z.timer = el.timer
      /\ z.zoom = el.zoom /\ z.held = el.held /\ z.guest = el.guest
      /\ z.first = el.first /\ z.bound = el.bound /\ z.dying = el.dying
<3>1. i.el \in AnyElement
  BY <2>1 DEF Turns
<3>2. QED
  BY <1>3, <2>1, <3>1, SMTT(20) DEF AnyElement
<2>3. /\ w \in Turns /\ w.el = [i.el EXCEPT !.attr = url]
      /\ w.recs = Append(i.recs, i.el.attr)
      /\ w.msgs = <<>> /\ w.made = FALSE
  BY <1>0, <2>1, WrittenFields
<2>4. LET z == w.el IN
      /\ z \in AnyElement /\ z.attr = url /\ z.ignore = TRUE
      /\ z.attached = el.attached /\ z.hidden = el.hidden /\ z.plugin = el.plugin
      /\ z.timer = el.timer
      /\ z.zoom = el.zoom /\ z.held = el.held /\ z.guest = el.guest
      /\ z.first = el.first /\ z.bound = el.bound /\ z.dying = el.dying
<3> DEFINE a == i.el
           b == w.el
<3>1. a \in AnyElement /\ b = [a EXCEPT !.attr = url]
  BY <2>2, <2>3
<3> HIDE DEF a, b
<3>2. /\ b \in AnyElement /\ b.attr = url /\ b.ignore = a.ignore
      /\ b.attached = a.attached /\ b.hidden = a.hidden /\ b.plugin = a.plugin
      /\ b.timer = a.timer
      /\ b.zoom = a.zoom /\ b.held = a.held /\ b.guest = a.guest
      /\ b.first = a.first /\ b.bound = a.bound /\ b.dying = a.dying
  BY <1>0, <3>1 DEF AnyElement
<3>3. QED
  BY <2>2, <3>2 DEF a, b
<2>5. w.recs = <<old>>
  BY <2>1, <2>2, <2>3
<2>6. did_commit(Turn, event) = v
<3>1. setAttribute(i, url) = webview_mutation_handler(w, i.el.attr, url)
  BY <1>6, <2>2 DEF setAttribute
<3>2. webview_mutation_handler(w, i.el.attr, url) = v
  BY <1>0 DEF webview_mutation_handler
<3>3. QED
  BY <1>4, <1>6, <3>1, <3>2 DEF i
<2> HIDE DEF w
<2>7. /\ v \in Turns /\ v.recs = w.recs
      /\ v.el = [w.el EXCEPT !.src = url, !.ignore = FALSE]
      /\ v.msgs = w.msgs /\ v.made = w.made
  BY <1>0, <2>3, <2>4, SrcChangedFields
<2> HIDE DEF v
<2>8. LET z == v.el IN
      /\ z.attr = url /\ z.ignore = FALSE
      /\ z.attached = el.attached /\ z.hidden = el.hidden /\ z.plugin = el.plugin
      /\ z.timer = el.timer
      /\ z.zoom = el.zoom /\ z.held = el.held /\ z.guest = el.guest
      /\ z.first = el.first /\ z.bound = el.bound /\ z.dying = el.dying
  BY <1>0, <2>4, <2>7 DEF AnyElement
<2>9. src_observer(v) = [Observed(v, old) EXCEPT !.recs = <<>>]
  BY <2>5, <2>7, ObserverSteps
<2>10. Observed(v, old) = v
  BY <1>6, <2>8 DEF Observed
<2>11. LET z == [v EXCEPT !.recs = <<>>] IN
         /\ z \in Turns /\ z.el = v.el /\ z.recs = <<>>
         /\ z.msgs = v.msgs /\ z.made = v.made
  BY <2>7, RecsDropped
<2>12. u = [v EXCEPT !.recs = <<>>]
  BY <2>6, <2>9, <2>10
<2> HIDE DEF u
<2>13. QED
  BY <2>3, <2>7, <2>8, <2>11, <2>12 DEF u, event
<1>7. QED
  BY <1>5, <1>6

-----------------------------------------------------------------------------
(* The browser's half. *)

\* The history of a guest and the navigation that it is in.
NavSound(u) ==
  /\ u.index \in 0..Len(u.entries)
  /\ u.entries # <<>> => u.index # 0
  /\ u.pending # None => u.pending.url \in Urls /\ u.pending.at \in 0..Len(u.entries)

BrowserStates == [
  guests : [Ids -> Guest], registered : SUBSET Ids, zoomMap : [Urls -> Zooms],
  crashed : {"no", "dead", "unattached"}, misanswered : BOOLEAN,
  down : Seq(DownSet)]

\* A list of events longer than s, with no dialog behind it.
Longer(s, t) ==
  /\ t \in Seq(DownSet) /\ Len(s) <= Len(t)
  /\ \A i \in 1..Len(s) : t[i] = s[i]
  /\ \A i \in 1..Len(t) : i > Len(s) => t[i].kind # "dialog"

\* Every guest but g is as it was, and so is what the dialogs are about.
Others(b, c, g) ==
  /\ c \in BrowserStates
  /\ c.misanswered = b.misanswered
  /\ \A h \in Ids : h # g => c.guests[h] = b.guests[h]
  /\ Longer(b.down, c.down)
  /\ ~b.guests[g].attached => c.down = b.down

\* Guest g goes on.
GoesOn(b, c, g) ==
  /\ Others(b, c, g)
  /\ c.registered = b.registered
  /\ c.guests[g].state = b.guests[g].state
  /\ c.guests[g].attached = b.guests[g].attached
  /\ c.guests[g].asking = b.guests[g].asking
  /\ c.guests[g].callback = b.guests[g].callback
  /\ c.guests[g].crashes = b.guests[g].crashes
  /\ NavSound(b.guests[g]) => NavSound(c.guests[g])
  /\ b.guests[g].attached => c.crashed = b.crashed

\* Events are only added behind the others, and none of these is a dialog:
\* nothing is added,
LEMMA LongerSame ==
  ASSUME NEW s \in Seq(DownSet)
  PROVE  Longer(s, s)
  BY DEF Longer

\* one event is added,
LEMMA LongerByOne ==
  ASSUME NEW s \in Seq(DownSet), NEW m \in DownSet, m.kind # "dialog"
  PROVE  Longer(s, Append(s, m))
<1> DEFINE t == Append(s, m)
<1>1. t \in Seq(DownSet) /\ Len(t) = Len(s) + 1 /\ Len(s) \in Nat
      /\ (\A i \in 1..Len(s) : t[i] = s[i]) /\ t[Len(s) + 1] = m
  OBVIOUS
<1> HIDE DEF t
<1>2. \A i \in 1..Len(t) : i > Len(s) => i = Len(s) + 1
  BY <1>1
<1>3. QED
  BY <1>1, <1>2 DEF Longer, t

\* or one after the other.
LEMMA LongerStill ==
  ASSUME NEW s \in Seq(DownSet), NEW t, NEW u, Longer(s, t), Longer(t, u)
  PROVE  Longer(s, u)
<1>1. /\ t \in Seq(DownSet) /\ u \in Seq(DownSet)
      /\ Len(s) \in Nat /\ Len(t) \in Nat /\ Len(u) \in Nat
      /\ Len(s) <= Len(t) /\ Len(t) <= Len(u)
  BY DEF Longer
<1>2. \A i \in 1..Len(s) : i \in 1..Len(t) /\ u[i] = t[i] /\ t[i] = s[i]
  BY <1>1 DEF Longer
<1>3. ASSUME NEW i \in 1..Len(u), i > Len(s)
      PROVE  u[i].kind # "dialog"
<2>1. CASE i \in 1..Len(t)
  BY <1>3, <2>1 DEF Longer
<2>2. CASE i > Len(t)
  BY <1>3, <2>2 DEF Longer
<2>3. QED
  BY <1>1, <1>3, <2>1, <2>2
<1>4. QED
  BY <1>1, <1>2, <1>3 DEF Longer

\* An event is what it was made of.
LEMMA EventFields ==
  ASSUME NEW kind \in Events, NEW g \in Nat, NEW arg \in Args,
         FitsEvent(Message(kind, g, arg))
  PROVE  /\ Message(kind, g, arg) \in DownSet
         /\ Message(kind, g, arg).kind = kind /\ Message(kind, g, arg).guest = g
         /\ Message(kind, g, arg).arg = arg
  BY DEF Message, DownSet

\* A crash changes the reason for it and nothing else.
LEMMA CrashFields ==
  ASSUME NEW b \in BrowserStates, NEW why \in {"dead", "unattached"}
  PROVE  LET c == Crash(b, why) IN
         /\ c \in BrowserStates /\ c.crashed # "no"
         /\ c.guests = b.guests /\ c.registered = b.registered
         /\ c.zoomMap = b.zoomMap /\ c.misanswered = b.misanswered
         /\ c.down = b.down
  BY DEF Crash, BrowserStates

\* An event reaches the element of an attached guest; without one the browser
\* uses a window that is not there.
LEMMA EmitFields ==
  ASSUME NEW b \in BrowserStates, NEW g \in Ids, NEW m \in DownSet
  PROVE  LET c == WebViewEmit(b, g, m) IN
         /\ c \in BrowserStates
         /\ c.guests = b.guests /\ c.registered = b.registered
         /\ c.zoomMap = b.zoomMap /\ c.misanswered = b.misanswered
         /\ IF b.guests[g].attached
            THEN c.down = Append(b.down, m) /\ c.crashed = b.crashed
            ELSE c.down = b.down /\ c.crashed # "no"
<1>1. CASE b.guests[g].attached
<2>1. WebViewEmit(b, g, m) = [b EXCEPT !.down = Append(@, m)]
  BY <1>1 DEF WebViewEmit, GetThrustWindow
<2> DEFINE d == Append(b.down, m)
<2>2. d \in Seq(DownSet)
  BY DEF BrowserStates
<2>3. WebViewEmit(b, g, m) = [b EXCEPT !.down = d]
  BY <2>1
<2> HIDE DEF d
<2>4. QED
  BY <1>1, <2>2, <2>3 DEF BrowserStates, d
<1>2. CASE ~b.guests[g].attached
<2>1. WebViewEmit(b, g, m) = Crash(b, "unattached")
  BY <1>2 DEF WebViewEmit, GetThrustWindow
<2>2. QED
  BY <1>2, <2>1, CrashFields
<1>3. QED
  BY <1>1, <1>2

\* Any other use of the embedder: the same without an event.
LEMMA NoticeFields ==
  ASSUME NEW b \in BrowserStates, NEW g \in Ids
  PROVE  LET c == Notice(b, g) IN
         /\ c \in BrowserStates
         /\ c.guests = b.guests /\ c.registered = b.registered
         /\ c.zoomMap = b.zoomMap /\ c.misanswered = b.misanswered
         /\ c.down = b.down
         /\ IF b.guests[g].attached THEN c.crashed = b.crashed ELSE c.crashed # "no"
<1>1. CASE b.guests[g].attached
  BY <1>1 DEF Notice, GetThrustWindow
<1>2. CASE ~b.guests[g].attached
<2>1. Notice(b, g) = Crash(b, "unattached")
  BY <1>2 DEF Notice, GetThrustWindow
<2>2. QED
  BY <1>2, <2>1, CrashFields
<1>3. QED
  BY <1>1, <1>2

\* What a change of one guest leaves alone.
LEMMA GuestChanges ==
  ASSUME NEW b \in BrowserStates, NEW g \in Ids, NEW u \in Guest
  PROVE  LET c == [b EXCEPT !.guests[g] = u] IN
         /\ c \in BrowserStates /\ c.guests = [b.guests EXCEPT ![g] = u]
         /\ c.guests[g] = u /\ \A h \in Ids : h # g => c.guests[h] = b.guests[h]
         /\ c.registered = b.registered /\ c.crashed = b.crashed
         /\ c.zoomMap = b.zoomMap /\ c.misanswered = b.misanswered
         /\ c.down = b.down
  BY DEF BrowserStates

\* Nothing under way is a value of the field of the navigation under way.
LEMMA NoneIsPending ==
  /\ None \in Pending /\ None.started = FALSE /\ None.url = NoUrl
  BY DEF None, Pending

\* A navigation that is asked for only changes what is pending.
LEMMA NavigateFields ==
  ASSUME NEW b \in BrowserStates, NEW g \in Ids, NEW url \in Urls, NEW at \in Nat,
         at <= Len(b.guests[g].entries)
  PROVE  LET c == Navigate(b, g, url, at) IN
         GoesOn(b, c, g) /\ c.down = b.down /\ c.crashed = b.crashed
<1> DEFINE p == [url |-> url, at |-> at, started |-> FALSE]
           b1 == [b EXCEPT !.guests[g].pending = p]
           c == [b1 EXCEPT !.guests[g].failed = FALSE]
<1>1. p \in Pending /\ p.url = url /\ p.at = at
  BY DEF Pending
<1> HIDE DEF p
<1>2. b.guests[g] \in Guest /\ b.guests \in [Ids -> Guest] /\ b.down \in Seq(DownSet)
  BY DEF BrowserStates
<1> DEFINE u1 == [b.guests[g] EXCEPT !.pending = p]
           u == [u1 EXCEPT !.failed = FALSE]
<1>3. u1 \in Guest /\ u1.pending = p /\ u1.entries = b.guests[g].entries
      /\ u1.index = b.guests[g].index /\ u1.state = b.guests[g].state
      /\ u1.attached = b.guests[g].attached /\ u1.asking = b.guests[g].asking
      /\ u1.callback = b.guests[g].callback /\ u1.crashes = b.guests[g].crashes
  BY <1>1, <1>2 DEF Guest
<1>4. b1 = [b EXCEPT !.guests[g] = u1]
  OBVIOUS
<1> HIDE DEF u1
<1>5. u \in Guest /\ u.pending = p /\ u.entries = u1.entries
      /\ u.index = u1.index /\ u.state = u1.state
      /\ u.attached = u1.attached /\ u.asking = u1.asking
      /\ u.callback = u1.callback /\ u.crashes = u1.crashes
  BY <1>3 DEF Guest
<1>6. /\ b1 \in BrowserStates
      /\ b1.guests[g] = u1 /\ \A h \in Ids : h # g => b1.guests[h] = b.guests[h]
      /\ b1.registered = b.registered /\ b1.crashed = b.crashed
      /\ b1.misanswered = b.misanswered /\ b1.down = b.down
<2> HIDE DEF b1
<2>1. QED
  BY <1>3, <1>4, GuestChanges
<1> HIDE DEF b1
<1>7. c = [b1 EXCEPT !.guests[g] = u]
  BY <1>6 DEF u
<1> HIDE DEF u, c
<1>8. /\ c \in BrowserStates
      /\ c.guests[g] = u /\ \A h \in Ids : h # g => c.guests[h] = b1.guests[h]
      /\ c.registered = b1.registered /\ c.crashed = b1.crashed
      /\ c.misanswered = b1.misanswered /\ c.down = b1.down
  BY <1>5, <1>6, <1>7, GuestChanges
<1>9. NavSound(b.guests[g]) => NavSound(u)
<2>1. b.guests[g].entries \in Seq(Urls)
  BY <1>2 DEF Guest
<2>2. QED
  BY <1>1, <1>3, <1>5, <2>1 DEF NavSound
<1>10. Longer(b.down, b.down)
  BY <1>2, LongerSame
<1>11. Navigate(b, g, url, at) = c
  BY DEF Navigate, c, b1, p
<1>12. QED
  BY <1>3, <1>5, <1>6, <1>8, <1>9, <1>10, <1>11 DEF GoesOn, Others

\* Going to an offset is a navigation, or nothing.
LEMMA GoFields ==
  ASSUME NEW b \in BrowserStates, NEW g \in Ids, NEW offset \in Int
  PROVE  LET c == Go(b, g, offset) IN
         GoesOn(b, c, g) /\ c.down = b.down /\ c.crashed = b.crashed
<1>1. b.guests[g] \in Guest /\ b.down \in Seq(DownSet)
  BY DEF BrowserStates
<1>2. b.guests[g].entries \in Seq(Urls) /\ b.guests[g].index \in Nat
  BY <1>1 DEF Guest
<1>3. CASE CanGoToOffset(b.guests[g], offset)
<2> DEFINE at == b.guests[g].index + offset
<2>1. at \in 1..Len(b.guests[g].entries)
  BY <1>3 DEF CanGoToOffset
<2>2. Go(b, g, offset) = Navigate(b, g, b.guests[g].entries[at], at)
  BY <1>3 DEF Go
<2>3. b.guests[g].entries[at] \in Urls /\ at \in Nat /\ at <= Len(b.guests[g].entries)
  BY <1>2, <2>1
<2> HIDE DEF at
<2>4. QED
  BY <2>2, <2>3, NavigateFields
<1>4. CASE ~CanGoToOffset(b.guests[g], offset)
<2>1. Go(b, g, offset) = b
  BY <1>4 DEF Go
<2>2. Longer(b.down, b.down)
  BY <1>1, LongerSame
<2>3. QED
  BY <2>1, <2>2 DEF GoesOn, Others
<1>5. QED
  BY <1>3, <1>4

\* Any change of what a guest remembers of its navigation.
LEMMA NavigationChanges ==
  ASSUME NEW b \in BrowserStates, NEW g \in Ids, NEW u \in Guest,
         u.state = b.guests[g].state, u.attached = b.guests[g].attached,
         u.asking = b.guests[g].asking, u.callback = b.guests[g].callback,
         u.crashes = b.guests[g].crashes,
         NavSound(b.guests[g]) => NavSound(u)
  PROVE  LET c == [b EXCEPT !.guests[g] = u] IN
         /\ GoesOn(b, c, g) /\ c.down = b.down /\ c.crashed = b.crashed
         /\ c.guests[g] = u
<1>1. b.down \in Seq(DownSet)
  BY DEF BrowserStates
<1>2. Longer(b.down, b.down)
  BY <1>1, LongerSame
<1>3. QED
  BY <1>2, GuestChanges DEF GoesOn, Others

\* A notice, or an event, that follows such a change.
LEMMA NoticeGoesOn ==
  ASSUME NEW b \in BrowserStates, NEW c \in BrowserStates, NEW g \in Ids,
         GoesOn(b, c, g)
  PROVE  GoesOn(b, Notice(c, g), g)
<1>1. LET d == Notice(c, g) IN
         /\ d \in BrowserStates
         /\ d.guests = c.guests /\ d.registered = c.registered
         /\ d.misanswered = c.misanswered /\ d.down = c.down
         /\ IF c.guests[g].attached THEN d.crashed = c.crashed ELSE d.crashed # "no"
  BY NoticeFields
<1>2. QED
  BY <1>1 DEF GoesOn, Others

\* An event that is no dialog goes on with its guest.
LEMMA EmitGoesOn ==
  ASSUME NEW b \in BrowserStates, NEW c \in BrowserStates, NEW g \in Ids,
         GoesOn(b, c, g), NEW m \in DownSet, m.kind # "dialog"
  PROVE  GoesOn(b, WebViewEmit(c, g, m), g)
<1> DEFINE d == WebViewEmit(c, g, m)
<1>1. /\ d \in BrowserStates
      /\ d.guests = c.guests /\ d.registered = c.registered
      /\ d.misanswered = c.misanswered
      /\ IF c.guests[g].attached
         THEN d.down = Append(c.down, m) /\ d.crashed = c.crashed
         ELSE d.down = c.down /\ d.crashed # "no"
  BY EmitFields
<1> HIDE DEF d
<1>2. c.down \in Seq(DownSet) /\ b.down \in Seq(DownSet)
  BY DEF BrowserStates
<1>3. Longer(b.down, c.down) /\ c.guests[g].attached = b.guests[g].attached
      /\ (~b.guests[g].attached => c.down = b.down)
  BY DEF GoesOn, Others
<1>4. Longer(b.down, Append(c.down, m))
  BY <1>2, <1>3, LongerByOne, LongerStill
<1>5. Longer(b.down, d.down) /\ (~b.guests[g].attached => d.down = b.down)
  BY <1>1, <1>3, <1>4
<1>6. GoesOn(b, d, g)
  BY <1>1, <1>3, <1>5 DEF GoesOn, Others
<1>7. QED
  BY <1>6 DEF d

\* Stopping drops the navigation under way.
LEMMA StopFields ==
  ASSUME NEW b \in BrowserStates, NEW g \in Ids
  PROVE  GoesOn(b, Stop(b, g), g)
<1> DEFINE old == b.guests[g]
           u == [old EXCEPT !.pending = None, !.failed = TRUE]
           s == [b EXCEPT !.guests[g].pending = None, !.guests[g].failed = TRUE]
<1>0. old \in Guest /\ b.down \in Seq(DownSet) /\ b.guests \in [Ids -> Guest]
  BY DEF BrowserStates
<1>1. /\ u \in Guest /\ u.pending = None /\ u.entries = old.entries
      /\ u.index = old.index /\ u.state = old.state
      /\ u.attached = old.attached /\ u.asking = old.asking
      /\ u.callback = old.callback /\ u.crashes = old.crashes
<2> DEFINE u1 == [old EXCEPT !.pending = None]
<2>1. /\ u1 \in Guest /\ u1.pending = None /\ u1.entries = old.entries
      /\ u1.index = old.index /\ u1.state = old.state
      /\ u1.attached = old.attached /\ u1.asking = old.asking
      /\ u1.callback = old.callback /\ u1.crashes = old.crashes
  BY <1>0, NoneIsPending DEF Guest
<2>2. u = [u1 EXCEPT !.failed = TRUE]
  OBVIOUS
<2> HIDE DEF u1, u, old
<2>3. QED
  BY <2>1, <2>2 DEF Guest
<1>2. s = [b EXCEPT !.guests[g] = u]
  BY <1>0 DEF BrowserStates
<1>3. NavSound(old) => NavSound(u)
  BY <1>1 DEF NavSound
<1> HIDE DEF u, s
<1>4. GoesOn(b, s, g) /\ s \in BrowserStates
<2>1. GoesOn(b, s, g)
  BY <1>1, <1>2, <1>3, NavigationChanges
<2>2. QED
  BY <2>1 DEF GoesOn, Others
<1>5. GoesOn(b, b, g)
  BY <1>0, LongerSame DEF GoesOn, Others
<1>6. Stop(b, g) = IF old.pending = None THEN b
                   ELSE IF old.pending.started THEN Notice(s, g) ELSE s
  BY DEF Stop, s
<1>7. GoesOn(b, Notice(s, g), g)
  BY <1>4, NoticeGoesOn
<1>8. QED
  BY <1>4, <1>5, <1>6, <1>7

\* A factor is set for the address shown, and told when it is another.
LEMMA SetZoomFields ==
  ASSUME NEW b \in BrowserStates, NEW g \in Ids, NEW factor \in Zooms
  PROVE  GoesOn(b, SetZoom(b, g, factor), g)
<1> DEFINE m == Message("zoom-changed", g, factor)
           told == WebViewEmit(b, g, m)
           u == [told.guests[g] EXCEPT !.zoom = factor]
           s == [told EXCEPT !.guests[g].zoom = factor]
           zooms == [z \in Urls |-> IF z = VisibleUrl(b.guests[g]) THEN factor
                                    ELSE told.zoomMap[z]]
<1>0. b.down \in Seq(DownSet) /\ b.guests \in [Ids -> Guest] /\ g \in Nat
  BY WebViewAssumption DEF BrowserStates, Ids
<1>1. m \in DownSet /\ m.kind # "dialog"
<2>1. factor \in Args /\ "zoom-changed" \in Events
  BY DEF Args, Events
<2>2. FitsEvent(m)
  BY DEF FitsEvent, Message
<2>3. QED
  BY <1>0, <2>1, <2>2, EventFields
<1>2. GoesOn(b, b, g)
  BY <1>0, LongerSame DEF GoesOn, Others
<1> HIDE DEF m
<1>3. GoesOn(b, told, g)
  BY <1>1, <1>2, EmitGoesOn
<1>4. told \in BrowserStates /\ told.guests[g] \in Guest
  BY <1>3 DEF GoesOn, Others, BrowserStates
<1> HIDE DEF told
<1>5. /\ u \in Guest /\ u.pending = told.guests[g].pending
      /\ u.entries = told.guests[g].entries
      /\ u.index = told.guests[g].index /\ u.state = told.guests[g].state
      /\ u.attached = told.guests[g].attached /\ u.asking = told.guests[g].asking
      /\ u.callback = told.guests[g].callback /\ u.crashes = told.guests[g].crashes
  BY <1>4 DEF Guest
<1>6. s = [told EXCEPT !.guests[g] = u]
  BY <1>4 DEF BrowserStates
<1>7. NavSound(told.guests[g]) => NavSound(u)
  BY <1>5 DEF NavSound
<1> HIDE DEF u, s
<1>8. /\ GoesOn(told, s, g) /\ s.down = told.down /\ s.crashed = told.crashed
  BY <1>4, <1>5, <1>6, <1>7, NavigationChanges
<1>9. s \in BrowserStates /\ zooms \in [Urls -> Zooms]
<2>1. told.zoomMap \in [Urls -> Zooms]
  BY <1>4 DEF BrowserStates
<2>2. QED
  BY <1>8, <2>1 DEF GoesOn, Others
<1>10. SetZoom(b, g, factor) = [s EXCEPT !.zoomMap = zooms]
<2>1. s.zoomMap = told.zoomMap
  BY <1>4, <1>5, <1>6, GuestChanges
<2>2. QED
  BY <2>1 DEF SetZoom, told, m, s
<1> HIDE DEF zooms
<1>11. LET c == [s EXCEPT !.zoomMap = zooms] IN
       /\ c \in BrowserStates /\ c.guests = s.guests /\ c.registered = s.registered
       /\ c.misanswered = s.misanswered /\ c.down = s.down /\ c.crashed = s.crashed
  BY <1>9 DEF BrowserStates
<1>12. GoesOn(b, [s EXCEPT !.zoomMap = zooms], g)
  BY <1>3, <1>8, <1>11 DEF GoesOn, Others
<1>13. QED
  BY <1>10, <1>12

\* Guest g is gone and out of the registry.
Dies(b, c, g) ==
  /\ Others(b, c, g)
  /\ c.registered = b.registered \ {g}
  /\ c.guests[g].state = "gone"
  /\ c.guests[g].asking = 0 /\ c.guests[g].callback = 0
  /\ c.guests[g].crashes = b.guests[g].crashes
  /\ NavSound(b.guests[g]) => NavSound(c.guests[g])
  /\ b.guests[g].attached => c.crashed = b.crashed

\* Destroying a guest takes it out of the registry, cancels its dialog and tells
\* its element.
LEMMA DestroyFields ==
  ASSUME NEW b \in BrowserStates, NEW g \in Ids
  PROVE  Dies(b, Destroy(b, g), g)
<1> DEFINE b1 == [b EXCEPT !.registered = RemoveGuest(@, g)]
           m == Message("destroyed", g, NoUrl)
           told == WebViewEmit(b1, g, m)
           v == told.guests[g]
           u == [v EXCEPT !.state = "gone", !.pending = None, !.asking = 0, !.callback = 0]
           c == [told EXCEPT !.guests[g].state = "gone", !.guests[g].pending = None,
                             !.guests[g].asking = 0, !.guests[g].callback = 0]
<1>0. b.down \in Seq(DownSet) /\ b.guests \in [Ids -> Guest] /\ g \in Nat
  BY WebViewAssumption DEF BrowserStates, Ids
<1>1. m \in DownSet /\ m.kind # "dialog"
<2>1. NoUrl \in Args /\ "destroyed" \in Events
  BY DEF Args, Events, Addresses
<2>2. FitsEvent(m)
  BY DEF FitsEvent, Message
<2>3. QED
  BY <1>0, <2>1, <2>2, EventFields
<1>2. /\ b1 \in BrowserStates /\ b1.guests = b.guests /\ b1.crashed = b.crashed
      /\ b1.misanswered = b.misanswered /\ b1.down = b.down
      /\ b1.registered = b.registered \ {g}
  BY DEF BrowserStates, RemoveGuest
<1> HIDE DEF m, b1
<1>3. /\ told \in BrowserStates
      /\ told.guests = b1.guests /\ told.registered = b1.registered
      /\ told.misanswered = b1.misanswered
      /\ IF b1.guests[g].attached
         THEN told.down = Append(b1.down, m) /\ told.crashed = b1.crashed
         ELSE told.down = b1.down /\ told.crashed # "no"
  BY <1>1, <1>2, EmitFields
<1>4. Longer(b.down, told.down)
  BY <1>0, <1>1, <1>2, <1>3, LongerByOne, LongerSame
<1> HIDE DEF told
<1>5. v \in Guest /\ v = b.guests[g]
  BY <1>0, <1>2, <1>3
<1> HIDE DEF v
<1>6. /\ u \in Guest /\ u.state = "gone" /\ u.asking = 0 /\ u.callback = 0
      /\ u.pending = None /\ u.entries = v.entries /\ u.index = v.index
      /\ u.crashes = v.crashes
<2> DEFINE u1 == [v EXCEPT !.state = "gone"]
<2>1. /\ u1 \in Guest /\ u1.state = "gone"
      /\ u1.entries = v.entries /\ u1.index = v.index /\ u1.crashes = v.crashes
  BY <1>5 DEF Guest
<2> HIDE DEF u1
<2> DEFINE u2 == [u1 EXCEPT !.pending = None]
<2>2. /\ u2 \in Guest /\ u2.state = "gone" /\ u2.pending = None
      /\ u2.entries = v.entries /\ u2.index = v.index /\ u2.crashes = v.crashes
  BY <2>1, NoneIsPending DEF Guest
<2> HIDE DEF u2
<2> DEFINE u3 == [u2 EXCEPT !.asking = 0]
<2>3. /\ u3 \in Guest /\ u3.state = "gone" /\ u3.pending = None /\ u3.asking = 0
      /\ u3.entries = v.entries /\ u3.index = v.index /\ u3.crashes = v.crashes
  BY <2>2 DEF Guest
<2> HIDE DEF u3
<2>4. u = [u3 EXCEPT !.callback = 0]
  BY DEF u1, u2, u3
<2> HIDE DEF u
<2>5. QED
  BY <2>3, <2>4 DEF Guest
<1>7. c = [told EXCEPT !.guests[g] = u]
  BY <1>0, <1>2, <1>3, ZenonT(20) DEF v
<1> HIDE DEF u, c
<1>8. /\ c \in BrowserStates
      /\ c.guests[g] = u /\ \A h \in Ids : h # g => c.guests[h] = told.guests[h]
      /\ c.registered = told.registered /\ c.crashed = told.crashed
      /\ c.misanswered = told.misanswered /\ c.down = told.down
<2>1. told \in BrowserStates /\ u \in Guest
  BY <1>3, <1>6
<2>2. QED
  BY <1>7, <2>1, GuestChanges
<1>9. NavSound(b.guests[g]) => NavSound(u)
  BY <1>5, <1>6 DEF NavSound
<1>10. Destroy(b, g) = c
  BY DEF Destroy, WebContentsDestroyed, c, told, m, b1
<1>11. Others(b, c, g)
  BY <1>2, <1>3, <1>4, <1>8 DEF Others
<1>12. QED
  BY <1>2, <1>3, <1>5, <1>6, <1>8, <1>9, <1>10, <1>11 DEF Dies

\* Guest g is attached to the window.
Joins(b, c, g) ==
  /\ c \in BrowserStates
  /\ c.misanswered = b.misanswered /\ c.registered = b.registered
  /\ \A h \in Ids : h # g => c.guests[h] = b.guests[h]
  /\ Longer(b.down, c.down)
  /\ c.guests[g] = [b.guests[g] EXCEPT !.attached = TRUE]
  /\ c.crashed = b.crashed

\* Attaching gives the guest its window and its element the event.
LEMMA AttachFields ==
  ASSUME NEW b \in BrowserStates, NEW g \in Ids, NEW src \in Addresses
  PROVE  Joins(b, DidAttach(WillAttach(b, g), g, src), g)
<1> DEFINE w == WillAttach(b, g)
           u == [b.guests[g] EXCEPT !.attached = TRUE]
           m == Message("did-attach", g, src)
           c == WebViewEmit(w, g, m)
<1>0. b.down \in Seq(DownSet) /\ b.guests \in [Ids -> Guest] /\ g \in Nat
  BY WebViewAssumption DEF BrowserStates, Ids
<1>1. m \in DownSet /\ m.kind # "dialog"
<2>1. src \in Args /\ "did-attach" \in Events
  BY DEF Args, Events
<2>2. FitsEvent(m)
  BY DEF FitsEvent, Message
<2>3. QED
  BY <1>0, <2>1, <2>2, EventFields
<1>2. u \in Guest /\ u.attached = TRUE
  BY <1>0 DEF Guest
<1>3. w = [b EXCEPT !.guests[g] = u]
  BY <1>0 DEF WillAttach
<1> HIDE DEF w, u, m
<1>4. /\ w \in BrowserStates
      /\ w.guests[g] = u /\ \A h \in Ids : h # g => w.guests[h] = b.guests[h]
      /\ w.registered = b.registered /\ w.crashed = b.crashed
      /\ w.misanswered = b.misanswered /\ w.down = b.down
  BY <1>2, <1>3, GuestChanges
<1>5. /\ c \in BrowserStates
      /\ c.guests = w.guests /\ c.registered = w.registered
      /\ c.misanswered = w.misanswered
      /\ IF w.guests[g].attached
         THEN c.down = Append(w.down, m) /\ c.crashed = w.crashed
         ELSE c.down = w.down /\ c.crashed # "no"
  BY <1>1, <1>4, EmitFields
<1> HIDE DEF c
<1>6. Longer(b.down, c.down)
  BY <1>0, <1>1, <1>2, <1>4, <1>5, LongerByOne
<1>7. Joins(b, c, g)
  BY <1>2, <1>4, <1>5, <1>6 DEF Joins, u
<1>8. QED
  BY <1>7 DEF c, m, w, DidAttach

\* The dialog of guest g is closed.
Answered(b, c, g, for) ==
  /\ c \in BrowserStates
  /\ c.registered = b.registered /\ c.down = b.down /\ c.crashed = b.crashed
  /\ \A h \in Ids : h # g => c.guests[h] = b.guests[h]
  /\ c.guests[g].state = b.guests[g].state
  /\ c.guests[g].attached = b.guests[g].attached
  /\ c.guests[g].crashes = b.guests[g].crashes
  /\ c.guests[g].entries = b.guests[g].entries
  /\ c.guests[g].pending = b.guests[g].pending
  /\ c.guests[g].index = b.guests[g].index
  /\ c.guests[g].callback = 0
  /\ b.guests[g].asking = b.guests[g].callback => c.guests[g].asking = 0
  /\ b.guests[g].callback \in {0, for} => c.misanswered = b.misanswered

\* An answer is given to the dialog the guest waits for, whichever it was meant
\* for.
LEMMA DialogClosedFields ==
  ASSUME NEW b \in BrowserStates, NEW g \in Ids, NEW for
  PROVE  Answered(b, JavaScriptDialogClosed(b, g, for), g, for)
<1> DEFINE old == b.guests[g]
           a == IF old.asking = old.callback THEN 0 ELSE old.asking
           u1 == [old EXCEPT !.asking = a]
           u == [u1 EXCEPT !.callback = 0]
           x == (b.misanswered \/ old.callback # for)
           b1 == [b EXCEPT !.misanswered = x]
           c == [b1 EXCEPT !.guests[g] = u]
<1>0. old \in Guest /\ b.guests \in [Ids -> Guest] /\ b.misanswered \in BOOLEAN
  BY DEF BrowserStates
<1>1. CASE old.callback = 0
<2>1. JavaScriptDialogClosed(b, g, for) = b
  BY <1>1 DEF JavaScriptDialogClosed
<2>2. QED
  BY <1>1, <2>1 DEF Answered
<1>2. CASE old.callback # 0
<2>1. a \in Dialogs \union {0} /\ (old.asking = old.callback => a = 0) /\ x \in BOOLEAN
  BY <1>0 DEF Guest
<2>2. old.callback = for => x = b.misanswered
  BY <1>0
<2>3. JavaScriptDialogClosed(b, g, for) = c
<3>1. JavaScriptDialogClosed(b, g, for) =
        [b EXCEPT
          !.misanswered = @ \/ b.guests[g].callback # for,
          !.guests[g].asking = IF @ = b.guests[g].callback THEN 0 ELSE @,
          !.guests[g].callback = 0]
  BY <1>2 DEF JavaScriptDialogClosed
<3>2. b1.guests = b.guests
  BY DEF BrowserStates
<3> DEFINE b2 == [b1 EXCEPT !.guests[g].asking = a]
<3>3. b2 = [b1 EXCEPT !.guests[g] = u1]
  BY <3>2
<3>4. [b EXCEPT
          !.misanswered = @ \/ b.guests[g].callback # for,
          !.guests[g].asking = IF @ = b.guests[g].callback THEN 0 ELSE @,
          !.guests[g].callback = 0]
       = [b2 EXCEPT !.guests[g].callback = 0]
  BY <3>2
<3>5. b1 \in BrowserStates /\ u1 \in Guest
  BY <1>0, <2>1 DEF BrowserStates, Guest
<3> HIDE DEF b1, u1, b2
<3>6. [b2 EXCEPT !.guests[g].callback = 0] = [b1 EXCEPT !.guests[g] = u]
<4>1. b2.guests = [b1.guests EXCEPT ![g] = u1] /\ b2.guests[g] = u1
  BY <3>3, <3>5, GuestChanges
<4>2. [b2 EXCEPT !.guests[g].callback = 0] = [b2 EXCEPT !.guests[g] = u]
  BY <4>1
<4>3. [[b1.guests EXCEPT ![g] = u1] EXCEPT ![g] = u] = [b1.guests EXCEPT ![g] = u]
<5>1. b1.guests \in [Ids -> Guest]
  BY <3>5 DEF BrowserStates
<5> HIDE DEF u
<5>2. QED
  BY <5>1
<4> HIDE DEF u
<4>4. [b2 EXCEPT !.guests[g] = u] = [b2 EXCEPT !.guests = [b2.guests EXCEPT ![g] = u]]
  OBVIOUS
<4>5. [b1 EXCEPT !.guests[g] = u] = [b1 EXCEPT !.guests = [b1.guests EXCEPT ![g] = u]]
  OBVIOUS
<4>6. b2 = [b1 EXCEPT !.guests = [b1.guests EXCEPT ![g] = u1]]
  BY <3>3
<4> DEFINE y == [b1.guests EXCEPT ![g] = u]
<4> HIDE DEF y
<4>7. [[b1 EXCEPT !.guests = [b1.guests EXCEPT ![g] = u1]] EXCEPT !.guests = y]
        = [b1 EXCEPT !.guests = y]
  BY <3>5 DEF BrowserStates
<4>8. QED
  BY <4>1, <4>2, <4>3, <4>4, <4>5, <4>6, <4>7 DEF y
<3>7. QED
  BY <3>1, <3>4, <3>6
<2> HIDE DEF a, x
<2>4. /\ u1 \in Guest /\ u1.state = old.state /\ u1.attached = old.attached
      /\ u1.crashes = old.crashes /\ u1.entries = old.entries
      /\ u1.pending = old.pending /\ u1.index = old.index /\ u1.asking = a
  BY <1>0, <2>1 DEF Guest
<2> HIDE DEF u1
<2>5. /\ u \in Guest /\ u.state = old.state /\ u.attached = old.attached
      /\ u.crashes = old.crashes /\ u.entries = old.entries
      /\ u.pending = old.pending /\ u.index = old.index /\ u.asking = a
      /\ u.callback = 0
  BY <1>0, <2>4 DEF Guest
<2> HIDE DEF u
<2>6. /\ b1 \in BrowserStates /\ b1.guests = b.guests /\ b1.misanswered = x
      /\ b1.registered = b.registered /\ b1.down = b.down /\ b1.crashed = b.crashed
  BY <2>1 DEF BrowserStates
<2> HIDE DEF b1
<2>7. /\ c \in BrowserStates
      /\ c.guests[g] = u /\ \A h \in Ids : h # g => c.guests[h] = b1.guests[h]
      /\ c.registered = b1.registered /\ c.crashed = b1.crashed
      /\ c.misanswered = b1.misanswered /\ c.down = b1.down
  BY <2>5, <2>6, GuestChanges
<2> HIDE DEF c
<2>8. QED
  BY <1>2, <2>1, <2>2, <2>3, <2>5, <2>6, <2>7 DEF Answered
<1>3. QED
  BY <1>1, <1>2

-----------------------------------------------------------------------------
(* What the browser makes of a message. *)

Kills(m) == m.kind \in {"Destroy", "PluginDestroyed"}

Handled(b, c, m) ==
  LET g == m.guest
  IN  \/ c = b /\ m.kind \in {"Attach", "PluginDestroyed"} /\ g \notin b.registered
      \/ /\ c.crashed # "no" /\ m.kind \notin {"Attach", "PluginDestroyed"}
         /\ ~GuestOf(b, g)
         /\ c \in BrowserStates /\ c.guests = b.guests
         /\ c.registered = b.registered /\ c.misanswered = b.misanswered
         /\ c.down = b.down
      \/ /\ g \in b.registered
         /\ \/ m.kind = "Attach" /\ Joins(b, c, g)
            \/ Kills(m) /\ Dies(b, c, g)
            \/ m.kind = "DialogClosed" /\ Answered(b, c, g, m.arg)
            \/ ~Kills(m) /\ m.kind \notin {"Attach", "DialogClosed"} /\ GoesOn(b, c, g)

\* The dispatcher hands a message to the guest in the registry, and the browser
\* uses one that is not there otherwise.
LEMMA MessageHandled ==
  ASSUME NEW b \in BrowserStates, NEW m \in UpSet
  PROVE  Handled(b, OnMessageReceived(b, m), m)
<1> DEFINE g == m.guest
           c == OnMessageReceived(b, m)
<1>0. b.registered \subseteq Ids /\ m.kind \in Kinds /\ Fits(m)
  BY DEF BrowserStates, UpSet
<1>1. CASE m.kind = "Attach"
<2>1. c = Attach(b, g, m.arg)
  BY <1>1 DEF OnMessageReceived
<2>2. m.arg \in Addresses
  BY <1>0, <1>1 DEF Fits
<2>3. CASE g \in b.registered
<3>1. c = DidAttach(WillAttach(b, g), g, m.arg)
  BY <2>1, <2>3 DEF Attach
<3>2. g \in Ids
  BY <1>0, <2>3
<3> HIDE DEF c, g
<3>3. Joins(b, c, g)
  BY <2>2, <3>1, <3>2, AttachFields
<3>4. QED
  BY <1>1, <2>3, <3>3 DEF Handled, g, c
<2>4. CASE g \notin b.registered
<3>1. c = b
  BY <2>1, <2>4 DEF Attach
<3>2. QED
  BY <1>1, <2>4, <3>1 DEF Handled
<2>5. QED
  BY <2>3, <2>4
<1>2. CASE m.kind = "PluginDestroyed"
<2>1. c = PluginDestroyed(b, g)
  BY <1>2 DEF OnMessageReceived
<2>2. CASE g \in b.registered
<3>1. c = Destroy(b, g) /\ g \in Ids
  BY <1>0, <2>1, <2>2 DEF PluginDestroyed
<3> HIDE DEF c, g
<3>2. Dies(b, c, g)
  BY <3>1, DestroyFields
<3>3. QED
  BY <1>2, <2>2, <3>2 DEF Handled, g, c, Kills
<2>3. CASE g \notin b.registered
<3>1. c = b
  BY <2>1, <2>3 DEF PluginDestroyed
<3>2. QED
  BY <1>2, <2>3, <3>1 DEF Handled
<2>4. QED
  BY <2>2, <2>3
<1>3. CASE m.kind \notin {"Attach", "PluginDestroyed"} /\ ~GuestOf(b, g)
<2>1. c = Crash(b, "dead")
<3>1. CASE m.kind = "Destroy"
  BY <1>3, <3>1 DEF OnMessageReceived, DestroyWebViewGuest
<3>2. CASE m.kind = "DialogClosed"
  BY <1>3, <3>2 DEF OnMessageReceived, WebViewGuestJavaScriptDialogClosed
<3>3. CASE m.kind \in {"SetAutoSize", "Find"}
  BY <1>3, <3>3 DEF OnMessageReceived, RequestOfContents
<3>4. CASE m.kind \in {"LoadUrl", "Go", "Reload", "Stop", "SetZoom"}
  BY <1>3, <3>4 DEF OnMessageReceived, RequestOfGuest
<3>5. QED
  BY <1>0, <1>3, <3>1, <3>2, <3>3, <3>4 DEF Kinds
<2>2. LET d == Crash(b, "dead") IN
         /\ d \in BrowserStates /\ d.crashed # "no"
         /\ d.guests = b.guests /\ d.registered = b.registered
         /\ d.misanswered = b.misanswered /\ d.down = b.down
  BY CrashFields
<2>3. QED
  BY <1>3, <2>1, <2>2 DEF Handled
<1>4. CASE m.kind \notin {"Attach", "PluginDestroyed"} /\ GuestOf(b, g)
<2>1. g \in b.registered /\ g \in Ids
  BY <1>0, <1>4 DEF GuestOf, GetGuestByInstanceID
<2> HIDE DEF g
<2>2. CASE m.kind = "Destroy"
<3>1. c = Destroy(b, g)
  BY <1>4, <2>2 DEF OnMessageReceived, DestroyWebViewGuest, g
<3> HIDE DEF c
<3>2. Dies(b, c, g)
  BY <2>1, <3>1, DestroyFields
<3>3. QED
  BY <2>1, <2>2, <3>2 DEF Handled, Kills, g, c
<2>3. CASE m.kind = "DialogClosed"
<3>1. c = JavaScriptDialogClosed(b, g, m.arg)
  BY <1>4, <2>3 DEF OnMessageReceived, WebViewGuestJavaScriptDialogClosed, g
<3> HIDE DEF c
<3>2. Answered(b, c, g, m.arg)
  BY <2>1, <3>1, DialogClosedFields
<3>3. QED
  BY <2>1, <2>3, <3>2 DEF Handled, Kills, g, c
<2>4. CASE m.kind \notin {"Destroy", "DialogClosed"}
<3>1. SUFFICES GoesOn(b, c, g)
  BY <1>4, <2>1, <2>4 DEF Handled, Kills, g
<3>2. CASE m.kind \in {"SetAutoSize", "Find"}
<4>1. c = b
  BY <1>4, <3>2 DEF OnMessageReceived, RequestOfContents, PassToContents, g
<4>2. Longer(b.down, b.down)
  BY LongerSame DEF BrowserStates
<4>3. QED
  BY <4>1, <4>2 DEF GoesOn, Others
<3>3. CASE m.kind = "LoadUrl"
<4>1. c = Navigate(b, g, m.arg, 0)
  BY <1>4, <3>3 DEF OnMessageReceived, RequestOfGuest, LoadUrl, g
<4>2. m.arg \in Urls
  BY <1>0, <3>3 DEF Fits
<4>3. b.guests[g].entries \in Seq(Urls)
  BY <2>1 DEF BrowserStates, Guest
<4>4. 0 \in Nat /\ 0 <= Len(b.guests[g].entries)
  BY <4>3
<4> HIDE DEF c
<4>5. QED
  BY <2>1, <4>1, <4>2, <4>4, NavigateFields
<3>4. CASE m.kind = "Go"
<4>1. c = Go(b, g, m.arg)
  BY <1>4, <3>4 DEF OnMessageReceived, RequestOfGuest, g
<4>2. m.arg \in Int
  BY <1>0, <3>4 DEF Fits
<4> HIDE DEF c
<4>3. QED
  BY <2>1, <4>1, <4>2, GoFields
<3>5. CASE m.kind = "Reload"
<4>1. c = Go(b, g, 0)
  BY <1>4, <3>5 DEF OnMessageReceived, RequestOfGuest, Reload, g
<4> HIDE DEF c
<4>2. QED
  BY <2>1, <4>1, GoFields
<3>6. CASE m.kind = "Stop"
<4>1. c = Stop(b, g)
  BY <1>4, <3>6 DEF OnMessageReceived, RequestOfGuest, g
<4> HIDE DEF c
<4>2. QED
  BY <2>1, <4>1, StopFields
<3>7. CASE m.kind = "SetZoom"
<4>1. c = SetZoom(b, g, m.arg)
  BY <1>4, <3>7 DEF OnMessageReceived, RequestOfGuest, g
<4>2. m.arg \in Zooms
  BY <1>0, <3>7 DEF Fits
<4> HIDE DEF c
<4>3. QED
  BY <2>1, <4>1, <4>2, SetZoomFields
<3>8. QED
  BY <1>0, <1>4, <2>4, <3>2, <3>3, <3>4, <3>5, <3>6, <3>7 DEF Kinds
<2>5. QED
  BY <2>2, <2>3, <2>4
<1>5. QED
  BY <1>1, <1>2, <1>3, <1>4

-----------------------------------------------------------------------------
(* The steps of the browser. *)

TypeInv ==
  /\ TypeOK
  /\ el.ignore = FALSE
  /\ up \in Seq(UpSet) /\ down \in Seq(DownSet)
  /\ \A g \in Ids : NavSound(guests[g])

\* The record of the browser holds its variables.
LEMMA BrowserFields ==
  ASSUME TypeInv
  PROVE  /\ Browser \in BrowserStates
         /\ Browser.guests = guests /\ Browser.registered = registered
         /\ Browser.zoomMap = zoomMap /\ Browser.crashed = crashed
         /\ Browser.misanswered = misanswered /\ Browser.down = down
  BY DEF TypeInv, TypeOK, Browser, BrowserStates

\* A guest has something to show or to load.
Busy(u) == u.pending # None \/ u.entries # <<>>

BusyStep(c, g) ==
  /\ guests[g].state = "live" /\ Busy(guests[g])
  /\ GoesOn(Browser, c, g)

\* Nothing is a way of going on.
LEMMA StayedAsItWas ==
  ASSUME TypeInv, NEW g \in Ids
  PROVE  GoesOn(Browser, Browser, g)
<1>1. Browser \in BrowserStates /\ Browser.down \in Seq(DownSet)
  BY BrowserFields DEF TypeInv
<1>2. QED
  BY <1>1, LongerSame DEF GoesOn, Others

\* Going on ends in a state of the browser.
LEMMA GoingOnIsABrowser ==
  ASSUME NEW b, NEW c, NEW g, GoesOn(b, c, g)
  PROVE  c \in BrowserStates
  BY DEF GoesOn, Others

\* A guest with an address has an entry.
LEMMA ShowsSomething ==
  ASSUME NEW u \in Guest, Url(u) # NoUrl
  PROVE  Busy(u)
  BY DEF Url, Busy

\* The steps of a guest, one lemma each: its navigation starts,
LEMMA DidStartLoadingStep ==
  ASSUME TypeInv, NEW g \in Ids, DidStartLoading(g)
  PROVE  \E c \in BrowserStates : Becomes(c) /\ BusyStep(c, g)
<1> DEFINE old == guests[g]
           p == [old.pending EXCEPT !.started = TRUE]
           u == [old EXCEPT !.pending = p]
           s == [Browser EXCEPT !.guests[g].pending.started = TRUE]
           c == Notice(Notice(s, g), g)
<1>0. Browser \in BrowserStates /\ Browser.guests = guests /\ old \in Guest
      /\ guests \in [Ids -> Guest]
  BY BrowserFields DEF TypeInv, TypeOK
<1>1. /\ p \in Pending /\ p.url = old.pending.url /\ p.at = old.pending.at
      /\ old.pending # None
  BY <1>0 DEF Guest, Pending, DidStartLoading
<1>2. s = [Browser EXCEPT !.guests[g] = u]
  BY <1>0 DEF BrowserStates
<1> HIDE DEF p, s
<1>3. /\ u \in Guest /\ u.pending = p /\ u.entries = old.entries
      /\ u.index = old.index /\ u.state = old.state
      /\ u.attached = old.attached /\ u.asking = old.asking
      /\ u.callback = old.callback /\ u.crashes = old.crashes
  BY <1>0, <1>1 DEF Guest
<1>4. NavSound(old) => NavSound(u)
  BY <1>1, <1>3 DEF NavSound
<1> HIDE DEF u
<1>5. GoesOn(Browser, s, g)
  BY <1>0, <1>2, <1>3, <1>4, NavigationChanges
<1>6. GoesOn(Browser, Notice(s, g), g)
  BY <1>0, <1>5, GoingOnIsABrowser, NoticeGoesOn
<1>7. GoesOn(Browser, c, g)
  BY <1>0, <1>6, GoingOnIsABrowser, NoticeGoesOn
<1>8. Becomes(c) /\ old.state = "live"
  BY DEF DidStartLoading, DidStartProvisionalLoadForFrame, GuestActs, s
<1>9. QED
  BY <1>1, <1>7, <1>8, GoingOnIsABrowser DEF BusyStep, Busy

\* (a committed navigation leaves a history with its entry in range)
LEMMA CommittedSound ==
  ASSUME NEW u \in Guest, NavSound(u), u.pending.started
  PROVE  LET v == Committed(u) IN
         /\ v \in Guest /\ NavSound(v) /\ Url(v) \in Urls
         /\ v.state = u.state /\ v.attached = u.attached /\ v.asking = u.asking
         /\ v.callback = u.callback /\ v.crashes = u.crashes /\ v.zoom = u.zoom
<1> DEFINE to == u.pending
           e == IF to.at = 0 THEN Append(SubSeq(u.entries, 1, u.index), to.url)
                ELSE u.entries
           i == IF to.at = 0 THEN u.index + 1 ELSE to.at
           v == Committed(u)
<1>1. /\ u.entries \in Seq(Urls) /\ to \in Pending /\ to # None
      /\ to.url \in Urls /\ to.at \in 0..Len(u.entries)
      /\ u.index \in 0..Len(u.entries) /\ Len(u.entries) \in Nat
  BY NoneIsPending DEF Guest, NavSound
<1>2. e \in Seq(Urls) /\ i \in 1..Len(e) /\ e # <<>>
<2>1. CASE to.at = 0
<3> DEFINE q == SubSeq(u.entries, 1, u.index)
<3>1. q \in Seq(Urls) /\ Len(q) = u.index
  BY <1>1
<3> HIDE DEF q
<3>2. Append(q, to.url) \in Seq(Urls) /\ Len(Append(q, to.url)) = u.index + 1
  BY <1>1, <3>1
<3>3. e = Append(q, to.url) /\ i = u.index + 1
  BY <2>1 DEF q
<3> HIDE DEF e, i
<3>4. QED
  BY <1>1, <3>2, <3>3
<2>2. CASE to.at # 0
<3>1. e = u.entries /\ i = to.at
  BY <2>2
<3> HIDE DEF e, i
<3>2. QED
  BY <1>1, <2>2, <3>1
<2>3. QED
  BY <2>1, <2>2
<1>3. v = [u EXCEPT !.page = "alive", !.pending = None, !.entries = e, !.index = i]
  BY DEF Committed
<1> HIDE DEF v, e, i
<1> DEFINE v1 == [u EXCEPT !.page = "alive"]
<1>4. /\ v1 \in Guest
      /\ v1.state = u.state /\ v1.attached = u.attached /\ v1.asking = u.asking
      /\ v1.callback = u.callback /\ v1.crashes = u.crashes /\ v1.zoom = u.zoom
  BY DEF Guest
<1> HIDE DEF v1
<1> DEFINE v2 == [v1 EXCEPT !.pending = None]
<1>5. /\ v2 \in Guest /\ v2.pending = None
      /\ v2.state = u.state /\ v2.attached = u.attached /\ v2.asking = u.asking
      /\ v2.callback = u.callback /\ v2.crashes = u.crashes /\ v2.zoom = u.zoom
  BY <1>4, NoneIsPending DEF Guest
<1> HIDE DEF v2
<1> DEFINE v3 == [v2 EXCEPT !.entries = e]
<1>6. /\ v3 \in Guest /\ v3.pending = None /\ v3.entries = e
      /\ v3.state = u.state /\ v3.attached = u.attached /\ v3.asking = u.asking
      /\ v3.callback = u.callback /\ v3.crashes = u.crashes /\ v3.zoom = u.zoom
  BY <1>2, <1>5 DEF Guest
<1> HIDE DEF v3
<1>7. v = [v3 EXCEPT !.index = i]
  BY <1>3 DEF v1, v2, v3
<1>8. /\ v \in Guest /\ v.pending = None /\ v.entries = e /\ v.index = i
      /\ v.state = u.state /\ v.attached = u.attached /\ v.asking = u.asking
      /\ v.callback = u.callback /\ v.crashes = u.crashes /\ v.zoom = u.zoom
<2>1. i \in Nat
  BY <1>2
<2>2. QED
  BY <1>6, <1>7, <2>1 DEF Guest
<1>9. NavSound(v)
  BY <1>2, <1>8 DEF NavSound
<1>10. Url(v) = e[i]
  BY <1>2, <1>8 DEF Url
<1>11. Url(v) \in Urls
  BY <1>2, <1>10
<1>12. QED
  BY <1>8, <1>9, <1>11 DEF v

\* it commits,
LEMMA DidCommitStep ==
  ASSUME TypeInv, NEW g \in Ids, DidCommitProvisionalLoadForFrame(g)
  PROVE  \E c \in BrowserStates : Becomes(c) /\ BusyStep(c, g)
<1> DEFINE old == guests[g]
           guest == Committed(old)
           factor == zoomMap[Url(guest)]
           s == [Browser EXCEPT !.guests[g] = guest]
           told == WebViewEmit(s, g, CommitEvent(g, guest))
           zoomed == WebViewEmit(told, g, Message("zoom-changed", g, factor))
           z == [zoomed EXCEPT !.guests[g].zoom = factor]
           c == IF guest.zoom = factor THEN told ELSE z
<1>0. /\ Browser \in BrowserStates /\ Browser.guests = guests /\ old \in Guest
      /\ NavSound(old) /\ g \in Nat /\ zoomMap \in [Urls -> Zooms]
<2>1. g \in Nat
  BY WebViewAssumption DEF Ids
<2>2. QED
  BY <2>1, BrowserFields DEF TypeInv, TypeOK
<1>1. old.state = "live" /\ old.pending.started /\ Becomes(c)
  BY DEF DidCommitProvisionalLoadForFrame, GuestActs
<1>2. /\ guest \in Guest /\ NavSound(guest) /\ Url(guest) \in Urls
      /\ guest.state = old.state /\ guest.attached = old.attached
      /\ guest.asking = old.asking /\ guest.callback = old.callback
      /\ guest.crashes = old.crashes
  BY <1>0, <1>1, CommittedSound
<1> HIDE DEF guest
<1>3. factor \in Zooms
  BY <1>0, <1>2
<1>4. CommitEvent(g, guest) \in DownSet /\ CommitEvent(g, guest).kind # "dialog"
<2> DEFINE arg == [url |-> Url(guest), index |-> guest.index - 1,
                   count |-> Len(guest.entries)]
<2>1. guest.index \in Nat /\ guest.entries \in Seq(Urls)
  BY <1>2 DEF Guest
<2>2. arg \in Commit
  BY <1>2, <2>1 DEF Commit
<2>3. CommitEvent(g, guest) = Message("did-commit", g, arg)
  BY DEF CommitEvent
<2> HIDE DEF arg
<2>4. arg \in Args /\ "did-commit" \in Events
  BY <2>2 DEF Args, Events
<2>5. FitsEvent(Message("did-commit", g, arg))
  BY <2>2 DEF FitsEvent, Message
<2>6. QED
  BY <1>0, <2>3, <2>4, <2>5, EventFields
<1>5. GoesOn(Browser, s, g)
  BY <1>0, <1>2, NavigationChanges
<1> HIDE DEF s
<1>6. s \in BrowserStates
  BY <1>5, GoingOnIsABrowser
<1>7. GoesOn(Browser, told, g)
  BY <1>0, <1>4, <1>5, <1>6, EmitGoesOn
<1> HIDE DEF told, factor
<1>8. told \in BrowserStates
  BY <1>7, GoingOnIsABrowser
<1>9. GoesOn(Browser, zoomed, g)
<2> DEFINE m == Message("zoom-changed", g, factor)
<2>1. factor \in Args /\ "zoom-changed" \in Events
  BY <1>3 DEF Args, Events
<2>2. FitsEvent(m)
  BY <1>3 DEF FitsEvent, Message
<2>3. m \in DownSet /\ m.kind # "dialog"
  BY <1>0, <2>1, <2>2, EventFields
<2> HIDE DEF m
<2>4. GoesOn(Browser, WebViewEmit(told, g, m), g)
  BY <1>0, <1>7, <1>8, <2>3, EmitGoesOn
<2>5. QED
  BY <2>4 DEF m
<1> HIDE DEF zoomed
<1>10. zoomed \in BrowserStates /\ zoomed.guests[g] \in Guest
       /\ zoomed.guests \in [Ids -> Guest]
  BY <1>9, GoingOnIsABrowser DEF BrowserStates
<1> DEFINE v == zoomed.guests[g]
           u == [v EXCEPT !.zoom = factor]
<1>11. /\ u \in Guest /\ u.pending = v.pending /\ u.entries = v.entries
      /\ u.index = v.index /\ u.state = v.state
      /\ u.attached = v.attached /\ u.asking = v.asking
      /\ u.callback = v.callback /\ u.crashes = v.crashes
  BY <1>3, <1>10 DEF Guest
<1>12. z = [zoomed EXCEPT !.guests[g] = u]
  BY <1>10
<1> HIDE DEF u, z
<1>13. NavSound(v) => NavSound(u)
  BY <1>11 DEF NavSound
<1>14. GoesOn(zoomed, z, g) /\ z.down = zoomed.down /\ z.crashed = zoomed.crashed
  BY <1>10, <1>11, <1>12, <1>13, NavigationChanges
<1>15. GoesOn(Browser, z, g)
  BY <1>9, <1>14 DEF GoesOn, Others
<1>16. GoesOn(Browser, c, g)
  BY <1>7, <1>15
<1>17. Busy(old)
  BY <1>1, NoneIsPending DEF Busy
<1>18. QED
  BY <1>1, <1>16, <1>17, GoingOnIsABrowser DEF BusyStep

\* or fails;
LEMMA DidFailStep ==
  ASSUME TypeInv, NEW g \in Ids, DidFailProvisionalLoad(g)
  PROVE  \E c \in BrowserStates : Becomes(c) /\ BusyStep(c, g)
<1> DEFINE old == guests[g]
           u1 == [old EXCEPT !.pending = None]
           u == [u1 EXCEPT !.failed = TRUE]
           s == [Browser EXCEPT !.guests[g].pending = None, !.guests[g].failed = TRUE]
           c == Notice(s, g)
<1>0. /\ Browser \in BrowserStates /\ Browser.guests = guests /\ old \in Guest
      /\ guests \in [Ids -> Guest]
  BY BrowserFields DEF TypeInv, TypeOK
<1>1. old.state = "live" /\ old.pending.started /\ Becomes(c)
  BY DEF DidFailProvisionalLoad, GuestActs
<1>2. s = [Browser EXCEPT !.guests[g] = u]
  BY <1>0 DEF BrowserStates
<1> HIDE DEF s
<1>3. /\ u1 \in Guest /\ u1.pending = None /\ u1.entries = old.entries
      /\ u1.index = old.index /\ u1.state = old.state
      /\ u1.attached = old.attached /\ u1.asking = old.asking
      /\ u1.callback = old.callback /\ u1.crashes = old.crashes
  BY <1>0, NoneIsPending DEF Guest
<1> HIDE DEF u1
<1>4. /\ u \in Guest /\ u.pending = None /\ u.entries = old.entries
      /\ u.index = old.index /\ u.state = old.state
      /\ u.attached = old.attached /\ u.asking = old.asking
      /\ u.callback = old.callback /\ u.crashes = old.crashes
  BY <1>3 DEF Guest
<1> HIDE DEF u
<1>5. NavSound(old) => NavSound(u)
  BY <1>4 DEF NavSound
<1>6. GoesOn(Browser, s, g)
  BY <1>0, <1>2, <1>4, <1>5, NavigationChanges
<1>7. GoesOn(Browser, c, g)
  BY <1>0, <1>6, GoingOnIsABrowser, NoticeGoesOn
<1>8. Busy(old)
  BY <1>1, NoneIsPending DEF Busy
<1>9. QED
  BY <1>1, <1>7, <1>8, GoingOnIsABrowser DEF BusyStep

\* a link of its page is followed;
LEMMA OpenURLStep ==
  ASSUME TypeInv, NEW g \in Ids, NEW url \in Urls, OpenURLFromTab(g, url)
  PROVE  \E c \in BrowserStates : Becomes(c) /\ BusyStep(c, g)
<1> DEFINE c == Navigate(Browser, g, url, 0)
<1>0. /\ Browser \in BrowserStates /\ Browser.guests = guests /\ guests[g] \in Guest
  BY BrowserFields DEF TypeInv, TypeOK
<1>1. Becomes(c) /\ guests[g].state = "live" /\ Url(guests[g]) # NoUrl
  BY DEF OpenURLFromTab, GuestActs, LoadUrl
<1>2. 0 \in Nat /\ 0 <= Len(Browser.guests[g].entries)
  BY <1>0 DEF Guest
<1> HIDE DEF c
<1>3. GoesOn(Browser, c, g)
  BY <1>0, <1>2, NavigateFields DEF c
<1>4. QED
  BY <1>0, <1>1, <1>3, ShowsSomething, GoingOnIsABrowser DEF BusyStep

\* its page asks for something that needs the embedder;
LEMMA PageNotifiesStep ==
  ASSUME TypeInv, NEW g \in Ids, PageNotifies(g) \/ PageChooses(g)
  PROVE  \E c \in BrowserStates : Becomes(c) /\ BusyStep(c, g)
<1> DEFINE c == Notice(Browser, g)
<1>0. /\ Browser \in BrowserStates /\ Browser.guests = guests /\ guests[g] \in Guest
  BY BrowserFields DEF TypeInv, TypeOK
<1>1. Becomes(c) /\ guests[g].state = "live" /\ Url(guests[g]) # NoUrl
  BY DEF PageNotifies, PageChooses, GuestActs, Notice
<1> HIDE DEF c
<1>2. GoesOn(Browser, c, g)
  BY <1>0, StayedAsItWas, NoticeGoesOn DEF c
<1>3. QED
  BY <1>0, <1>1, <1>2, ShowsSomething, GoingOnIsABrowser DEF BusyStep

\* Guest g asks for a dialog.
Asks(c, g) ==
  /\ guests[g].state = "live" /\ Busy(guests[g]) /\ guests[g].asking = 0
  /\ c \in BrowserStates
  /\ c.registered = registered /\ c.misanswered = misanswered
  /\ \A h \in Ids : h # g => c.guests[h] = guests[h]
  /\ c.guests[g].state = "live"
  /\ c.guests[g].attached = guests[g].attached
  /\ c.guests[g].crashes = guests[g].crashes
  /\ c.guests[g].asking = lastDialog + 1 /\ c.guests[g].callback = lastDialog + 1
  /\ NavSound(guests[g]) => NavSound(c.guests[g])
  /\ IF guests[g].attached
     THEN /\ c.down = Append(down, Message("dialog", g, lastDialog + 1))
          /\ Message("dialog", g, lastDialog + 1) \in DownSet
          /\ c.crashed = crashed
     ELSE c.down = down /\ c.crashed # "no"

\* its page opens a dialog, which is told to the element;
LEMMA OpenDialogStep ==
  ASSUME TypeInv, NEW g \in Ids, OpenDialog(g)
  PROVE  \E c \in BrowserStates : Becomes(c) /\ Asks(c, g)
<1> DEFINE d == lastDialog + 1
           old == guests[g]
           u1 == [old EXCEPT !.asking = d]
           u == [u1 EXCEPT !.callback = d]
           s1 == [Browser EXCEPT !.guests[g].asking = d]
           s == [s1 EXCEPT !.guests[g].callback = d]
           m == Message("dialog", g, d)
           c == WebViewEmit(s, g, m)
<1>0. /\ Browser \in BrowserStates /\ Browser.guests = guests /\ old \in Guest
      /\ Browser.registered = registered /\ Browser.misanswered = misanswered
      /\ Browser.down = down /\ Browser.crashed = crashed
      /\ guests \in [Ids -> Guest] /\ lastDialog \in 0..MaxDialogs
  BY BrowserFields DEF TypeInv, TypeOK
<1>1. /\ old.state = "live" /\ Url(old) # NoUrl /\ old.asking = 0
      /\ lastDialog < MaxDialogs /\ lastDialog' = d
      /\ GuestActs(RunJavaScriptDialog(Browser, g, lastDialog'))
  BY DEF OpenDialog
<1>2. Becomes(RunJavaScriptDialog(Browser, g, d))
  BY <1>1 DEF GuestActs
<1>3. RunJavaScriptDialog(Browser, g, d) = c
  BY DEF RunJavaScriptDialog, s, s1, c, m
<1>4. d \in Dialogs
  BY <1>0, <1>1, WebViewAssumption DEF Dialogs
<1> HIDE DEF d
<1>5. m \in DownSet
<2>0. g \in Nat
  BY WebViewAssumption DEF Ids
<2>1. d \in Args /\ "dialog" \in Events
  BY <1>4, WebViewAssumption DEF Args, Events, Dialogs
<2>2. FitsEvent(m)
  BY <1>4 DEF FitsEvent, Message
<2>3. QED
  BY <2>0, <2>1, <2>2, EventFields
<1> HIDE DEF m
<1>6. /\ u1 \in Guest /\ u1.asking = d /\ u1.state = old.state
      /\ u1.attached = old.attached /\ u1.crashes = old.crashes
      /\ u1.entries = old.entries /\ u1.pending = old.pending /\ u1.index = old.index
  BY <1>0, <1>4 DEF Guest
<1> HIDE DEF u1
<1>7. /\ u \in Guest /\ u.asking = d /\ u.callback = d /\ u.state = old.state
      /\ u.attached = old.attached /\ u.crashes = old.crashes
      /\ u.entries = old.entries /\ u.pending = old.pending /\ u.index = old.index
  BY <1>4, <1>6 DEF Guest
<1> HIDE DEF u
<1>8. s1 = [Browser EXCEPT !.guests[g] = u1]
  BY <1>0 DEF u1
<1>9. /\ s1 \in BrowserStates /\ s1.guests[g] = u1
      /\ \A h \in Ids : h # g => s1.guests[h] = guests[h]
      /\ s1.registered = registered /\ s1.crashed = crashed
      /\ s1.misanswered = misanswered /\ s1.down = down
<2> HIDE DEF s1
<2>1. QED
  BY <1>0, <1>6, <1>8, GuestChanges
<1> HIDE DEF s1
<1>10. s = [s1 EXCEPT !.guests[g] = u]
  BY <1>9 DEF u
<1>11. /\ s \in BrowserStates /\ s.guests[g] = u
       /\ \A h \in Ids : h # g => s.guests[h] = guests[h]
       /\ s.registered = registered /\ s.crashed = crashed
       /\ s.misanswered = misanswered /\ s.down = down
<2> HIDE DEF s
<2>1. QED
  BY <1>7, <1>9, <1>10, GuestChanges
<1> HIDE DEF s
<1>12. /\ c \in BrowserStates
       /\ c.guests = s.guests /\ c.registered = s.registered
       /\ c.zoomMap = s.zoomMap /\ c.misanswered = s.misanswered
       /\ IF s.guests[g].attached
          THEN c.down = Append(s.down, m) /\ c.crashed = s.crashed
          ELSE c.down = s.down /\ c.crashed # "no"
  BY <1>5, <1>11, EmitFields
<1> HIDE DEF c
<1>13. NavSound(old) => NavSound(u)
  BY <1>7 DEF NavSound
<1>14. Busy(old)
  BY <1>0, <1>1, ShowsSomething
<1>15. Asks(c, g)
  BY <1>1, <1>5, <1>7, <1>11, <1>12, <1>13, <1>14 DEF Asks, d, m
<1>16. QED
  BY <1>2, <1>3, <1>12, <1>15

\* The renderer of guest g crashes.
Breaks(c, g) ==
  /\ guests[g].state = "live" /\ Busy(guests[g])
  /\ Others(Browser, c, g)
  /\ c.registered = registered
  /\ c.guests[g].state = "live" /\ c.guests[g].crashes
  /\ c.guests[g].attached = guests[g].attached
  /\ NavSound(guests[g]) => NavSound(c.guests[g])
  /\ guests[g].attached => c.crashed = crashed

\* its renderer crashes, and the dialog it waited for is cancelled;
LEMMA RenderProcessGoneStep ==
  ASSUME TypeInv, NEW g \in Ids, RenderProcessGone(g)
  PROVE  \E c \in BrowserStates : Becomes(c) /\ Breaks(c, g)
<1> DEFINE old == guests[g]
           u1 == [old EXCEPT !.page = "crashed"]
           u2 == [u1 EXCEPT !.crashes = TRUE]
           u3 == [u2 EXCEPT !.asking = 0]
           u4 == [u3 EXCEPT !.pending = None]
           u == [u4 EXCEPT !.failed = TRUE]
           s == [Browser EXCEPT !.guests[g].page = "crashed",
                                !.guests[g].crashes = TRUE,
                                !.guests[g].asking = 0,
                                !.guests[g].pending = None,
                                !.guests[g].failed = TRUE]
           c == Notice(s, g)
<1>0. /\ Browser \in BrowserStates /\ Browser.guests = guests /\ old \in Guest
      /\ Browser.registered = registered /\ Browser.misanswered = misanswered
      /\ Browser.down = down /\ Browser.crashed = crashed
      /\ guests \in [Ids -> Guest] /\ down \in Seq(DownSet)
  BY BrowserFields DEF TypeInv, TypeOK
<1>1. old.state = "live" /\ Url(old) # NoUrl /\ Becomes(c)
  BY DEF RenderProcessGone, GuestActs
<1> DEFINE s3 == [Browser EXCEPT !.guests[g].page = "crashed",
                                 !.guests[g].crashes = TRUE,
                                 !.guests[g].asking = 0]
<1>2. s3 = [Browser EXCEPT !.guests[g] = u3]
  BY <1>0
<1>2a. s = [s3 EXCEPT !.guests[g].pending = None, !.guests[g].failed = TRUE]
  OBVIOUS
<1> HIDE DEF s, s3
<1>3. /\ u1 \in Guest /\ u1.state = old.state /\ u1.attached = old.attached
      /\ u1.entries = old.entries /\ u1.index = old.index
  BY <1>0 DEF Guest
<1> HIDE DEF u1
<1>4. /\ u2 \in Guest /\ u2.state = old.state /\ u2.attached = old.attached
      /\ u2.entries = old.entries /\ u2.index = old.index /\ u2.crashes = TRUE
  BY <1>3 DEF Guest
<1> HIDE DEF u2
<1>5. /\ u3 \in Guest /\ u3.state = old.state /\ u3.attached = old.attached
      /\ u3.entries = old.entries /\ u3.index = old.index /\ u3.crashes = TRUE
  BY <1>4 DEF Guest
<1> HIDE DEF u3
<1>6. /\ u4 \in Guest /\ u4.state = old.state /\ u4.attached = old.attached
      /\ u4.entries = old.entries /\ u4.index = old.index /\ u4.crashes = TRUE
      /\ u4.pending = None
  BY <1>5, NoneIsPending DEF Guest
<1> HIDE DEF u4
<1>7. /\ u \in Guest /\ u.state = old.state /\ u.attached = old.attached
      /\ u.entries = old.entries /\ u.index = old.index /\ u.crashes = TRUE
      /\ u.pending = None
  BY <1>6 DEF Guest
<1>7a. /\ s3 \in BrowserStates /\ s3.guests[g] = u3
       /\ \A h \in Ids : h # g => s3.guests[h] = guests[h]
       /\ s3.registered = registered /\ s3.crashed = crashed
       /\ s3.misanswered = misanswered /\ s3.down = down
  BY <1>0, <1>2, <1>5, GuestChanges
<1>7b. s = [s3 EXCEPT !.guests[g] = u]
  BY <1>2a, <1>7a DEF u4
<1> HIDE DEF u
<1>8. /\ s \in BrowserStates /\ s.guests[g] = u
      /\ \A h \in Ids : h # g => s.guests[h] = guests[h]
      /\ s.registered = registered /\ s.crashed = crashed
      /\ s.misanswered = misanswered /\ s.down = down
  BY <1>7, <1>7a, <1>7b, GuestChanges
<1>9. /\ c \in BrowserStates
      /\ c.guests = s.guests /\ c.registered = s.registered
      /\ c.misanswered = s.misanswered /\ c.down = s.down
      /\ IF s.guests[g].attached THEN c.crashed = s.crashed ELSE c.crashed # "no"
  BY <1>8, NoticeFields
<1> HIDE DEF c
<1>10. NavSound(old) => NavSound(u)
  BY <1>7 DEF NavSound
<1>11. Longer(down, down)
  BY <1>0, LongerSame
<1>12. Others(Browser, c, g)
  BY <1>0, <1>8, <1>9, <1>11 DEF Others
<1>13. Breaks(c, g)
  BY <1>0, <1>1, <1>7, <1>8, <1>9, <1>10, <1>12, ShowsSomething DEF Breaks
<1>14. QED
  BY <1>1, <1>9, <1>13

\* The window goes: the first guest it embeds destroys itself.
Leaves(c) ==
  /\ c \in BrowserStates
  /\ c.misanswered = misanswered
  /\ \/ c = Browser
     \/ \E g \in Ids :
          /\ g \in registered
          /\ c.registered = registered \ {g}
          /\ c.guests[g].state = "gone" /\ c.guests[g].crashes = guests[g].crashes
          /\ NavSound(guests[g]) => NavSound(c.guests[g])
          /\ \A h \in Ids : h # g => c.guests[h] = guests[h]

\* and the embedder goes, with the guests it has.
LEMMA EmbedderGoesStep ==
  ASSUME TypeInv, EmbedderGoes
  PROVE  \E c \in BrowserStates : Becomes(c) /\ Leaves(c)
<1>0. /\ Browser \in BrowserStates /\ Browser.guests = guests
      /\ Browser.registered = registered /\ Browser.misanswered = misanswered
      /\ guests \in [Ids -> Guest] /\ registered \subseteq Ids
  BY BrowserFields DEF TypeInv, TypeOK
<1>1. CASE Becomes(Browser)
  BY <1>0, <1>1 DEF Leaves
<1>2. CASE \E g \in registered : Becomes(EmbedderObserverDestroy(Browser, g))
<2>1. PICK g \in registered : Becomes(EmbedderObserverDestroy(Browser, g))
  BY <1>2
<2>2. g \in Ids
  BY <1>0
<2> DEFINE u == [guests[g] EXCEPT !.attached = FALSE]
           b == [Browser EXCEPT !.guests[g].attached = FALSE]
           c == Destroy(b, g)
<2>3. u \in Guest /\ u.entries = guests[g].entries /\ u.index = guests[g].index
      /\ u.pending = guests[g].pending /\ u.crashes = guests[g].crashes
<3>1. guests[g] \in Guest
  BY <1>0, <2>2
<3>2. QED
  BY <3>1 DEF Guest
<2>4. b = [Browser EXCEPT !.guests[g] = u]
  BY <1>0
<2> HIDE DEF u, b
<2>5. /\ b \in BrowserStates /\ b.guests[g] = u
      /\ \A h \in Ids : h # g => b.guests[h] = guests[h]
      /\ b.registered = registered /\ b.misanswered = misanswered
  BY <1>0, <2>2, <2>3, <2>4, GuestChanges
<2>6. Becomes(c)
  BY <2>1 DEF EmbedderObserverDestroy, b
<2>7. Dies(b, c, g)
  BY <2>2, <2>5, DestroyFields
<2> HIDE DEF c
<2>8. NavSound(guests[g]) => NavSound(u)
  BY <2>3 DEF NavSound
<2>9. Leaves(c)
  BY <2>2, <2>3, <2>5, <2>7, <2>8 DEF Leaves, Dies, Others
<2>10. QED
  BY <2>6, <2>9 DEF Leaves
<1>3. QED
  BY <1>1, <1>2 DEF EmbedderGoes

\* The first element of a sequence that has one, and the others.
LEMMA HeadFits ==
  ASSUME NEW S, NEW s \in Seq(S), s # <<>>
  PROVE  /\ Head(s) \in S /\ Head(s) = s[1] /\ Tail(s) \in Seq(S)
         /\ Len(Tail(s)) = Len(s) - 1 /\ Len(s) \in Nat /\ Len(s) >= 1
         /\ \A i \in 1..Len(Tail(s)) : i + 1 \in 1..Len(s) /\ Tail(s)[i] = s[i + 1]
  OBVIOUS

\* What a step of the browser is.
BrowserStep(c) ==
  /\ Running
  /\ Becomes(c)
  /\ lastId' = lastId
  /\ \/ /\ up' = up /\ embedder' = embedder
        /\ \E g \in Ids : \/ BusyStep(c, g) /\ lastDialog' = lastDialog
                          \/ Asks(c, g) /\ lastDialog' = lastDialog + 1
                             /\ lastDialog < MaxDialogs
                          \/ Breaks(c, g) /\ lastDialog' = lastDialog
     \/ /\ up # <<>> /\ up' = Tail(up) /\ embedder' = embedder
        /\ lastDialog' = lastDialog /\ Handled(Browser, c, Head(up))
     \/ /\ up' = up /\ embedder' = "gone" /\ lastDialog' = lastDialog
        /\ Leaves(c)

\* Every step of the browser's half is one of these.
LEMMA BrowserSteps ==
  ASSUME TypeInv, GuestStep
  PROVE  /\ \E c \in BrowserStates : BrowserStep(c)
         /\ acts' \in 0..MaxActs
<1>0. acts \in 0..MaxActs /\ MaxActs \in Nat
  BY WebViewAssumption DEF TypeInv, TypeOK
<1>1. CASE BrowserHandles
<2> DEFINE c == OnMessageReceived(Browser, Head(up))
<2>1. /\ Running /\ up # <<>> /\ Becomes(c) /\ up' = Tail(up) /\ lastId' = lastId
      /\ lastDialog' = lastDialog /\ embedder' = embedder /\ acts' = acts
  BY <1>1 DEF BrowserHandles
<2>2. Head(up) \in UpSet /\ Browser \in BrowserStates
  BY <2>1, HeadFits, BrowserFields DEF TypeInv
<2> HIDE DEF c
<2>3. Handled(Browser, c, Head(up))
  BY <2>2, MessageHandled DEF c
<2>4. c \in BrowserStates
  BY <2>2, <2>3 DEF Handled, Joins, Dies, Answered, GoesOn, Others
<2>5. QED
  BY <1>0, <2>1, <2>3, <2>4 DEF BrowserStep
<1>2. ASSUME NEW g \in Ids,
             \/ DidStartLoading(g)
             \/ DidCommitProvisionalLoadForFrame(g)
             \/ DidFailProvisionalLoad(g)
             \/ PageNotifies(g) \/ PageChooses(g)
      PROVE  /\ \E c \in BrowserStates : BrowserStep(c)
             /\ acts' \in 0..MaxActs
<2>1. PICK c \in BrowserStates : Becomes(c) /\ BusyStep(c, g)
  BY <1>2, DidStartLoadingStep, DidCommitStep, DidFailStep, PageNotifiesStep
<2>2. /\ Running /\ lastId' = lastId /\ up' = up /\ embedder' = embedder
      /\ lastDialog' = lastDialog /\ acts' = acts
  BY <1>2 DEF DidStartLoading, DidCommitProvisionalLoadForFrame,
              DidFailProvisionalLoad, PageNotifies, PageChooses, GuestActs
<2>3. QED
  BY <1>0, <2>1, <2>2 DEF BrowserStep
<1>3. ASSUME NEW g \in Ids, NEW url \in Urls, OpenURLFromTab(g, url)
      PROVE  /\ \E c \in BrowserStates : BrowserStep(c)
             /\ acts' \in 0..MaxActs
<2>1. PICK c \in BrowserStates : Becomes(c) /\ BusyStep(c, g)
  BY <1>3, OpenURLStep
<2>2. /\ Running /\ lastId' = lastId /\ up' = up /\ embedder' = embedder
      /\ lastDialog' = lastDialog /\ acts < MaxActs /\ acts' = acts + 1
  BY <1>3 DEF OpenURLFromTab, GuestActs
<2>3. QED
  BY <1>0, <2>1, <2>2 DEF BrowserStep
<1>4. ASSUME NEW g \in Ids, OpenDialog(g)
      PROVE  /\ \E c \in BrowserStates : BrowserStep(c)
             /\ acts' \in 0..MaxActs
<2>1. PICK c \in BrowserStates : Becomes(c) /\ Asks(c, g)
  BY <1>4, OpenDialogStep
<2>2. /\ Running /\ lastId' = lastId /\ up' = up /\ embedder' = embedder
      /\ lastDialog' = lastDialog + 1 /\ acts' = acts /\ lastDialog < MaxDialogs
  BY <1>4 DEF OpenDialog, GuestActs
<2>3. QED
  BY <1>0, <2>1, <2>2 DEF BrowserStep
<1>5. ASSUME NEW g \in Ids, RenderProcessGone(g)
      PROVE  /\ \E c \in BrowserStates : BrowserStep(c)
             /\ acts' \in 0..MaxActs
<2>1. PICK c \in BrowserStates : Becomes(c) /\ Breaks(c, g)
  BY <1>5, RenderProcessGoneStep
<2>2. /\ Running /\ lastId' = lastId /\ up' = up /\ embedder' = embedder
      /\ lastDialog' = lastDialog /\ acts < MaxActs /\ acts' = acts + 1
  BY <1>5 DEF RenderProcessGone, GuestActs
<2>3. QED
  BY <1>0, <2>1, <2>2 DEF BrowserStep
<1>6. CASE EmbedderGoes
<2>1. PICK c \in BrowserStates : Becomes(c) /\ Leaves(c)
  BY <1>6, EmbedderGoesStep
<2>2. /\ Running /\ lastId' = lastId /\ up' = up /\ embedder' = "gone"
      /\ lastDialog' = lastDialog /\ acts' = acts
  BY <1>6 DEF EmbedderGoes
<2>3. QED
  BY <1>0, <2>1, <2>2 DEF BrowserStep
<1>7. QED
  BY <1>1, <1>2, <1>3, <1>4, <1>5, <1>6 DEF GuestStep

-----------------------------------------------------------------------------
(* The turns of the renderer. *)

\* What attaches an element to its guest is as it was.
Stays(f) ==
  /\ f.attached = el.attached /\ f.plugin = el.plugin /\ f.bound = el.bound
  /\ f.dying = el.dying /\ f.guest = el.guest /\ f.first = el.first

\* Messages to the guest of the element that are requests.
Requests == Kinds \ {"Attach", "Destroy", "PluginDestroyed"}

ToItsGuest(msgs) ==
  \A i \in 1..Len(msgs) :
    msgs[i].guest = el.guest /\ el.guest # 0 /\ msgs[i].kind \in Requests

NoAnswers(msgs) == \A i \in 1..Len(msgs) : msgs[i].kind # "DialogClosed"

\* src is parsed, in an element e that is in the document or not.
Parses(t, attached) ==
  \E e \in AnyElement :
    /\ e.attached = attached
    /\ e.plugin = el.plugin /\ e.bound = el.bound /\ e.dying = el.dying
    /\ e.guest = el.guest /\ e.first = el.first /\ e.held = el.held
    /\ t.el = ParsedElement(e) /\ t.msgs = ParsedMessages(e, <<>>)
    /\ t.made = Creates(e)

Says(t) ==
  Stays(t.el) /\ t.el.held = el.held /\ t.made = FALSE
    /\ ToItsGuest(t.msgs) /\ NoAnswers(t.msgs)

\* The answer to dialog d goes out, if there is a guest to send it to.
Tells(t, d) ==
  t.msgs = IF el.guest = 0 THEN <<>>
           ELSE <<Message("DialogClosed", el.guest, d)>>

AnswersOne(t) ==
  /\ Stays(t.el) /\ t.made = FALSE
  /\ \E d \in el.held : t.el.held = el.held \ {d} /\ Tells(t, d)

HearsDialog(t) ==
  /\ Stays(t.el) /\ t.made = FALSE
  /\ down # <<>> /\ Head(down).kind = "dialog"
  /\ \/ t.el.held = el.held \union {Head(down).arg} /\ t.msgs = <<>>
     \/ t.el.held = el.held /\ Tells(t, Head(down).arg)

LosesPlugin(t) ==
  /\ t.el.dying = el.dying \union ({el.bound} \ {0})
  /\ t.el.bound = 0 /\ t.el.plugin = FALSE
  /\ t.el.held = el.held /\ t.made = FALSE

LeavesDocument(t) ==
  /\ LosesPlugin(t)
  /\ t.el.attached = FALSE /\ t.el.guest = 0
  /\ IF el.guest = 0 THEN t.msgs = <<>> /\ t.el.first = el.first
     ELSE t.msgs = <<Message("Destroy", el.guest, NoUrl)>> /\ t.el.first = TRUE

Disappears(t) ==
  /\ LosesPlugin(t)
  /\ t.el.attached = el.attached /\ t.el.guest = el.guest
  /\ t.el.first = el.first /\ t.msgs = <<>>

GetsPlugin(t) ==
  /\ el.attached /\ t.el.plugin
  /\ t.el.attached = el.attached /\ t.el.bound = el.bound
  /\ t.el.dying = el.dying /\ t.el.guest = el.guest /\ t.el.first = el.first
  /\ t.el.held = el.held /\ t.made = FALSE /\ t.msgs = <<>>

BindsGuest(t) ==
  /\ el.plugin /\ el.guest # 0 /\ el.bound # el.guest
  /\ t.el.bound = el.guest
  /\ t.el.dying = el.dying \union ({el.bound} \ {0})
  /\ t.el.attached = el.attached /\ t.el.plugin = el.plugin
  /\ t.el.guest = el.guest /\ t.el.first = el.first /\ t.el.held = el.held
  /\ t.made = FALSE /\ t.msgs = <<Message("Attach", el.guest, el.src)>>

BuriesOne(t) ==
  \E g \in el.dying :
    /\ t.el.dying = el.dying \ {g}
    /\ t.el.attached = el.attached /\ t.el.plugin = el.plugin
    /\ t.el.bound = el.bound /\ t.el.guest = el.guest
    /\ t.el.first = el.first /\ t.el.held = el.held
    /\ t.made = FALSE /\ t.msgs = <<Message("PluginDestroyed", g, NoUrl)>>

\* A turn after which the flag of the mutation observer is down.
Sound(t) == t \in Turns /\ t.el.ignore = FALSE /\ t.recs = <<>>

\* The element of a state may begin a turn.
LEMMA ElementIsAny ==
  ASSUME TypeInv
  PROVE  el \in AnyElement /\ lastId \in Nat /\ ~el.ignore
<1>1. Ids \subseteq Nat /\ el \in Element /\ lastId \in Nat /\ el.ignore = FALSE
  BY WebViewAssumption DEF TypeInv, TypeOK, Ids
<1>2. el \in AnyElement
<2>1. Ids \union {0} \subseteq Nat /\ SUBSET Ids \subseteq SUBSET Nat
  BY <1>1
<2>2. QED
  BY <1>1, <2>1 DEF Element, AnyElement, Addresses
<1>3. QED
  BY <1>1, <1>2

\* The turns of the page: an assignment to src, or its removal;
LEMMA AssignsParse ==
  ASSUME TypeInv, NEW new \in Addresses, new # NoUrl \/ el.attr # NoUrl
  PROVE  LET t == src_observer(setAttribute(Turn, new))
         IN  Sound(t) /\ Parses(t, el.attached)
<1> DEFINE t == src_observer(setAttribute(Turn, new))
           e == [el EXCEPT !.attr = Assigned(new)]
<1>1. el \in AnyElement /\ lastId \in Nat /\ ~el.ignore
  BY ElementIsAny
<1>2. /\ t \in Turns /\ t.recs = <<>> /\ e \in AnyElement
      /\ t.el = ParsedElement(e) /\ t.msgs = ParsedMessages(e, <<>>)
      /\ t.made = Creates(e)
  BY <1>1, AssignFields
<1>3. /\ e.attached = el.attached /\ e.plugin = el.plugin /\ e.bound = el.bound
      /\ e.dying = el.dying /\ e.guest = el.guest /\ e.first = el.first
      /\ e.held = el.held /\ e.ignore = FALSE
  BY <1>1 DEF AnyElement
<1> HIDE DEF t, e
<1>4. t.el.ignore = FALSE
  BY <1>1, <1>2, <1>3, ParsedKeeps, ZenonT(20)
<1>5. QED
  BY <1>2, <1>3, <1>4 DEF Parses, Sound, t

\* the element enters the document;
LEMMA AttachesParse ==
  ASSUME TypeInv
  PROVE  LET t == src_observer(attachedCallback(Turn))
         IN  Sound(t) /\ Parses(t, TRUE)
<1> DEFINE e == [el EXCEPT !.attached = TRUE]
           a == [Turn EXCEPT !.el.attached = TRUE]
           t == attr_src_parse(a)
<1>1. el \in AnyElement /\ lastId \in Nat /\ ~el.ignore /\ el.ignore = FALSE
  BY ElementIsAny DEF AnyElement
<1>2. /\ Turn \in Turns /\ Turn.el = el /\ Turn.msgs = <<>> /\ Turn.recs = <<>>
      /\ Turn.made = FALSE
  BY <1>1, TurnFields
<1>3. /\ e \in AnyElement /\ e.attached = TRUE /\ e.plugin = el.plugin
      /\ e.bound = el.bound /\ e.dying = el.dying /\ e.guest = el.guest
      /\ e.first = el.first /\ e.held = el.held /\ e.ignore = FALSE
  BY <1>1 DEF AnyElement
<1>4. a = [Turn EXCEPT !.el = e]
  BY <1>2
<1> HIDE DEF e, a
<1>5. a \in Turns /\ a.el = e /\ a.msgs = <<>> /\ a.recs = <<>> /\ a.made = FALSE
  BY <1>2, <1>3, <1>4, ElementChanges
<1>6. /\ t \in Turns /\ t.recs = <<>> /\ t.made = (FALSE \/ Creates(e))
      /\ t.el = ParsedElement(e) /\ t.msgs = ParsedMessages(e, <<>>)
<2>1. LET u == attr_src_parse(a) IN
         /\ u \in Turns /\ u.recs = a.recs
         /\ u.made = (a.made \/ Creates(a.el))
         /\ u.el = ParsedElement(a.el) /\ u.msgs = ParsedMessages(a.el, a.msgs)
  BY <1>1, <1>5, ParseFields
<2>2. QED
  BY <1>5, <2>1
<1> HIDE DEF t
<1>7. src_observer(attachedCallback(Turn)) = t
  BY <1>6, NothingObserved DEF attachedCallback, t, a
<1>8. t.el.ignore = FALSE
<2>1. ParsedElement(e).ignore = e.ignore
  BY <1>1, <1>3, ParsedKeeps
<2>2. QED
  BY <1>3, <1>6, <2>1
<1>9. t.made = Creates(e)
  BY <1>6 DEF Creates
<1>10. QED
  BY <1>3, <1>6, <1>7, <1>8, <1>9 DEF Parses, Sound

\* The plugin the element gives up joins those about to go.
LEMMA DyingFits ==
  ASSUME TypeInv
  PROVE  /\ el.dying \union ({el.bound} \ {0}) \in SUBSET Nat
         /\ el.dying \union ({el.bound} \ {0}) \subseteq Ids
<1>1. Ids \subseteq Nat /\ el \in Element
  BY WebViewAssumption DEF TypeInv, TypeOK, Ids
<1>2. QED
  BY <1>1 DEF Element

\* The plugin goes from an element whose guest and document are as e has them.
LEMMA PluginGoesFields ==
  ASSUME TypeInv, NEW t \in Turns, t.el.dying = el.dying, t.el.bound = el.bound
  PROVE  LET u == PluginGoes(t) IN
         /\ u \in Turns /\ u.recs = t.recs /\ u.msgs = t.msgs /\ u.made = t.made
         /\ u.el.dying = el.dying \union ({el.bound} \ {0})
         /\ u.el.bound = 0 /\ u.el.plugin = FALSE
         /\ u.el.attached = t.el.attached /\ u.el.guest = t.el.guest
         /\ u.el.first = t.el.first /\ u.el.held = t.el.held
         /\ u.el.ignore = t.el.ignore
<1> DEFINE y == el.dying \union ({el.bound} \ {0})
           a == [t EXCEPT !.el.dying = y]
           b == [a EXCEPT !.el.bound = 0]
           c == [b EXCEPT !.el.plugin = FALSE]
<1>1. PluginGoes(t) = c
  BY DEF PluginGoes
<1>2. y \in SUBSET Nat
  BY DyingFits
<1> HIDE DEF y
<1>3. /\ a \in Turns /\ a.recs = t.recs /\ a.msgs = t.msgs /\ a.made = t.made
      /\ a.el.dying = y
      /\ a.el.attached = t.el.attached /\ a.el.guest = t.el.guest
      /\ a.el.first = t.el.first /\ a.el.held = t.el.held /\ a.el.ignore = t.el.ignore
  BY <1>2 DEF Turns, AnyElement
<1> HIDE DEF a
<1>4. /\ b \in Turns /\ b.recs = t.recs /\ b.msgs = t.msgs /\ b.made = t.made
      /\ b.el.dying = y /\ b.el.bound = 0
      /\ b.el.attached = t.el.attached /\ b.el.guest = t.el.guest
      /\ b.el.first = t.el.first /\ b.el.held = t.el.held /\ b.el.ignore = t.el.ignore
  BY <1>3 DEF Turns, AnyElement
<1> HIDE DEF b
<1>5. /\ c \in Turns /\ c.recs = t.recs /\ c.msgs = t.msgs /\ c.made = t.made
      /\ c.el.dying = y /\ c.el.bound = 0 /\ c.el.plugin = FALSE
      /\ c.el.attached = t.el.attached /\ c.el.guest = t.el.guest
      /\ c.el.first = t.el.first /\ c.el.held = t.el.held /\ c.el.ignore = t.el.ignore
  BY <1>4 DEF Turns, AnyElement
<1> HIDE DEF c
<1>6. QED
  BY <1>1, <1>5 DEF y

\* the element leaves the document;
LEMMA DetachTurn ==
  ASSUME TypeInv
  PROVE  LET t == src_observer(detachedCallback(Turn))
         IN  Sound(t) /\ LeavesDocument(t)
<1> DEFINE a == [Turn EXCEPT !.el.attached = FALSE]
           n == Native(a, "Destroy", NoUrl)
           z == [n EXCEPT !.el.guest = 0]
           r == [z EXCEPT !.el.first = TRUE]
           s == reset(a)
           t == PluginGoes(s)
<1>1. el \in AnyElement /\ lastId \in Nat /\ ~el.ignore /\ el.ignore = FALSE
  BY ElementIsAny DEF AnyElement
<1>2. /\ Turn \in Turns /\ Turn.el = el /\ Turn.msgs = <<>> /\ Turn.recs = <<>>
      /\ Turn.made = FALSE
  BY <1>1, TurnFields
<1>3. /\ a \in Turns /\ a.msgs = <<>> /\ a.recs = <<>> /\ a.made = FALSE
      /\ a.el.attached = FALSE /\ a.el.guest = el.guest /\ a.el.first = el.first
      /\ a.el.dying = el.dying /\ a.el.bound = el.bound /\ a.el.held = el.held
      /\ a.el.ignore = FALSE
  BY <1>1, <1>2 DEF Turns, AnyElement
<1> HIDE DEF a
<1>4. NoUrl \in Args /\ "Destroy" \in Kinds /\ Fits(Message("Destroy", a.el.guest, NoUrl))
  BY DEF Args, Addresses, Kinds, Fits, Message
<1>5. /\ n \in Turns /\ n.el = a.el /\ n.recs = a.recs /\ n.made = a.made
      /\ n.msgs = IF a.el.guest = 0 THEN a.msgs
                  ELSE Append(a.msgs, Message("Destroy", a.el.guest, NoUrl))
  BY <1>3, <1>4, NativeFields
<1> HIDE DEF n
<1>6. /\ z \in Turns /\ z.msgs = n.msgs /\ z.recs = <<>> /\ z.made = FALSE
      /\ z.el.attached = FALSE /\ z.el.guest = 0 /\ z.el.first = el.first
      /\ z.el.dying = el.dying /\ z.el.bound = el.bound /\ z.el.held = el.held
      /\ z.el.ignore = FALSE
<2>1. /\ n.el.attached = FALSE /\ n.el.first = el.first
      /\ n.el.dying = el.dying /\ n.el.bound = el.bound /\ n.el.held = el.held
      /\ n.el.ignore = FALSE /\ n.recs = <<>> /\ n.made = FALSE
  BY <1>3, <1>5
<2>2. QED
  BY <1>5, <2>1 DEF Turns, AnyElement
<1> HIDE DEF z
<1>7. /\ r \in Turns /\ r.msgs = n.msgs /\ r.recs = <<>> /\ r.made = FALSE
      /\ r.el.attached = FALSE /\ r.el.guest = 0 /\ r.el.first = TRUE
      /\ r.el.dying = el.dying /\ r.el.bound = el.bound /\ r.el.held = el.held
      /\ r.el.ignore = FALSE
  BY <1>6 DEF Turns, AnyElement
<1>8. s = IF a.el.guest = 0 THEN a ELSE r
  BY DEF reset, r, z, n
<1> HIDE DEF r, s
<1>9. /\ s \in Turns /\ s.recs = <<>> /\ s.made = FALSE
      /\ s.el.attached = FALSE /\ s.el.guest = 0
      /\ s.el.dying = el.dying /\ s.el.bound = el.bound /\ s.el.held = el.held
      /\ s.el.ignore = FALSE
      /\ IF el.guest = 0 THEN s.msgs = <<>> /\ s.el.first = el.first
         ELSE s.msgs = <<Message("Destroy", el.guest, NoUrl)>> /\ s.el.first = TRUE
<2>1. CASE el.guest = 0
  BY <1>3, <1>8, <2>1
<2>2. CASE el.guest # 0
<3>1. s = r /\ n.msgs = <<Message("Destroy", el.guest, NoUrl)>>
  BY <1>3, <1>5, <1>8, <2>2
<3>2. QED
  BY <1>7, <2>2, <3>1
<2>3. QED
  BY <2>1, <2>2
<1>10. /\ t \in Turns /\ t.recs = s.recs /\ t.msgs = s.msgs /\ t.made = s.made
       /\ t.el.dying = el.dying \union ({el.bound} \ {0})
       /\ t.el.bound = 0 /\ t.el.plugin = FALSE
       /\ t.el.attached = s.el.attached /\ t.el.guest = s.el.guest
       /\ t.el.first = s.el.first /\ t.el.held = s.el.held
       /\ t.el.ignore = s.el.ignore
  BY <1>9, PluginGoesFields
<1> HIDE DEF t
<1>11. src_observer(detachedCallback(Turn)) = t
  BY <1>9, <1>10, NothingObserved DEF detachedCallback, t, s, a
<1>12. LeavesDocument(t) /\ Sound(t)
  BY <1>9, <1>10 DEF LeavesDocument, LosesPlugin, Sound
<1>13. QED
  BY <1>11, <1>12

\* it loses its box;
LEMMA HideTurn ==
  ASSUME TypeInv
  PROVE  LET t == src_observer(PluginGoes([Turn EXCEPT !.el.hidden = TRUE]))
         IN  Sound(t) /\ Disappears(t)
<1> DEFINE a == [Turn EXCEPT !.el.hidden = TRUE]
           t == PluginGoes(a)
<1>1. el \in AnyElement /\ lastId \in Nat /\ ~el.ignore /\ el.ignore = FALSE
  BY ElementIsAny DEF AnyElement
<1>2. /\ Turn \in Turns /\ Turn.el = el /\ Turn.msgs = <<>> /\ Turn.recs = <<>>
      /\ Turn.made = FALSE
  BY <1>1, TurnFields
<1>3. /\ a \in Turns /\ a.msgs = <<>> /\ a.recs = <<>> /\ a.made = FALSE
      /\ a.el.attached = el.attached /\ a.el.guest = el.guest /\ a.el.first = el.first
      /\ a.el.dying = el.dying /\ a.el.bound = el.bound /\ a.el.held = el.held
      /\ a.el.ignore = FALSE
  BY <1>1, <1>2 DEF Turns, AnyElement
<1> HIDE DEF a
<1>4. /\ t \in Turns /\ t.recs = a.recs /\ t.msgs = a.msgs /\ t.made = a.made
       /\ t.el.dying = el.dying \union ({el.bound} \ {0})
       /\ t.el.bound = 0 /\ t.el.plugin = FALSE
       /\ t.el.attached = a.el.attached /\ t.el.guest = a.el.guest
       /\ t.el.first = a.el.first /\ t.el.held = a.el.held
       /\ t.el.ignore = a.el.ignore
  BY <1>3, PluginGoesFields
<1> HIDE DEF t
<1>5. src_observer(t) = t
  BY <1>3, <1>4, NothingObserved
<1>6. Disappears(t) /\ Sound(t)
  BY <1>3, <1>4 DEF Disappears, LosesPlugin, Sound
<1>7. QED
  BY <1>5, <1>6 DEF t, a

\* A request to the guest of the element, in the form the natives send it.
LEMMA NativeTurn ==
  ASSUME TypeInv, NEW kind \in Requests \ {"DialogClosed"}, NEW arg \in Args,
         NEW t \in Turns, Stays(t.el), t.el.held = el.held, t.made = FALSE,
         t.recs = <<>>, t.el.ignore = FALSE, ToItsGuest(t.msgs), NoAnswers(t.msgs),
         el.guest # 0 => Fits(Message(kind, el.guest, arg))
  PROVE  LET u == Native(t, kind, arg)
         IN  Sound(u) /\ Says(u) /\ u.el = t.el
<1> DEFINE u == Native(t, kind, arg)
           m == Message(kind, el.guest, arg)
<1>1. t.el.guest = el.guest /\ kind \in Kinds /\ el.guest \in Nat
  BY ElementIsAny DEF Stays, Requests, AnyElement
<1>2. /\ u \in Turns /\ u.el = t.el /\ u.recs = t.recs /\ u.made = t.made
      /\ u.msgs = IF el.guest = 0 THEN t.msgs ELSE Append(t.msgs, m)
  BY <1>1, NativeFields
<1> HIDE DEF u
<1>3. t.msgs \in Seq(UpSet)
  BY DEF Turns
<1>4. ToItsGuest(u.msgs) /\ NoAnswers(u.msgs)
<2>1. CASE el.guest = 0
  BY <1>2, <2>1
<2>2. CASE el.guest # 0
<3>1. m \in UpSet /\ m.guest = el.guest /\ m.kind = kind
  BY <1>1, <2>2, MessageFields
<3> HIDE DEF m
<3>2. u.msgs = Append(t.msgs, m)
  BY <1>2, <2>2
<3>3. Len(u.msgs) = Len(t.msgs) + 1
      /\ (\A i \in 1..Len(t.msgs) : u.msgs[i] = t.msgs[i])
      /\ u.msgs[Len(t.msgs) + 1] = m /\ Len(t.msgs) \in Nat
  BY <1>3, <3>2
<3>4. kind \in Requests /\ kind # "DialogClosed"
  OBVIOUS
<3>5. ASSUME NEW i \in 1..Len(u.msgs)
      PROVE  /\ u.msgs[i].guest = el.guest /\ u.msgs[i].kind \in Requests
             /\ u.msgs[i].kind # "DialogClosed"
<4>1. CASE i \in 1..Len(t.msgs)
  BY <3>3, <4>1 DEF ToItsGuest, NoAnswers
<4>2. CASE i = Len(t.msgs) + 1
  BY <3>1, <3>3, <3>4, <4>2
<4>3. QED
  BY <3>3, <4>1, <4>2
<3>6. QED
  BY <2>2, <3>5 DEF ToItsGuest, NoAnswers
<2>3. QED
  BY <2>1, <2>2
<1>5. QED
  BY <1>2, <1>4 DEF Sound, Says, Stays, u

\* The bare turn.
LEMMA BareTurn ==
  ASSUME TypeInv
  PROVE  /\ Turn \in Turns /\ Turn.el = el /\ Turn.msgs = <<>> /\ Turn.recs = <<>>
         /\ Turn.made = FALSE /\ el \in AnyElement /\ el.ignore = FALSE
         /\ lastId \in Nat
         /\ Stays(Turn.el) /\ Turn.el.held = el.held
         /\ ToItsGuest(Turn.msgs) /\ NoAnswers(Turn.msgs)
<1>1. el \in AnyElement /\ lastId \in Nat /\ ~el.ignore /\ el.ignore = FALSE
  BY ElementIsAny DEF AnyElement
<1>2. /\ Turn \in Turns /\ Turn.el = el /\ Turn.msgs = <<>> /\ Turn.recs = <<>>
      /\ Turn.made = FALSE
  BY <1>1, TurnFields
<1>3. ToItsGuest(<<>>) /\ NoAnswers(<<>>)
  BY DEF ToItsGuest, NoAnswers
<1>4. QED
  BY <1>1, <1>2, <1>3 DEF Stays

\* the page calls a method;
LEMMA CallTurns ==
  ASSUME TypeInv, NEW kind \in {"Reload", "Stop", "Find", "Go", "SetZoom"},
         NEW arg \in Args, Fits(Message(kind, el.guest, arg))
  PROVE  LET t == src_observer(Native(Turn, kind, arg))
         IN  Sound(t) /\ Says(t)
<1> DEFINE u == Native(Turn, kind, arg)
<1>1. kind \in Requests \ {"DialogClosed"}
  BY DEF Requests, Kinds
<1>2. Sound(u) /\ Says(u)
  BY <1>1, BareTurn, NativeTurn
<1> HIDE DEF u
<1>3. src_observer(u) = u
  BY <1>2, NothingObserved DEF Sound
<1>4. QED
  BY <1>2, <1>3 DEF u

\* A change of a field that neither attachment nor dialogs know of.
LEMMA IdleTurn ==
  ASSUME TypeInv, NEW t \in Turns, t.recs = <<>>, t.msgs = <<>>, t.made = FALSE,
         Stays(t.el), t.el.held = el.held, t.el.ignore = FALSE
  PROVE  LET u == src_observer(t) IN Sound(u) /\ Says(u) /\ u.msgs = <<>>
<1>1. src_observer(t) = t
  BY NothingObserved
<1>2. ToItsGuest(<<>>) /\ NoAnswers(<<>>)
  BY DEF ToItsGuest, NoAnswers
<1>3. Sound(t) /\ Says(t)
  BY <1>2 DEF Sound, Says
<1>4. QED
  BY <1>1, <1>3

\* it shows the element again;
LEMMA ShowTurn ==
  ASSUME TypeInv
  PROVE  LET t == src_observer([Turn EXCEPT !.el.hidden = FALSE])
         IN  Sound(t) /\ Says(t) /\ t.msgs = <<>>
<1> DEFINE a == [Turn EXCEPT !.el.hidden = FALSE]
<1>1. /\ a \in Turns /\ a.msgs = <<>> /\ a.recs = <<>> /\ a.made = FALSE
      /\ Stays(a.el) /\ a.el.held = el.held /\ a.el.ignore = FALSE
  BY BareTurn DEF Turns, AnyElement, Stays
<1> HIDE DEF a
<1>2. QED
  BY <1>1, IdleTurn DEF a

\* The turns that handle events: another factor,
LEMMA ZoomTurn ==
  ASSUME TypeInv, NEW z \in Zooms
  PROVE  LET t == src_observer([Turn EXCEPT !.el.zoom = z])
         IN  Sound(t) /\ Says(t)
<1> DEFINE a == [Turn EXCEPT !.el.zoom = z]
<1>1. /\ a \in Turns /\ a.msgs = <<>> /\ a.recs = <<>> /\ a.made = FALSE
      /\ Stays(a.el) /\ a.el.held = el.held /\ a.el.ignore = FALSE
  BY BareTurn DEF Turns, AnyElement, Stays
<1> HIDE DEF a
<1>2. QED
  BY <1>1, IdleTurn DEF a

\* a navigation that committed, which nothing goes out for,
LEMMA CommitTurn ==
  ASSUME TypeInv, NEW m \in DownSet, m.kind = "did-commit"
  PROVE  LET t == src_observer(did_commit(Turn, m.arg))
         IN  Sound(t) /\ Says(t) /\ t.msgs = <<>>
<1> DEFINE t == src_observer(did_commit(Turn, m.arg))
<1>1. el \in AnyElement /\ lastId \in Nat /\ ~el.ignore
  BY ElementIsAny
<1>2. /\ t \in Turns /\ t.recs = <<>> /\ t.msgs = <<>> /\ t.made = FALSE
      /\ t.el.attached = el.attached /\ t.el.plugin = el.plugin
      /\ t.el.guest = el.guest /\ t.el.first = el.first
      /\ t.el.bound = el.bound /\ t.el.dying = el.dying
      /\ t.el.held = el.held /\ t.el.ignore = FALSE
  BY <1>1, CommitFields
<1> HIDE DEF t
<1>3. ToItsGuest(<<>>) /\ NoAnswers(<<>>)
  BY DEF ToItsGuest, NoAnswers
<1>4. QED
  BY <1>2, <1>3 DEF Sound, Says, Stays, t

\* and the attachment of the guest, which navigates to the address it has
\* waited with.
LEMMA DidAttachTurn ==
  ASSUME TypeInv, NEW src \in Addresses
  PROVE  LET t == src_observer(did_attach(Turn, src))
         IN  Sound(t) /\ Says(t)
<1> DEFINE sized == Native(Turn, "SetAutoSize", NoUrl)
           t == did_attach(Turn, src)
<1>1. /\ "SetAutoSize" \in Requests \ {"DialogClosed"} /\ NoUrl \in Args
      /\ "LoadUrl" \in Requests \ {"DialogClosed"} /\ src \in Args
      /\ Fits(Message("SetAutoSize", el.guest, NoUrl))
  BY DEF Requests, Kinds, Args, Addresses, Fits, Message
<1>2. Sound(sized) /\ Says(sized)
  BY <1>1, BareTurn, NativeTurn
<1> HIDE DEF sized
<1>3. t = IF src = NoUrl THEN sized ELSE Native(sized, "LoadUrl", src)
  BY DEF did_attach, api_setAutoSize, api_loadUrl, sized
<1>4. src # NoUrl => Fits(Message("LoadUrl", el.guest, src))
  BY DEF Addresses, Fits, Message
<1>5. Sound(t) /\ Says(t)
<2>1. CASE src = NoUrl
  BY <1>2, <1>3, <2>1
<2>2. CASE src # NoUrl
<3>1. LET u == Native(sized, "LoadUrl", src) IN Sound(u) /\ Says(u)
  BY <1>1, <1>2, <1>4, <2>2, NativeTurn DEF Sound, Says
<3>2. QED
  BY <1>3, <2>2, <3>1
<2>3. QED
  BY <2>1, <2>2
<1> HIDE DEF t
<1>6. src_observer(t) = t
  BY <1>5, NothingObserved DEF Sound
<1>7. QED
  BY <1>5, <1>6 DEF t

\* An answer to a dialog is one message, or none without a guest.
LEMMA TellsFields ==
  ASSUME TypeInv, NEW d \in Dialogs, NEW t \in Turns, t.el.guest = el.guest,
         t.msgs = <<>>
  PROVE  LET u == Native(t, "DialogClosed", d)
         IN  u \in Turns /\ u.el = t.el /\ u.recs = t.recs /\ u.made = t.made
             /\ Tells(u, d)
<1> DEFINE u == Native(t, "DialogClosed", d)
<1>1. /\ d \in Args /\ "DialogClosed" \in Kinds /\ el.guest \in Nat
      /\ Fits(Message("DialogClosed", el.guest, d))
  BY ElementIsAny, WebViewAssumption
     DEF Args, Kinds, Fits, Message, Dialogs, AnyElement
<1>2. /\ u \in Turns /\ u.el = t.el /\ u.recs = t.recs /\ u.made = t.made
      /\ u.msgs = IF t.el.guest = 0 THEN t.msgs
                  ELSE Append(t.msgs, Message("DialogClosed", t.el.guest, d))
  BY <1>1, NativeFields
<1> HIDE DEF u
<1>3. Tells(u, d)
  BY <1>2 DEF Tells
<1>4. QED
  BY <1>2, <1>3 DEF u

\* The page answers a dialog it held,
LEMMA AnswerTurn ==
  ASSUME TypeInv, NEW d \in el.held
  PROVE  LET t == src_observer(
                    Native([Turn EXCEPT !.el.held = @ \ {d}], "DialogClosed", d))
         IN  Sound(t) /\ AnswersOne(t)
<1> DEFINE h == el.held \ {d}
           a == [Turn EXCEPT !.el.held = h]
           t == Native(a, "DialogClosed", d)
<1>1. [Turn EXCEPT !.el.held = @ \ {d}] = a
  BY BareTurn
<1>2. d \in Dialogs /\ h \in SUBSET Dialogs
  BY BareTurn DEF AnyElement
<1> HIDE DEF h
<1>3. /\ a \in Turns /\ a.msgs = <<>> /\ a.recs = <<>> /\ a.made = FALSE
      /\ Stays(a.el) /\ a.el.held = h /\ a.el.ignore = FALSE
  BY <1>2, BareTurn DEF Turns, AnyElement, Stays
<1> HIDE DEF a
<1>4. t \in Turns /\ t.el = a.el /\ t.recs = a.recs /\ t.made = a.made /\ Tells(t, d)
  BY <1>2, <1>3, TellsFields DEF Stays
<1> HIDE DEF t
<1>5. src_observer(t) = t
  BY <1>3, <1>4, NothingObserved
<1>6. Sound(t) /\ AnswersOne(t)
  BY <1>3, <1>4 DEF Sound, AnswersOne, Stays, h
<1>7. QED
  BY <1>1, <1>5, <1>6 DEF t

\* or hears of one: it holds it, or it is answered at once.
LEMMA DialogTurn ==
  ASSUME TypeInv, down # <<>>, Head(down).kind = "dialog", NEW kept \in BOOLEAN,
         Head(down).arg \in Dialogs
  PROVE  LET t == src_observer(dialog(Turn, Head(down).arg, kept))
         IN  Sound(t) /\ HearsDialog(t)
<1> DEFINE d == Head(down).arg
           t == dialog(Turn, d, kept)
<1>1. CASE kept
<2> DEFINE h == el.held \union {d}
           a == [Turn EXCEPT !.el.held = h]
<2>1. t = a
  BY <1>1, BareTurn DEF dialog
<2>2. h \in SUBSET Dialogs
  BY BareTurn DEF AnyElement
<2> HIDE DEF h
<2>3. /\ a \in Turns /\ a.msgs = <<>> /\ a.recs = <<>> /\ a.made = FALSE
      /\ Stays(a.el) /\ a.el.held = h /\ a.el.ignore = FALSE
  BY <2>2, BareTurn DEF Turns, AnyElement, Stays
<2> HIDE DEF a
<2>4. src_observer(a) = a
  BY <2>3, NothingObserved
<2>5. Sound(a) /\ HearsDialog(a)
  BY <2>3 DEF Sound, HearsDialog, Stays, h
<2>6. QED
  BY <2>1, <2>4, <2>5
<1>2. CASE ~kept
<2>1. t = Native(Turn, "DialogClosed", d)
  BY <1>2 DEF dialog
<2> HIDE DEF t, d
<2>2. t \in Turns /\ t.el = el /\ t.recs = <<>> /\ t.made = FALSE /\ Tells(t, d)
<3>1. d \in Dialogs
  BY DEF d
<3>2. QED
  BY <2>1, <3>1, BareTurn, TellsFields
<2>3. src_observer(t) = t
  BY <2>2, NothingObserved
<2>4. Sound(t) /\ HearsDialog(t)
  BY <2>2, BareTurn DEF Sound, HearsDialog, Stays, d
<2>5. QED
  BY <2>3, <2>4 DEF t, d
<1>3. QED
  BY <1>1, <1>2

\* The events of a guest.
LEMMA EventTurns ==
  ASSUME TypeInv, down # <<>>, NEW kept \in BOOLEAN
  PROVE  LET t == src_observer(event_handler(Turn, Head(down), kept))
         IN  /\ Sound(t)
             /\ Says(t) \/ HearsDialog(t)
             /\ Head(down).kind = "did-commit" => t.msgs = <<>>
<1> DEFINE m == Head(down)
<1>1. m \in DownSet /\ m.kind \in Events /\ FitsEvent(m)
<2>1. m \in DownSet
  BY HeadFits DEF TypeInv
<2>2. QED
  BY <2>1 DEF DownSet
<1> HIDE DEF m
<1>2. CASE m.kind = "did-attach"
<2>1. event_handler(Turn, m, kept) = did_attach(Turn, m.arg)
  BY <1>2 DEF event_handler
<2>2. m.arg \in Addresses
  BY <1>1, <1>2 DEF FitsEvent
<2>3. QED
  BY <1>2, <2>1, <2>2, DidAttachTurn DEF m
<1>3. CASE m.kind = "did-commit"
<2>1. event_handler(Turn, m, kept) = did_commit(Turn, m.arg)
  BY <1>3 DEF event_handler
<2>2. QED
  BY <1>1, <1>3, <2>1, CommitTurn DEF m
<1>4. CASE m.kind = "zoom-changed"
<2>1. event_handler(Turn, m, kept) = [Turn EXCEPT !.el.zoom = m.arg]
  BY <1>4 DEF event_handler
<2>2. m.arg \in Zooms
  BY <1>1, <1>4 DEF FitsEvent
<2>3. QED
  BY <1>4, <2>1, <2>2, ZoomTurn DEF m
<1>5. CASE m.kind = "dialog"
<2>1. event_handler(Turn, m, kept) = dialog(Turn, m.arg, kept)
  BY <1>5 DEF event_handler
<2>2. m.arg \in Dialogs
  BY <1>1, <1>5 DEF FitsEvent
<2>3. QED
  BY <1>5, <2>1, <2>2, DialogTurn DEF m
<1>6. CASE m.kind = "destroyed"
<2>1. event_handler(Turn, m, kept) = Turn
  BY <1>6 DEF event_handler
<2>2. Sound(src_observer(Turn)) /\ Says(src_observer(Turn))
  BY BareTurn, IdleTurn
<2>3. QED
  BY <1>6, <2>1, <2>2 DEF m
<1>7. QED
  BY <1>1, <1>2, <1>3, <1>4, <1>5, <1>6 DEF Events

\* The turns of the embedded plugin: it is loaded,
LEMMA PluginTurn ==
  ASSUME TypeInv, el.attached
  PROVE  LET t == src_observer([Turn EXCEPT !.el.plugin = TRUE, !.el.timer = TRUE])
         IN  Sound(t) /\ GetsPlugin(t)
<1> DEFINE a == [Turn EXCEPT !.el.plugin = TRUE]
           b == [a EXCEPT !.el.timer = TRUE]
<1>1. /\ a \in Turns /\ a.msgs = <<>> /\ a.recs = <<>> /\ a.made = FALSE
      /\ a.el.attached = el.attached /\ a.el.plugin = TRUE
      /\ a.el.bound = el.bound /\ a.el.dying = el.dying /\ a.el.guest = el.guest
      /\ a.el.first = el.first /\ a.el.held = el.held /\ a.el.ignore = FALSE
  BY BareTurn DEF Turns, AnyElement
<1> HIDE DEF a
<1>2. /\ b \in Turns /\ b.msgs = <<>> /\ b.recs = <<>> /\ b.made = FALSE
      /\ b.el.attached = el.attached /\ b.el.plugin = TRUE
      /\ b.el.bound = el.bound /\ b.el.dying = el.dying /\ b.el.guest = el.guest
      /\ b.el.first = el.first /\ b.el.held = el.held /\ b.el.ignore = FALSE
  BY <1>1 DEF Turns, AnyElement
<1>3. b = [Turn EXCEPT !.el.plugin = TRUE, !.el.timer = TRUE]
  BY DEF a
<1> HIDE DEF b
<1>4. src_observer(b) = b
  BY <1>2, NothingObserved
<1>5. Sound(b) /\ GetsPlugin(b)
  BY <1>2 DEF Sound, GetsPlugin
<1>6. QED
  BY <1>3, <1>4, <1>5

\* the timer it set hands the guest to it,
LEMMA TimerTurn ==
  ASSUME TypeInv
  PROVE  LET t == src_observer(internalbindings([Turn EXCEPT !.el.timer = FALSE]))
         IN  Sound(t) /\ ((Says(t) /\ t.msgs = <<>>) \/ BindsGuest(t))
<1> DEFINE a == [Turn EXCEPT !.el.timer = FALSE]
           t == internalbindings(a)
<1>1. /\ a \in Turns /\ a.msgs = <<>> /\ a.recs = <<>> /\ a.made = FALSE
      /\ a.el.attached = el.attached /\ a.el.plugin = el.plugin
      /\ a.el.bound = el.bound /\ a.el.dying = el.dying /\ a.el.guest = el.guest
      /\ a.el.first = el.first /\ a.el.held = el.held /\ a.el.ignore = FALSE
      /\ a.el.src = el.src
  BY BareTurn DEF Turns, AnyElement
<1> HIDE DEF a
<1>2. t = IF el.plugin /\ el.guest # 0 THEN PluginAttach(a, el.guest) ELSE a
  BY <1>1 DEF internalbindings, is_plugin_in_render_tree
<1>3. CASE ~(el.plugin /\ el.guest # 0) \/ el.bound = el.guest
<2>1. t = a
  BY <1>1, <1>2, <1>3 DEF PluginAttach
<2>2. LET u == src_observer(a) IN Sound(u) /\ Says(u) /\ u.msgs = <<>>
  BY <1>1, IdleTurn DEF Stays
<2>3. QED
  BY <2>1, <2>2 DEF a
<1>4. CASE el.plugin /\ el.guest # 0 /\ el.bound # el.guest
<2> DEFINE y == el.dying \union ({el.bound} \ {0})
           e == [a.el EXCEPT !.dying = @ \union ({a.el.bound} \ {0}), !.bound = el.guest]
<2>1. el.guest \in Nat
  BY BareTurn DEF AnyElement
<2>2. /\ t \in Turns /\ t.recs = <<>> /\ t.made = FALSE
      /\ t.msgs = Append(<<>>, Message("Attach", el.guest, el.src)) /\ t.el = e
<3>1. t = PluginAttach(a, el.guest)
  BY <1>2, <1>4
<3> HIDE DEF t
<3>2. LET u == PluginAttach(a, el.guest) IN
         /\ u \in Turns /\ u.recs = a.recs /\ u.made = a.made
         /\ IF a.el.bound = el.guest THEN u = a
            ELSE /\ u.msgs = Append(a.msgs, Message("Attach", el.guest, a.el.src))
                 /\ u.el = e
  BY <1>1, <2>1, PluginAttachFields
<3> HIDE DEF e
<3>3. QED
  BY <1>1, <1>4, <3>1, <3>2
<2>3. y \in SUBSET Nat
  BY DyingFits
<2>4. e = [[a.el EXCEPT !.dying = y] EXCEPT !.bound = el.guest]
  BY <1>1
<2> HIDE DEF y, e, t
<2> DEFINE d == [a.el EXCEPT !.dying = y]
<2>5. /\ d \in AnyElement /\ d.attached = el.attached /\ d.plugin = el.plugin
      /\ d.dying = y /\ d.guest = el.guest
      /\ d.first = el.first /\ d.held = el.held /\ d.ignore = FALSE
<3>1. a.el \in AnyElement
  BY <1>1 DEF Turns
<3>2. QED
  BY <1>1, <2>3, <3>1 DEF AnyElement
<2> HIDE DEF d
<2>6. /\ e.attached = el.attached /\ e.plugin = el.plugin
      /\ e.dying = y /\ e.guest = el.guest /\ e.bound = el.guest
      /\ e.first = el.first /\ e.held = el.held /\ e.ignore = FALSE
  BY <2>1, <2>4, <2>5 DEF AnyElement, d
<2>7. src_observer(t) = t
  BY <2>2, NothingObserved
<2>8. t.msgs = <<Message("Attach", el.guest, el.src)>>
  BY <2>2
<2>9. Sound(t) /\ BindsGuest(t)
  BY <1>4, <2>2, <2>6, <2>8 DEF Sound, BindsGuest, y
<2>10. QED
  BY <2>7, <2>9 DEF t, a
<1>5. QED
  BY <1>3, <1>4

\* and it is gone for good.
LEMMA BuryTurn ==
  ASSUME TypeInv, NEW g \in el.dying
  PROVE  LET t == src_observer(Send([Turn EXCEPT !.el.dying = @ \ {g}],
                                    "PluginDestroyed", g, NoUrl))
         IN  Sound(t) /\ BuriesOne(t)
<1> DEFINE y == el.dying \ {g}
           a == [Turn EXCEPT !.el.dying = y]
           t == Send(a, "PluginDestroyed", g, NoUrl)
<1>1. [Turn EXCEPT !.el.dying = @ \ {g}] = a
  BY BareTurn
<1>2. y \in SUBSET Nat /\ g \in Nat
  BY BareTurn DEF AnyElement
<1> HIDE DEF y
<1>3. /\ a \in Turns /\ a.msgs = <<>> /\ a.recs = <<>> /\ a.made = FALSE
      /\ a.el.attached = el.attached /\ a.el.plugin = el.plugin
      /\ a.el.bound = el.bound /\ a.el.dying = y /\ a.el.guest = el.guest
      /\ a.el.first = el.first /\ a.el.held = el.held /\ a.el.ignore = FALSE
  BY <1>2, BareTurn DEF Turns, AnyElement
<1> HIDE DEF a
<1>4. /\ NoUrl \in Args /\ "PluginDestroyed" \in Kinds
      /\ Fits(Message("PluginDestroyed", g, NoUrl))
  BY DEF Args, Addresses, Kinds, Fits, Message
<1>5. /\ t \in Turns /\ t.el = a.el /\ t.recs = a.recs /\ t.made = a.made
      /\ t.msgs = Append(a.msgs, Message("PluginDestroyed", g, NoUrl))
  BY <1>2, <1>3, <1>4, SendFields
<1> HIDE DEF t
<1>6. src_observer(t) = t
  BY <1>3, <1>5, NothingObserved
<1>7. t.msgs = <<Message("PluginDestroyed", g, NoUrl)>>
  BY <1>3, <1>5
<1>8. Sound(t) /\ BuriesOne(t)
  BY <1>3, <1>5, <1>7 DEF Sound, BuriesOne, y
<1>9. QED
  BY <1>1, <1>6, <1>8 DEF t

-----------------------------------------------------------------------------
(* Scripts that write src more than once. *)

\* Parsing src time and again asks a guest of the element for addresses of A,
\* or makes the element a guest, once.
Navigates(msgs, A) ==
  \A i \in 1..Len(msgs) :
    /\ el.guest # 0 /\ msgs[i].kind = "LoadUrl" /\ msgs[i].guest = el.guest
    /\ msgs[i].arg \in A

Founds(t) ==
  LET g == lastId + 1
  IN  /\ t.made = TRUE /\ el.guest = 0 /\ el.first /\ t.el.first = FALSE
      /\ t.el.attached = el.attached /\ t.el.plugin = el.plugin
      /\ t.el.held = el.held /\ t.el.bound \in {el.bound, g}
      /\ el.dying \subseteq t.el.dying
      /\ t.el.dying \subseteq el.dying \union ({el.bound} \ {0})
      /\ \/ /\ t.el.guest = g
            /\ \A i \in 1..Len(t.msgs) :
                 t.msgs[i].guest = g /\ t.msgs[i].kind \in {"Attach", "LoadUrl"}
         \/ t.el.guest = 0 /\ t.msgs = <<Message("Destroy", g, NoUrl)>>

Drawn(t, A) ==
  \/ /\ Stays(t.el) /\ t.el.held = el.held /\ t.made = FALSE
     /\ Navigates(t.msgs, A)
  \/ Founds(t)

\* What was sent last, to a guest of the element, asks for the address src has;
Lasts(t) ==
  Len(t.msgs) > 0 /\ t.msgs[Len(t.msgs)].arg = t.el.attr

\* or a record of the observer will see to it.
Owed(t) ==
  el.guest # 0 /\ t.el.attr # NoUrl
    => Lasts(t) \/ \E k \in 1..Len(t.recs) : t.recs[k] = t.el.attr

Writing(t, A) ==
  t \in Turns /\ t.el.ignore = FALSE /\ t.el.attr \in A /\ Drawn(t, A)

\* A list with one more.
LEMMA AppendedFields ==
  ASSUME NEW S, NEW s \in Seq(S), NEW x, NEW r, r = Append(s, x)
  PROVE  /\ Len(r) = Len(s) + 1 /\ Len(s) \in Nat /\ r[Len(r)] = x
         /\ \A i \in 1..Len(s) : i \in 1..Len(r) /\ r[i] = s[i]
         /\ \A i \in 1..Len(r) : (i \in 1..Len(s) /\ r[i] = s[i]) \/ r[i] = x
  OBVIOUS

\* Parsing src once more keeps to this,
LEMMA ParsedStaysDrawn ==
  ASSUME el \in AnyElement, lastId \in Nat, NEW t \in Turns, NEW A, Drawn(t, A),
         t.el.attr \in A, NEW u \in Turns, u.el = ParsedElement(t.el),
         u.msgs = ParsedMessages(t.el, t.msgs), u.made = (t.made \/ Creates(t.el))
  PROVE  /\ Drawn(u, A) /\ u.el.attr = t.el.attr /\ u.el.ignore = t.el.ignore
         /\ el.guest # 0 /\ u.el.attr # NoUrl => Lasts(u)
<1> DEFINE e == t.el
           p == u.el
           g == lastId + 1
           m == Message("LoadUrl", e.guest, e.attr)
           d == el.dying \union ({el.bound} \ {0})
<1>0. /\ e \in AnyElement /\ g \in Nat /\ g # 0 /\ el.guest \in Nat /\ t.made \in BOOLEAN
      /\ t.msgs \in Seq(UpSet) /\ e.attached \in BOOLEAN /\ e.plugin \in BOOLEAN
      /\ e.first \in BOOLEAN /\ el.first \in BOOLEAN
  BY SMTT(20) DEF Turns, AnyElement
<1>1. /\ p.attached = e.attached /\ p.plugin = e.plugin /\ p.held = e.held
      /\ p.attr = e.attr /\ p.ignore = e.ignore
      /\ ~Creates(e) => /\ p.guest = e.guest /\ p.first = e.first
                        /\ p.bound = e.bound /\ p.dying = e.dying
      /\ Creates(e) /\ ~e.attached => /\ p.guest = 0 /\ p.first = FALSE
                        /\ p.bound = e.bound /\ p.dying = e.dying
      /\ Creates(e) /\ e.attached /\ ~e.plugin =>
                        /\ p.guest = g /\ p.first = FALSE
                        /\ p.bound = e.bound /\ p.dying = e.dying
      /\ Creates(e) /\ e.attached /\ e.plugin =>
                        /\ p.guest = g /\ p.first = FALSE /\ p.bound = g
                        /\ e.dying \subseteq p.dying
                        /\ p.dying \subseteq e.dying \union ({e.bound} \ {0})
<2>1. LET q == ParsedElement(e)
      IN  /\ q.attached = e.attached /\ q.plugin = e.plugin /\ q.held = e.held
          /\ q.attr = e.attr /\ q.ignore = e.ignore
          /\ ~Creates(e) => /\ q.guest = e.guest /\ q.first = e.first
                            /\ q.bound = e.bound /\ q.dying = e.dying
          /\ Creates(e) /\ ~e.attached => /\ q.guest = 0 /\ q.first = FALSE
                            /\ q.bound = e.bound /\ q.dying = e.dying
          /\ Creates(e) /\ e.attached /\ ~e.plugin =>
                            /\ q.guest = g /\ q.first = FALSE
                            /\ q.bound = e.bound /\ q.dying = e.dying
          /\ Creates(e) /\ e.attached /\ e.plugin =>
                            /\ q.guest = g /\ q.first = FALSE /\ q.bound = g
                            /\ e.dying \subseteq q.dying
                            /\ q.dying \subseteq e.dying \union ({e.bound} \ {0})
  BY <1>0, ParsedKeeps
<2>2. p = ParsedElement(e)
  OBVIOUS
<2> HIDE DEF p, e, g
<2>3. QED
  BY <2>1, <2>2
<1>2. m.kind = "LoadUrl" /\ m.guest = e.guest /\ m.arg = e.attr
  BY DEF Message
<1>3. ~Creates(e) => u.msgs = IF e.attr # NoUrl /\ e.guest # 0
                              THEN Append(t.msgs, m) ELSE t.msgs
  BY DEF ParsedMessages
<1>4. u.made = (t.made \/ Creates(e)) /\ e.attr \in A
  OBVIOUS
<1>5. CASE Stays(e) /\ e.held = el.held /\ t.made = FALSE /\ Navigates(t.msgs, A)
           /\ ~Creates(e)
<2>1. Stays(p) /\ p.held = el.held /\ u.made = FALSE
  BY <1>0, <1>1, <1>4, <1>5 DEF Stays, Creates
<2>2. CASE e.attr # NoUrl /\ e.guest # 0
<3> HIDE DEF m
<3>1. u.msgs = Append(t.msgs, m)
  BY <1>3, <1>5, <2>2
<3>2. /\ Len(u.msgs) > 0 /\ u.msgs[Len(u.msgs)] = m
      /\ \A i \in 1..Len(u.msgs) :
           (i \in 1..Len(t.msgs) /\ u.msgs[i] = t.msgs[i]) \/ u.msgs[i] = m
<4>1. /\ Len(u.msgs) = Len(t.msgs) + 1 /\ Len(t.msgs) \in Nat
      /\ u.msgs[Len(u.msgs)] = m
      /\ \A i \in 1..Len(u.msgs) :
           (i \in 1..Len(t.msgs) /\ u.msgs[i] = t.msgs[i]) \/ u.msgs[i] = m
  BY <1>0, <3>1, AppendedFields
<4>2. QED
  BY <4>1
<3>3. Navigates(u.msgs, A)
  BY <1>2, <1>4, <1>5, <2>2, <3>2 DEF Navigates, Stays
<3>4. Lasts(u)
  BY <1>1, <1>2, <3>2 DEF Lasts
<3>5. QED
  BY <1>1, <2>1, <3>3, <3>4 DEF Drawn
<2>3. CASE ~(e.attr # NoUrl /\ e.guest # 0)
<3>1. u.msgs = t.msgs /\ (el.guest = 0 \/ p.attr = NoUrl)
  BY <1>1, <1>3, <1>5, <2>3 DEF Stays
<3>2. QED
  BY <1>1, <1>5, <2>1, <3>1 DEF Drawn
<2>4. QED
  BY <2>2, <2>3
<1>6. CASE Stays(e) /\ e.held = el.held /\ t.made = FALSE /\ Navigates(t.msgs, A)
           /\ Creates(e)
<2>1. /\ el.guest = 0 /\ el.first /\ u.made = TRUE /\ t.msgs = <<>>
<3>1. el.guest = 0 /\ el.first
  BY <1>6 DEF Creates, Stays
<3>2. Len(t.msgs) = 0
  BY <1>0, <1>6, <3>1 DEF Navigates
<3>3. t.msgs = <<>>
  BY <1>0, <3>2
<3>4. u.made = TRUE
  BY <1>6, Zenon
<3>5. QED
  BY <3>1, <3>3, <3>4
<2>2. u.msgs = IF ~e.attached THEN Append(t.msgs, Message("Destroy", g, NoUrl))
               ELSE IF e.plugin /\ e.bound # g
               THEN Append(t.msgs, Message("Attach", g, e.attr)) ELSE t.msgs
  BY <1>6 DEF ParsedMessages
<2>3. /\ p.attached = el.attached /\ p.plugin = el.plugin /\ p.held = el.held
      /\ p.first = FALSE /\ p.bound \in {el.bound, g}
      /\ el.dying \subseteq p.dying /\ p.dying \subseteq d
  BY <1>0, <1>1, <1>6 DEF Stays
<2>4. CASE ~e.attached
<3>1. Append(<<>>, Message("Destroy", g, NoUrl)) = <<Message("Destroy", g, NoUrl)>>
  OBVIOUS
<3>2. u.msgs = <<Message("Destroy", g, NoUrl)>>
  BY <2>1, <2>2, <2>4, <3>1
<3>3. p.guest = 0
  BY <1>1, <1>6, <2>4
<3>4. QED
  BY <1>1, <2>1, <2>3, <3>2, <3>3 DEF Drawn, Founds
<2>5. CASE e.attached
<3> DEFINE n == Message("Attach", g, e.attr)
<3>1. n.guest = g /\ n.kind = "Attach"
  BY DEF Message
<3>2. u.msgs = <<>> \/ u.msgs = <<n>>
<4> HIDE DEF n
<4>1. Append(<<>>, n) = <<n>>
  OBVIOUS
<4>2. u.msgs = Append(<<>>, n) \/ u.msgs = <<>>
  BY <2>1, <2>2, <2>5 DEF n
<4>3. QED
  BY <4>1, <4>2
<3> HIDE DEF n
<3>3. \A i \in 1..Len(u.msgs) : u.msgs[i] = n
  BY <3>2
<3>4. p.guest = g
  BY <1>0, <1>1, <1>6, <2>5
<3>5. \A i \in 1..Len(u.msgs) :
        u.msgs[i].guest = g /\ u.msgs[i].kind \in {"Attach", "LoadUrl"}
  BY <3>1, <3>3
<3>6. QED
  BY <1>1, <2>1, <2>3, <3>4, <3>5 DEF Drawn, Founds
<2>6. QED
  BY <2>4, <2>5
<1>7. CASE Founds(t)
<2>1. /\ ~Creates(e) /\ u.made = TRUE /\ el.guest = 0 /\ el.first
  BY <1>4, <1>7 DEF Founds, Creates
<2>2. /\ p.attached = el.attached /\ p.plugin = el.plugin /\ p.held = el.held
      /\ p.first = FALSE /\ p.bound \in {el.bound, g} /\ p.guest = e.guest
      /\ el.dying \subseteq p.dying /\ p.dying \subseteq d
  BY <1>1, <1>7, <2>1 DEF Founds
<2>3. CASE /\ e.guest = g
           /\ \A i \in 1..Len(t.msgs) :
                t.msgs[i].guest = g /\ t.msgs[i].kind \in {"Attach", "LoadUrl"}
<3>1. u.msgs = Append(t.msgs, m) \/ u.msgs = t.msgs
  BY <1>3, <2>1
<3> HIDE DEF m
<3>2. \A i \in 1..Len(u.msgs) :
        (i \in 1..Len(t.msgs) /\ u.msgs[i] = t.msgs[i]) \/ u.msgs[i] = m
  BY <1>0, <3>1, AppendedFields
<3>3. \A i \in 1..Len(u.msgs) :
        u.msgs[i].guest = g /\ u.msgs[i].kind \in {"Attach", "LoadUrl"}
  BY <1>2, <2>3, <3>2
<3>4. QED
  BY <1>1, <2>1, <2>2, <2>3, <3>3 DEF Drawn, Founds
<2>4. CASE e.guest = 0 /\ t.msgs = <<Message("Destroy", g, NoUrl)>>
<3>1. u.msgs = <<Message("Destroy", g, NoUrl)>>
  BY <1>3, <2>1, <2>4
<3>2. QED
  BY <1>1, <2>1, <2>2, <2>4, <3>1 DEF Drawn, Founds
<2>5. QED
  BY <1>7, <2>3, <2>4 DEF Founds
<1>8. QED
  BY <1>5, <1>6, <1>7 DEF Drawn

\* so does one write,
LEMMA AssignStaysDrawn ==
  ASSUME el \in AnyElement, lastId \in Nat, NEW A, NEW t, Writing(t, A),
         NEW v \in Addresses, v \in A, Owed(t) \/ t.recs = <<>>
  PROVE  LET u == Assign(t, v) IN Writing(u, A) /\ Owed(u)
<1> DEFINE old == t.el.attr
           u == Assign(t, v)
           w == Written(t, v)
<1>0. /\ t \in Turns /\ t.el.ignore = FALSE /\ old \in A /\ Drawn(t, A)
      /\ t.el \in AnyElement /\ old \in Addresses /\ t.recs \in Seq(Addresses)
  BY DEF Writing, Turns, AnyElement
<1>1. CASE v = NoUrl /\ old = NoUrl
  BY <1>0, <1>1 DEF Assign, Owed, Writing
<1> SUFFICES ASSUME ~(v = NoUrl /\ old = NoUrl)
             PROVE  Writing(u, A) /\ Owed(u)
  BY <1>1
<1>2. /\ w \in Turns /\ w.el = [t.el EXCEPT !.attr = v]
      /\ w.recs = Append(t.recs, old) /\ w.msgs = t.msgs /\ w.made = t.made
  BY <1>0, WrittenFields
<1>3. /\ w.el.attached = t.el.attached /\ w.el.plugin = t.el.plugin
      /\ w.el.bound = t.el.bound /\ w.el.dying = t.el.dying
      /\ w.el.guest = t.el.guest /\ w.el.first = t.el.first
      /\ w.el.held = t.el.held /\ w.el.ignore = FALSE /\ w.el.attr = v
  BY <1>0, <1>2 DEF AnyElement
<1> HIDE DEF w
<1>4. Drawn(w, A)
  BY <1>0, <1>2, <1>3 DEF Drawn, Founds, Stays
<1>5. u = IF v = old THEN w ELSE webview_mutation_handler(w, old, v)
  BY DEF Assign, setAttribute, w
<1>6. CASE v = old
<2>1. /\ Len(w.recs) > 0 /\ w.recs[Len(w.recs)] = old
<3>1. Len(w.recs) = Len(t.recs) + 1 /\ Len(t.recs) \in Nat /\ w.recs[Len(w.recs)] = old
  BY <1>0, <1>2, AppendedFields
<3>2. QED
  BY <3>1
<2>2. Owed(w)
<3>1. Len(w.recs) \in 1..Len(w.recs)
  BY <1>2, <2>1 DEF Turns
<3>2. QED
  BY <1>3, <1>6, <2>1, <3>1 DEF Owed
<2>3. QED
  BY <1>0, <1>2, <1>3, <1>4, <1>5, <1>6, <2>2 DEF Writing
<1>7. CASE v # old /\ v # NoUrl
<2>1. u = src_changed(w, v)
  BY <1>5, <1>7 DEF webview_mutation_handler
<2>2. /\ u \in Turns /\ u.recs = w.recs /\ u.el = ParsedElement(w.el)
      /\ u.msgs = ParsedMessages(w.el, w.msgs)
      /\ u.made = (w.made \/ Creates(w.el))
<3> HIDE DEF u
<3>1. LET x == src_changed(w, v) IN
        /\ x \in Turns /\ x.recs = w.recs
        /\ IF w.el.ignore
           THEN /\ x.el = [w.el EXCEPT !.src = v, !.ignore = FALSE]
                /\ x.msgs = w.msgs /\ x.made = w.made
           ELSE /\ x.el = ParsedElement(w.el)
                /\ x.msgs = ParsedMessages(w.el, w.msgs)
                /\ x.made = (w.made \/ Creates(w.el))
  BY <1>2, SrcChangedFields
<3>2. QED
  BY <1>3, <2>1, <3>1
<2> HIDE DEF u
<2>3. /\ Drawn(u, A) /\ u.el.attr = v /\ u.el.ignore = FALSE
      /\ el.guest # 0 /\ u.el.attr # NoUrl => Lasts(u)
  BY <1>2, <1>3, <1>4, <2>2, ParsedStaysDrawn
<2>4. QED
  BY <2>2, <2>3 DEF Writing, Owed, u
<1>8. CASE v = NoUrl /\ old # NoUrl
<2> DEFINE i == [w EXCEPT !.el.ignore = TRUE]
           x == Written(i, old)
<2>1. u = src_changed(x, old)
  BY <1>5, <1>8, Zenon DEF webview_mutation_handler
<2>2. /\ i \in Turns /\ i.el = [w.el EXCEPT !.ignore = TRUE]
      /\ i.recs = w.recs /\ i.msgs = w.msgs /\ i.made = w.made
  BY <1>2, IgnoreSet
<2> HIDE DEF i
<2>3. /\ x \in Turns /\ x.el = [i.el EXCEPT !.attr = old]
      /\ x.msgs = i.msgs /\ x.made = i.made /\ x.recs = Append(i.recs, i.el.attr)
  BY <1>0, <2>2, WrittenFields
<2> HIDE DEF x
<2>4. LET y == src_changed(x, old) IN
        /\ y \in Turns /\ y.recs = x.recs
        /\ IF x.el.ignore
           THEN /\ y.el = [x.el EXCEPT !.src = old, !.ignore = FALSE]
                /\ y.msgs = x.msgs /\ y.made = x.made
           ELSE /\ y.el = ParsedElement(x.el)
                /\ y.msgs = ParsedMessages(x.el, x.msgs)
                /\ y.made = (x.made \/ Creates(x.el))
  BY <1>0, <2>3, SrcChangedFields
<2>5. w.el \in AnyElement /\ i.el \in AnyElement /\ x.el \in AnyElement
  BY <1>2, <2>2, <2>3 DEF Turns
<2>6. /\ i.el.attached = w.el.attached /\ i.el.plugin = w.el.plugin
      /\ i.el.bound = w.el.bound /\ i.el.dying = w.el.dying
      /\ i.el.guest = w.el.guest /\ i.el.first = w.el.first
      /\ i.el.held = w.el.held /\ i.el.ignore = TRUE
  BY <2>2, <2>5 DEF AnyElement
<2>7. /\ x.el.attached = i.el.attached /\ x.el.plugin = i.el.plugin
      /\ x.el.bound = i.el.bound /\ x.el.dying = i.el.dying
      /\ x.el.guest = i.el.guest /\ x.el.first = i.el.first
      /\ x.el.held = i.el.held /\ x.el.ignore = TRUE /\ x.el.attr = old
  BY <2>3, <2>5, <2>6 DEF AnyElement
<2> HIDE DEF u
<2>8. /\ u \in Turns /\ u.recs = x.recs /\ u.msgs = x.msgs /\ u.made = x.made
      /\ u.el = [x.el EXCEPT !.src = old, !.ignore = FALSE]
  BY <2>1, <2>4, <2>7
<2>9. /\ u.el.attached = x.el.attached /\ u.el.plugin = x.el.plugin
      /\ u.el.bound = x.el.bound /\ u.el.dying = x.el.dying
      /\ u.el.guest = x.el.guest /\ u.el.first = x.el.first
      /\ u.el.held = x.el.held /\ u.el.ignore = FALSE /\ u.el.attr = old
  BY <2>5, <2>7, <2>8 DEF AnyElement
<2>10. u.msgs = w.msgs /\ u.made = w.made
  BY <2>2, <2>3, <2>8
<2>11. Drawn(u, A)
  BY <1>4, <2>6, <2>7, <2>9, <2>10 DEF Drawn, Founds, Stays
<2>12. \E k \in 1..Len(u.recs) : u.recs[k] = old
<3>1. /\ Len(w.recs) = Len(t.recs) + 1 /\ Len(t.recs) \in Nat
      /\ w.recs[Len(w.recs)] = old
  BY <1>0, <1>2, AppendedFields
<3>2. w.recs \in Seq(Addresses) /\ x.recs = Append(w.recs, i.el.attr)
  BY <1>2, <2>2, <2>3 DEF Turns
<3>3. \A k \in 1..Len(w.recs) : k \in 1..Len(x.recs) /\ x.recs[k] = w.recs[k]
  BY <3>2, AppendedFields
<3>4. Len(w.recs) \in 1..Len(w.recs)
  BY <3>1
<3>5. QED
  BY <2>8, <3>1, <3>3, <3>4
<2>13. QED
  BY <1>0, <2>8, <2>9, <2>11, <2>12 DEF Writing, Owed, u
<1>9. QED
  BY <1>6, <1>7, <1>8

\* and one record of the observer.
LEMMA ObservedStaysDrawn ==
  ASSUME el \in AnyElement, lastId \in Nat, NEW A, NEW t, Writing(t, A),
         NEW rec \in Addresses
  PROVE  LET u == Observed(t, rec)
         IN  /\ Writing(u, A) /\ u.el.attr = t.el.attr
             /\ el.guest # 0 /\ t.el.attr # NoUrl /\ (rec = t.el.attr \/ Lasts(t))
                  => Lasts(u)
<1> DEFINE u == Observed(t, rec)
<1>0. /\ t \in Turns /\ t.el.ignore = FALSE /\ t.el.attr \in A /\ Drawn(t, A)
  BY DEF Writing
<1>1. CASE rec # t.el.attr
  BY <1>1 DEF Observed
<1>2. CASE rec = t.el.attr
<2>1. u = src_changed(t, rec)
  BY <1>2 DEF Observed, webview_mutation_handler
<2> HIDE DEF u
<2>2. LET x == src_changed(t, rec) IN
        /\ x \in Turns /\ x.recs = t.recs
        /\ IF t.el.ignore
           THEN /\ x.el = [t.el EXCEPT !.src = rec, !.ignore = FALSE]
                /\ x.msgs = t.msgs /\ x.made = t.made
           ELSE /\ x.el = ParsedElement(t.el)
                /\ x.msgs = ParsedMessages(t.el, t.msgs)
                /\ x.made = (t.made \/ Creates(t.el))
  BY <1>0, SrcChangedFields
<2>3. /\ u \in Turns /\ u.el = ParsedElement(t.el)
      /\ u.msgs = ParsedMessages(t.el, t.msgs)
      /\ u.made = (t.made \/ Creates(t.el))
  BY <1>0, <2>1, <2>2
<2>4. /\ Drawn(u, A) /\ u.el.attr = t.el.attr /\ u.el.ignore = t.el.ignore
      /\ el.guest # 0 /\ u.el.attr # NoUrl => Lasts(u)
  BY <1>0, <2>3, ParsedStaysDrawn
<2>5. QED
  BY <1>0, <2>3, <2>4 DEF Writing, u
<1>3. QED
  BY <1>1, <1>2

\* A script ends with its last write.
LEMMA ScriptRuns ==
  ASSUME NEW V, NEW t \in V, NEW n \in Nat, n > 0, NEW values \in [1..n -> Addresses],
         \A x \in V, k \in 1..n : Assign(x, values[k]) \in V
  PROVE  /\ \E p \in V : Script(t, values) = Assign(p, values[n])
         /\ n = 1 => Script(t, values) = Assign(t, values[1])
<1>0. Len(values) = n
  OBVIOUS
<1> DEFINE Body(g) == [i \in 0..Len(values) |->
             IF i = 0 THEN t ELSE Assign(g[i - 1], values[i])]
           step == [k \in 1..n |-> [x \in V |-> Assign(x, values[k])]]
           f == CHOOSE g : g = Body(g)
<1>1. PICK h : FollowsSteps(h, n, V, t, step)
<2>1. StepsWithin(n, V, step)
  BY DEF StepsWithin
<2> HIDE DEF step
<2>2. QED
  BY <2>1, RecursionOnNaturals
<1>2. h \in [0..n -> V] /\ h[0] = t /\ \A k \in 1..n : h[k] = step[k][h[k - 1]]
  BY <1>1 DEF FollowsSteps
<1>3. ASSUME NEW k \in 1..n PROVE h[k] = Assign(h[k - 1], values[k])
<2>1. k - 1 \in 0..n
  OBVIOUS
<2>2. h[k - 1] \in V /\ h[k] = step[k][h[k - 1]]
  BY <1>2, <2>1
<2>3. QED
  BY <2>2
<1> HIDE DEF step
<1>4. h = Body(h)
<2>1. \A i \in 0..n : i = 0 \/ i \in 1..n
  OBVIOUS
<2>2. ASSUME NEW i \in 0..n
      PROVE  h[i] = IF i = 0 THEN t ELSE Assign(h[i - 1], values[i])
  BY <1>2, <1>3, <2>1
<2>3. h = [i \in 0..n |-> h[i]]
  BY <1>2
<2>4. QED
  BY <1>0, <2>2, <2>3, Zenon
<1>5. f = Body(f)
  BY <1>4, Zenon
<1>6. Script(t, values) = f[n]
<2>1. Script(t, values) = f[Len(values)]
  BY Zenon DEF Script
<2>2. QED
  BY <1>0, <2>1
<1> HIDE DEF f
<1>7. f[0] = t
<2>1. 0 \in 0..Len(values)
  BY <1>0
<2>2. f[0] = Body(f)[0]
  BY <1>5
<2>3. QED
  BY <2>1, <2>2
<1>8. ASSUME NEW i \in 1..n PROVE f[i] = Assign(f[i - 1], values[i])
<2>1. i \in 0..Len(values) /\ i # 0
  BY <1>0
<2>2. f[i] = Body(f)[i]
  BY <1>5
<2>3. QED
  BY <2>1, <2>2, Zenon
<1> DEFINE S == {i \in Nat : i <= n => f[i] \in V}
<1>9. 0 \in S
  BY <1>7
<1>10. ASSUME NEW i \in Nat, i \in S PROVE i + 1 \in S
<2>1. SUFFICES ASSUME i + 1 <= n PROVE f[i + 1] \in V
  OBVIOUS
<2>2. i + 1 \in 1..n /\ (i + 1) - 1 = i /\ f[i] \in V
  BY <1>10, <2>1
<2>3. f[i + 1] = Assign(f[i], values[i + 1])
  BY <1>8, <2>2
<2>4. QED
  BY <2>2, <2>3
<1>11. Nat \subseteq S
<2> HIDE DEF S
<2>1. QED
  BY <1>9, <1>10, SetInduction
<1>12. n - 1 \in Nat /\ n - 1 <= n /\ n \in 1..n
  OBVIOUS
<1>13. f[n - 1] \in V /\ f[n] = Assign(f[n - 1], values[n])
  BY <1>8, <1>11, <1>12
<1>14. QED
  BY <1>6, <1>7, <1>13

\* The observer goes through the records one by one.
LEMMA ObserverRuns ==
  ASSUME NEW V, NEW t \in V, NEW n \in Nat, n = Len(t.recs),
         \A x \in V, k \in 1..n : Observed(x, t.recs[k]) \in V
  PROVE  \E f : /\ src_observer(t) = [f[n] EXCEPT !.recs = <<>>]
                /\ f[0] = t /\ \A k \in 1..n : f[k] = Observed(f[k - 1], t.recs[k])
                /\ \A k \in 0..n : f[k] \in V
<1> DEFINE Body(g) == [i \in 0..Len(t.recs) |->
              IF i = 0 THEN t
              ELSE IF t.recs[i] # g[i - 1].el.attr THEN g[i - 1]
              ELSE webview_mutation_handler(g[i - 1], t.recs[i], t.recs[i])]
           step == [k \in 1..n |-> [x \in V |-> Observed(x, t.recs[k])]]
           f == CHOOSE g : g = Body(g)
<1>1. PICK h : FollowsSteps(h, n, V, t, step)
<2>1. StepsWithin(n, V, step)
  BY DEF StepsWithin
<2> HIDE DEF step
<2>2. QED
  BY <2>1, RecursionOnNaturals
<1>2. h \in [0..n -> V] /\ h[0] = t /\ \A k \in 1..n : h[k] = step[k][h[k - 1]]
  BY <1>1 DEF FollowsSteps
<1>3. ASSUME NEW k \in 1..n PROVE h[k] = Observed(h[k - 1], t.recs[k])
<2>1. k - 1 \in 0..n
  OBVIOUS
<2>2. h[k - 1] \in V /\ h[k] = step[k][h[k - 1]]
  BY <1>2, <2>1
<2>3. QED
  BY <2>2
<1> HIDE DEF step
<1>4. h = Body(h)
<2>1. \A i \in 0..n : i = 0 \/ i \in 1..n
  OBVIOUS
<2>2. ASSUME NEW i \in 0..n
      PROVE  h[i] = IF i = 0 THEN t
              ELSE IF t.recs[i] # h[i - 1].el.attr THEN h[i - 1]
              ELSE webview_mutation_handler(h[i - 1], t.recs[i], t.recs[i])
<3>1. CASE i = 0
  BY <1>2, <3>1
<3>2. CASE i # 0
<4>1. i \in 1..n
  BY <2>1, <3>2
<4>2. h[i] = Observed(h[i - 1], t.recs[i])
  BY <1>3, <4>1
<4>3. QED
  BY <3>2, <4>2, Zenon DEF Observed
<3>3. QED
  BY <3>1, <3>2
<2>3. h = [i \in 0..n |-> h[i]]
  BY <1>2
<2>4. QED
  BY <2>2, <2>3, Zenon
<1>5. f = Body(f)
  BY <1>4, Zenon
<1>6. src_observer(t) = [f[n] EXCEPT !.recs = <<>>]
  BY Zenon DEF src_observer
<1> HIDE DEF f
<1>7. f[0] = t
<2>1. 0 \in 0..n
  OBVIOUS
<2>2. f[0] = Body(f)[0]
  BY <1>5
<2>3. QED
  BY <2>1, <2>2
<1>8. ASSUME NEW i \in 1..n PROVE f[i] = Observed(f[i - 1], t.recs[i])
<2>1. i \in 0..n /\ i # 0
  OBVIOUS
<2>2. f[i] = Body(f)[i]
  BY <1>5
<2>3. QED
  BY <2>1, <2>2, Zenon DEF Observed
<1> DEFINE S == {i \in Nat : i <= n => f[i] \in V}
<1>9. 0 \in S
  BY <1>7
<1>10. ASSUME NEW i \in Nat, i \in S PROVE i + 1 \in S
<2>1. SUFFICES ASSUME i + 1 <= n PROVE f[i + 1] \in V
  OBVIOUS
<2>2. i + 1 \in 1..n /\ (i + 1) - 1 = i /\ f[i] \in V
  BY <1>10, <2>1
<2>3. f[i + 1] = Observed(f[i], t.recs[i + 1])
  BY <1>8, <2>2
<2>4. QED
  BY <2>2, <2>3
<1>11. Nat \subseteq S
<2> HIDE DEF S
<2>1. QED
  BY <1>9, <1>10, SetInduction
<1>12. \A k \in 0..n : f[k] \in V
  BY <1>11
<1>13. QED
  BY <1>6, <1>7, <1>8, <1>12

\* What a script writes are addresses, or the removal of src.
LEMMA ScriptValues ==
  ASSUME NEW values \in Scripts
  PROVE  /\ Len(values) \in Nat /\ Len(values) > 0
         /\ values \in [1..Len(values) -> Addresses]
         /\ \A k \in 1..Len(values) : values[k] \in Range(values)
<1>1. MaxWrites \in Nat
  BY ElementAssumption
<1>2. PICK n \in 1..MaxWrites : values \in [1..n -> Addresses]
  BY DEF Scripts, Addresses
<1>3. n \in Nat /\ n > 0 /\ Len(values) = n /\ DOMAIN values = 1..n
  BY <1>1, <1>2
<1>4. QED
  BY <1>2, <1>3 DEF Range

\* A script begins with nothing written, and each write keeps to the above.
LEMMA ScriptStaysWriting ==
  ASSUME TypeInv, NEW values \in Scripts
  PROVE  LET A == Range(values) \union {el.attr}
             n == Len(values)
             W == {x \in Turns : Writing(x, A) /\ (Owed(x) \/ x.recs = <<>>)}
         IN  /\ Turn \in W
             /\ \A x \in W, k \in 1..n :
                  /\ Assign(x, values[k]) \in W
                  /\ Writing(Assign(x, values[k]), A) /\ Owed(Assign(x, values[k]))
<1> DEFINE A == Range(values) \union {el.attr}
           n == Len(values)
           W == {x \in Turns : Writing(x, A) /\ (Owed(x) \/ x.recs = <<>>)}
<1>0. /\ el \in AnyElement /\ lastId \in Nat /\ el.ignore = FALSE /\ el.guest \in Nat
  BY ElementIsAny DEF AnyElement
<1>1. /\ n \in Nat /\ n > 0 /\ values \in [1..n -> Addresses]
      /\ \A k \in 1..n : values[k] \in A
  BY ScriptValues
<1>2. Turn \in W
<2>1. /\ Turn \in Turns /\ Turn.el = el /\ Turn.msgs = <<>> /\ Turn.recs = <<>>
      /\ Turn.made = FALSE
  BY <1>0, TurnFields
<2>2. Drawn(Turn, A)
  BY <2>1 DEF Drawn, Stays, Navigates
<2>3. QED
  BY <1>0, <2>1, <2>2 DEF Writing
<1>3. \A x \in W, k \in 1..n :
        Writing(Assign(x, values[k]), A) /\ Owed(Assign(x, values[k]))
<2>1. SUFFICES ASSUME NEW x \in W, NEW k \in 1..n
               PROVE  Writing(Assign(x, values[k]), A) /\ Owed(Assign(x, values[k]))
  OBVIOUS
<2>2. values[k] \in Addresses /\ values[k] \in A
  BY <1>1
<2>3. Writing(x, A) /\ (Owed(x) \/ x.recs = <<>>)
  OBVIOUS
<2> HIDE DEF A, W
<2>4. QED
  BY <1>0, <2>2, <2>3, AssignStaysDrawn
<1>4. \A x \in W, k \in 1..n : Assign(x, values[k]) \in W
  BY <1>3 DEF Writing
<1>5. QED
  BY <1>2, <1>3, <1>4

\* A script and the delivery of its records: the element has its guest asked
\* for what was written, for the address it ends with last, or gets a guest.
LEMMA ScriptTurn ==
  ASSUME TypeInv, NEW values \in Scripts
  PROVE  LET t == src_observer(Script(Turn, values))
             A == Range(values) \union {el.attr}
         IN  /\ Sound(t)
             /\ Says(t) \/ (Founds(t) /\ el.guest = 0)
             /\ Says(t) /\ el.guest = 0 => t.msgs = <<>>
             /\ Drawn(t, A)
             /\ el.guest # 0 /\ t.el.attr # NoUrl => Lasts(t)
<1> DEFINE A == Range(values) \union {el.attr}
           n == Len(values)
           W == {x \in Turns : Writing(x, A) /\ (Owed(x) \/ x.recs = <<>>)}
           s == Script(Turn, values)
           t == src_observer(s)
<1>1. n \in Nat /\ n > 0 /\ values \in [1..n -> Addresses]
  BY ScriptValues
<1>2. Turn \in W
  BY ScriptStaysWriting
<1>3. \A x \in W, k \in 1..n :
        Writing(Assign(x, values[k]), A) /\ Owed(Assign(x, values[k]))
  BY ScriptStaysWriting
<1>4. \A x \in W, k \in 1..n : Assign(x, values[k]) \in W
  BY ScriptStaysWriting
<1>0. el \in AnyElement /\ lastId \in Nat
  BY ElementIsAny
<1> HIDE DEF A, W
<1>5. PICK p \in W : s = Assign(p, values[n])
  BY <1>1, <1>2, <1>4, ScriptRuns
<1>6. Writing(s, A) /\ Owed(s)
<2>1. n \in 1..n
  BY <1>1
<2>2. QED
  BY <1>3, <1>5, <2>1
<1> HIDE DEF s, n
<1> DEFINE V == {x \in Turns : Writing(x, A) /\ x.el.attr = s.el.attr}
           m == Len(s.recs)
<1>7. s \in Turns /\ s.recs \in Seq(Addresses) /\ m \in Nat
      /\ \A k \in 1..m : s.recs[k] \in Addresses
  BY <1>6 DEF Writing, Turns
<1>8. s \in V
  BY <1>6, <1>7
<1>9. \A x \in V, k \in 1..m :
        LET u == Observed(x, s.recs[k])
        IN  /\ u \in V
            /\ el.guest # 0 /\ s.el.attr # NoUrl
                 /\ (s.recs[k] = s.el.attr \/ Lasts(x)) => Lasts(u)
<2>1. SUFFICES ASSUME NEW x \in V, NEW k \in 1..m
      PROVE  LET u == Observed(x, s.recs[k])
             IN  /\ u \in V
                 /\ el.guest # 0 /\ s.el.attr # NoUrl
                      /\ (s.recs[k] = s.el.attr \/ Lasts(x)) => Lasts(u)
  OBVIOUS
<2>2. Writing(x, A) /\ x.el.attr = s.el.attr /\ s.recs[k] \in Addresses
  BY <1>7
<2> DEFINE u == Observed(x, s.recs[k])
<2>3. /\ Writing(u, A) /\ u.el.attr = x.el.attr
      /\ el.guest # 0 /\ x.el.attr # NoUrl
           /\ (s.recs[k] = x.el.attr \/ Lasts(x)) => Lasts(u)
  BY <1>0, <2>2, ObservedStaysDrawn
<2> HIDE DEF u
<2>4. u \in Turns
  BY <2>3 DEF Writing
<2>5. QED
  BY <2>2, <2>3, <2>4 DEF u
<1> HIDE DEF V
<1>10. PICK f : /\ t = [f[m] EXCEPT !.recs = <<>>] /\ f[0] = s
                /\ \A k \in 1..m : f[k] = Observed(f[k - 1], s.recs[k])
                /\ \A k \in 0..m : f[k] \in V
<2>1. \A x \in V, k \in 1..m : Observed(x, s.recs[k]) \in V
  BY <1>9
<2>2. QED
  BY <1>7, <1>8, <2>1, ObserverRuns
<1> HIDE DEF t
<1>11. el.guest # 0 /\ s.el.attr # NoUrl => Lasts(f[m])
<2>1. SUFFICES ASSUME el.guest # 0, s.el.attr # NoUrl PROVE Lasts(f[m])
  OBVIOUS
<2>2. PICK j \in 0..m : Lasts(f[j])
<3>1. CASE Lasts(s)
  BY <1>7, <1>10, <3>1
<3>2. CASE ~Lasts(s)
<4>1. PICK k \in 1..m : s.recs[k] = s.el.attr
  BY <1>6, <2>1, <3>2 DEF Owed
<4>2. k \in 0..m /\ k - 1 \in 0..m
  BY <1>7
<4>3. f[k - 1] \in V /\ f[k] = Observed(f[k - 1], s.recs[k])
  BY <1>10, <4>2
<4>4. Lasts(f[k])
  BY <1>9, <2>1, <4>1, <4>3
<4>5. QED
  BY <4>2, <4>4
<3>3. QED
  BY <3>1, <3>2
<2> DEFINE S == {i \in Nat : j <= i /\ i <= m => Lasts(f[i])}
<2>3. 0 \in S
<3>1. j <= 0 => j = 0
  OBVIOUS
<3>2. QED
  BY <2>2, <3>1
<2>4. ASSUME NEW i \in Nat, i \in S PROVE i + 1 \in S
<3>1. SUFFICES ASSUME j <= i + 1, i + 1 <= m PROVE Lasts(f[i + 1])
  OBVIOUS
<3>2. CASE j = i + 1
  BY <2>2, <3>2
<3>3. CASE j # i + 1
<4>1. j <= i /\ i <= m /\ i + 1 \in 1..m /\ (i + 1) - 1 = i /\ i \in 0..m
  BY <1>7, <3>1, <3>3
<4>2. Lasts(f[i]) /\ f[i] \in V /\ f[i + 1] = Observed(f[i], s.recs[i + 1])
  BY <1>10, <2>4, <4>1
<4>3. QED
  BY <1>9, <2>1, <4>1, <4>2
<3>4. QED
  BY <3>2, <3>3
<2>5. Nat \subseteq S
<3> HIDE DEF S
<3>1. QED
  BY <2>3, <2>4, SetInduction
<2>6. QED
  BY <1>7, <2>5
<1> DEFINE r == f[m]
<1>12. r \in Turns /\ Writing(r, A) /\ r.el.attr = s.el.attr
  BY <1>7, <1>10 DEF V
<1> HIDE DEF r
<1>13. /\ t \in Turns /\ t.el = r.el /\ t.recs = <<>>
       /\ t.msgs = r.msgs /\ t.made = r.made
<2>1. LET x == [r EXCEPT !.recs = <<>>] IN
        /\ x \in Turns /\ x.el = r.el /\ x.recs = <<>>
        /\ x.msgs = r.msgs /\ x.made = r.made
  BY <1>12, RecsDropped
<2>2. t = [r EXCEPT !.recs = <<>>]
  BY <1>10 DEF r
<2>3. QED
  BY <2>1, <2>2
<1>14. Sound(t) /\ Drawn(t, A)
  BY <1>12, <1>13 DEF Sound, Writing, Drawn, Founds, Stays
<1>15. el.guest # 0 /\ t.el.attr # NoUrl => Lasts(t)
  BY <1>11, <1>12, <1>13 DEF Lasts, r
<1>16. CASE Founds(t)
<2>1. el.guest = 0 /\ ~Says(t)
  BY <1>16 DEF Founds, Says
<2>2. QED
  BY <1>14, <1>15, <1>16, <2>1 DEF A, t, s
<1>17. CASE ~Founds(t)
<2>1. /\ Stays(t.el) /\ t.el.held = el.held /\ t.made = FALSE
      /\ Navigates(t.msgs, A)
  BY <1>14, <1>17 DEF Drawn
<2>2. Says(t)
<3>1. ToItsGuest(t.msgs) /\ NoAnswers(t.msgs)
  BY <2>1 DEF Navigates, ToItsGuest, NoAnswers, Requests, Kinds
<3>2. QED
  BY <2>1, <3>1 DEF Says
<2>3. el.guest = 0 => t.msgs = <<>>
<3>1. SUFFICES ASSUME el.guest = 0 PROVE t.msgs = <<>>
  OBVIOUS
<3>2. t.msgs \in Seq(UpSet)
  BY <1>13 DEF Turns
<3>3. Len(t.msgs) = 0
  BY <2>1, <3>1, <3>2 DEF Navigates
<3>4. QED
  BY <3>2, <3>3
<2>4. QED
  BY <1>14, <1>15, <2>2, <2>3 DEF A, t, s
<1>18. QED
  BY <1>16, <1>17

\* A script of one write parses src, unless it removes what is not there.
LEMMA OneWriteTurn ==
  ASSUME TypeInv, NEW values \in Scripts, Len(values) = 1
  PROVE  LET t == src_observer(Script(Turn, values))
         IN  (Says(t) /\ t.msgs = <<>>) \/ Parses(t, el.attached)
<1> DEFINE v == values[1]
<1>0. el \in AnyElement
  BY ElementIsAny
<1>1. v \in Addresses /\ values \in [1..1 -> Addresses]
  BY ScriptValues
<1>2. Script(Turn, values) = Assign(Turn, v)
<2> DEFINE A == Range(values) \union {el.attr}
           W == {x \in Turns : Writing(x, A) /\ (Owed(x) \/ x.recs = <<>>)}
<2>1. Turn \in W
  BY ScriptStaysWriting
<2>2. \A x \in W, k \in 1..1 : Assign(x, values[k]) \in W
  BY ScriptStaysWriting
<2> HIDE DEF W
<2>3. 1 \in Nat /\ 1 > 0 /\ values \in [1..1 -> Addresses]
  BY <1>1
<2>4. 1 = 1 => Script(Turn, values) = Assign(Turn, values[1])
  BY <2>1, <2>2, <2>3, ScriptRuns, ZenonT(20)
<2>5. QED
  BY <2>4
<1> HIDE DEF v
<1>3. CASE v = NoUrl /\ el.attr = NoUrl
<2>1. /\ Turn \in Turns /\ Turn.el = el /\ Turn.msgs = <<>> /\ Turn.recs = <<>>
      /\ Turn.made = FALSE
  BY <1>0, TurnFields
<2>2. src_observer(Script(Turn, values)) = Turn
  BY <1>2, <1>3, <2>1, NothingObserved DEF Assign
<2>3. Says(Turn)
  BY <2>1 DEF Says, Stays, ToItsGuest, NoAnswers
<2>4. QED
  BY <2>1, <2>2, <2>3
<1>4. CASE ~(v = NoUrl /\ el.attr = NoUrl)
<2>1. Turn.el = el
  BY <1>0, TurnFields
<2>2. Script(Turn, values) = setAttribute(Turn, v)
  BY <1>2, <1>4, <2>1 DEF Assign
<2>3. LET t == src_observer(setAttribute(Turn, v)) IN Parses(t, el.attached)
  BY <1>1, <1>4, AssignsParse
<2>4. QED
  BY <2>2, <2>3
<1>5. QED
  BY <1>3, <1>4

\* What a step of the renderer is.
Does(t) ==
  \/ /\ ~el.attached /\ Parses(t, TRUE) /\ down' = down
     /\ careless' = (careless \/ ~(registered = {} /\ down = <<>>))
  \/ /\ Parses(t, el.attached) /\ down' = down
     /\ careless' = (careless \/ ~(el.attached /\ Ready))
  \/ Founds(t) /\ down' = down /\ careless' = TRUE
  \/ /\ el.attached /\ LeavesDocument(t) /\ down' = down
     /\ careless' = (careless \/ ~Ready)
  \/ Disappears(t) /\ down' = down /\ careless' = TRUE
  \/ /\ Says(t) \/ AnswersOne(t)
     /\ down' = down /\ careless' \in BOOLEAN
     /\ careless' \/ (~careless /\ (Ready \/ t.msgs = <<>>))
  \/ /\ Says(t) \/ HearsDialog(t)
     /\ down # <<>> /\ down' = Tail(down) /\ careless' = careless
  \/ GetsPlugin(t) /\ down' = down /\ careless' = careless
  \/ BindsGuest(t) /\ down' = down /\ careless' = careless
  \/ BuriesOne(t) /\ down' = down /\ careless' = careless

RendererStep(t) ==
  /\ Running /\ Sound(t)
  /\ el' = t.el /\ up' = up \o t.msgs
  /\ IF t.made
     THEN /\ up = <<>> /\ lastId < MaxGuests
          /\ lastId' = lastId + 1
          /\ CreateWebViewGuest(lastId + 1)
     ELSE UNCHANGED <<guests, registered, lastId>>
  /\ UNCHANGED <<lastDialog, acts, zoomMap, embedder, crashed, misanswered>>
  /\ Does(t)

\* A turn that does one of these things is a step of the renderer.
LEMMA TurnRuns ==
  ASSUME NEW turn, Runs(turn), NEW t, t = src_observer(turn), Sound(t), Does(t)
  PROVE  RendererStep(t)
<1>1. /\ Running
      /\ el' = t.el
      /\ up' = up \o t.msgs
      /\ IF t.made
         THEN /\ up = <<>> /\ lastId < MaxGuests
              /\ lastId' = lastId + 1
              /\ CreateWebViewGuest(lastId')
         ELSE UNCHANGED <<guests, registered, lastId>>
      /\ UNCHANGED <<lastDialog, acts, zoomMap, embedder, crashed, misanswered>>
  BY Zenon DEF Runs
<1>2. t.made => CreateWebViewGuest(lastId + 1)
<2>1. SUFFICES ASSUME t.made PROVE CreateWebViewGuest(lastId + 1)
  OBVIOUS
<2>2. lastId' = lastId + 1 /\ CreateWebViewGuest(lastId')
  BY <1>1, <2>1
<2>3. QED
  BY <2>2
<1>3. QED
  BY <1>1, <1>2 DEF RendererStep

\* The page does no more than it may.
LEMMA TurnsCounted ==
  ASSUME TypeInv, NEW n \in Nat, NEW turn, NEW careful, PageActs(n, turn, careful)
  PROVE  turns' \in 0..MaxTurns
<1>1. turns \in Nat /\ MaxTurns \in Nat
  BY ElementAssumption DEF TypeInv, TypeOK
<1>2. turns' = turns + n /\ turns + n <= MaxTurns
  BY DEF PageActs
<1>3. QED
  BY <1>1, <1>2

\* The page calls a method:
LEMMA CallSteps ==
  ASSUME TypeInv, PageCalls
  PROVE  \E t : RendererStep(t) /\ turns' \in 0..MaxTurns
<1>0. el.guest # 0 /\ Calls \subseteq {"Reload", "Stop"} /\ ContentCalls \subseteq {"Find"}
  BY ElementAssumption DEF PageCalls
<1>1. ASSUME NEW kind \in {"Reload", "Stop", "Find", "Go", "SetZoom"}, NEW arg \in Args,
             Fits(Message(kind, el.guest, arg)),
             PageDoes(Native(Turn, kind, arg), Ready)
      PROVE  \E t : RendererStep(t) /\ turns' \in 0..MaxTurns
<2> DEFINE t == src_observer(Native(Turn, kind, arg))
<2>1. Sound(t) /\ Says(t)
  BY <1>1, CallTurns
<2>2. /\ turns' \in 0..MaxTurns
      /\ careless' = (careless \/ ~Ready)
      /\ Runs(Native(Turn, kind, arg)) /\ down' = down
  BY <1>1, TurnsCounted DEF PageDoes, PageActs
<2>3. careless \in BOOLEAN
  BY DEF TypeInv, TypeOK
<2> HIDE DEF t
<2>4. Does(t)
  BY <2>1, <2>2, <2>3 DEF Does
<2>5. RendererStep(t)
  BY <2>1, <2>2, <2>4, TurnRuns DEF t
<2>6. QED
  BY <2>2, <2>5
<1>2. ASSUME NEW method \in Calls, PageDoes(Native(Turn, method, NoUrl), Ready)
      PROVE  \E t : RendererStep(t) /\ turns' \in 0..MaxTurns
<2>1. NoUrl \in Args /\ Fits(Message(method, el.guest, NoUrl))
      /\ method \in {"Reload", "Stop", "Find", "Go", "SetZoom"}
  BY <1>0 DEF Args, Addresses, Fits, Message
<2>2. QED
  BY <1>1, <1>2, <2>1
<1>3. ASSUME NEW method \in ContentCalls,
             PageDoes(NativeOfContents(Turn, method), Ready)
      PROVE  \E t : RendererStep(t) /\ turns' \in 0..MaxTurns
<2>1. NoUrl \in Args /\ Fits(Message(method, el.guest, NoUrl))
      /\ method \in {"Reload", "Stop", "Find", "Go", "SetZoom"}
  BY <1>0 DEF Args, Addresses, Fits, Message
<2>2. PageDoes(Native(Turn, method, NoUrl), Ready)
  BY <1>3 DEF NativeOfContents
<2>3. QED
  BY <1>1, <2>1, <2>2
<1>4. ASSUME NEW offset \in Offsets, PageDoes(Native(Turn, "Go", offset), Ready)
      PROVE  \E t : RendererStep(t) /\ turns' \in 0..MaxTurns
<2>1. offset \in Int
  BY DEF Offsets
<2>2. offset \in Args /\ Fits(Message("Go", el.guest, offset))
  BY <2>1 DEF Args, Fits, Message
<2>3. QED
  BY <1>1, <1>4, <2>2
<1>5. ASSUME NEW zoom \in Zooms, PageDoes(Native(Turn, "SetZoom", zoom), Ready)
      PROVE  \E t : RendererStep(t) /\ turns' \in 0..MaxTurns
<2>1. zoom \in Args /\ Fits(Message("SetZoom", el.guest, zoom))
  BY DEF Args, Fits, Message
<2>2. QED
  BY <1>1, <1>5, <2>1
<1>6. QED
  BY <1>2, <1>3, <1>4, <1>5 DEF PageCalls

\* Whatever the page does is a step of the renderer, and counts as one.
LEMMA PageSteps ==
  ASSUME TypeInv, PageStep
  PROVE  \E t : RendererStep(t) /\ turns' \in 0..MaxTurns
<1>0. careless \in BOOLEAN
  BY DEF TypeInv, TypeOK
<1>1. ASSUME NEW n \in Nat, NEW turn, NEW careful \in BOOLEAN,
             PageActs(n, turn, careful), Sound(src_observer(turn)),
             (/\ down' = down
              /\ careless' = (careless \/ ~careful)) => Does(src_observer(turn))
      PROVE  \E t : RendererStep(t) /\ turns' \in 0..MaxTurns
<2>1. /\ turns' \in 0..MaxTurns
      /\ careless' = (careless \/ ~careful)
      /\ Runs(turn) /\ down' = down
  BY <1>1, TurnsCounted DEF PageActs
<2>2. RendererStep(src_observer(turn))
  BY <1>1, <2>1, TurnRuns
<2>3. QED
  BY <2>1, <2>2
<1>2. CASE PageAttaches
<2> DEFINE turn == attachedCallback(Turn)
           careful == registered = {} /\ down = <<>>
<2>1. ~el.attached /\ PageActs(1, turn, careful)
  BY <1>2 DEF PageAttaches, PageDoes
<2>2. LET t == src_observer(turn) IN Sound(t) /\ Parses(t, TRUE)
  BY AttachesParse
<2>3. careful \in BOOLEAN
  OBVIOUS
<2>4. (down' = down /\ careless' = (careless \/ ~careful)) => Does(src_observer(turn))
  BY <2>1, <2>2 DEF Does
<2> HIDE DEF turn, careful
<2>5. QED
  BY <1>1, <2>1, <2>2, <2>3, <2>4
<1>3. CASE PageDetaches
<2> DEFINE turn == detachedCallback(Turn)
<2>1. el.attached /\ PageActs(1, turn, Ready)
  BY <1>3 DEF PageDetaches, PageDoes
<2>2. LET t == src_observer(turn) IN Sound(t) /\ LeavesDocument(t)
  BY DetachTurn
<2>3. Ready \in BOOLEAN
  BY DEF Ready
<2>4. (down' = down /\ careless' = (careless \/ ~Ready)) => Does(src_observer(turn))
  BY <2>1, <2>2 DEF Does
<2> HIDE DEF turn
<2>5. QED
  BY <1>1, <2>1, <2>2, <2>3, <2>4
<1>4. CASE PageHides
<2> DEFINE turn == PluginGoes([Turn EXCEPT !.el.hidden = TRUE])
<2>1. PageActs(1, turn, FALSE)
  BY <1>4 DEF PageHides, PageDoes
<2>2. LET t == src_observer(turn) IN Sound(t) /\ Disappears(t)
  BY HideTurn
<2>3. (down' = down /\ careless' = (careless \/ ~FALSE)) => Does(src_observer(turn))
  BY <2>2 DEF Does
<2> HIDE DEF turn
<2>4. QED
  BY <1>1, <2>1, <2>2, <2>3
<1>5. CASE PageShows
<2> DEFINE turn == [Turn EXCEPT !.el.hidden = FALSE]
<2>1. PageActs(1, turn, TRUE)
  BY <1>5 DEF PageShows, PageDoes
<2>2. LET t == src_observer(turn) IN Sound(t) /\ Says(t) /\ t.msgs = <<>>
  BY ShowTurn
<2>3. (down' = down /\ careless' = (careless \/ ~TRUE)) => Does(src_observer(turn))
  BY <1>0, <2>2 DEF Does
<2> HIDE DEF turn
<2>4. QED
  BY <1>1, <2>1, <2>2, <2>3
<1>6. ASSUME NEW values \in Scripts, PageSetsSrc(values)
      PROVE  \E t : RendererStep(t) /\ turns' \in 0..MaxTurns
<2> DEFINE turn == Script(Turn, values)
           careful == el.attached /\ Ready /\ (el.guest # 0 \/ Len(values) = 1)
<2>1. PageActs(Len(values), turn, careful)
  BY <1>6 DEF PageSetsSrc
<2>2. careful \in BOOLEAN /\ Len(values) \in Nat
  BY ScriptValues
<2>3. (down' = down /\ careless' = (careless \/ ~careful)) => Does(src_observer(turn))
<3> DEFINE t == src_observer(turn)
<3>1. CASE Len(values) = 1
<4>1. (Says(t) /\ t.msgs = <<>>) \/ Parses(t, el.attached)
  BY <3>1, OneWriteTurn
<4> HIDE DEF t
<4>2. QED
  BY <1>0, <3>1, <4>1 DEF Does, t
<3>2. CASE Len(values) # 1
<4>1. /\ Says(t) \/ (Founds(t) /\ el.guest = 0)
      /\ Says(t) /\ el.guest = 0 => t.msgs = <<>>
  BY ScriptTurn
<4> HIDE DEF t
<4>2. QED
  BY <1>0, <3>2, <4>1 DEF Does, t
<3>3. QED
  BY <3>1, <3>2
<2>4. Sound(src_observer(turn))
  BY ScriptTurn
<2> HIDE DEF turn, careful
<2>5. QED
  BY <1>1, <2>1, <2>2, <2>3, <2>4
<1>9. CASE PageCalls
  BY <1>9, CallSteps
<1>10. ASSUME NEW d \in Dialogs, PageAnswers(d)
       PROVE  \E t : RendererStep(t) /\ turns' \in 0..MaxTurns
<2> DEFINE turn == Native([Turn EXCEPT !.el.held = @ \ {d}], "DialogClosed", d)
<2>1. d \in el.held /\ PageActs(1, turn, Ready)
  BY <1>10 DEF PageAnswers, PageDoes
<2>2. LET t == src_observer(turn) IN Sound(t) /\ AnswersOne(t)
  BY <2>1, AnswerTurn
<2>3. Ready \in BOOLEAN
  BY DEF Ready
<2>4. (down' = down /\ careless' = (careless \/ ~Ready)) => Does(src_observer(turn))
  BY <1>0, <2>2, <2>3 DEF Does
<2> HIDE DEF turn
<2>5. QED
  BY <1>1, <2>1, <2>2, <2>3, <2>4
<1>11. QED
  BY <1>2, <1>3, <1>4, <1>5, <1>6, <1>9, <1>10 DEF PageStep

\* So is whatever else the renderer does.
LEMMA RendererSteps ==
  ASSUME TypeInv, PageStep \/ HandleEvent \/ PluginLoads \/ TimerFires \/ PluginDies
  PROVE  \E t : RendererStep(t) /\ turns' \in 0..MaxTurns
<1>0. turns \in 0..MaxTurns /\ MaxTurns \in Nat
  BY ElementAssumption DEF TypeInv, TypeOK
<1>1. CASE PageStep
  BY <1>0, <1>1, PageSteps
<1>2. CASE HandleEvent
<2>1. PICK kept \in BOOLEAN : Runs(event_handler(Turn, Head(down), kept))
  BY <1>2 DEF HandleEvent
<2>2. down # <<>> /\ down' = Tail(down) /\ turns' = turns /\ careless' = careless
  BY <1>2 DEF HandleEvent
<2> DEFINE t == src_observer(event_handler(Turn, Head(down), kept))
<2>3. Sound(t) /\ (Says(t) \/ HearsDialog(t))
  BY <2>2, EventTurns
<2>4. Does(t)
  BY <2>2, <2>3 DEF Does
<2>5. RendererStep(t)
  BY <2>1, <2>3, <2>4, TurnRuns
<2>6. QED
  BY <1>0, <2>2, <2>5
<1>3. CASE PluginLoads
<2> DEFINE turn == [Turn EXCEPT !.el.plugin = TRUE, !.el.timer = TRUE]
<2>1. el.attached /\ Runs(turn) /\ down' = down /\ turns' = turns /\ careless' = careless
  BY <1>3 DEF PluginLoads
<2>2. LET t == src_observer(turn) IN Sound(t) /\ GetsPlugin(t)
  BY <2>1, PluginTurn
<2> HIDE DEF turn
<2>3. Does(src_observer(turn))
  BY <2>1, <2>2 DEF Does
<2>4. RendererStep(src_observer(turn))
  BY <2>1, <2>2, <2>3, TurnRuns
<2>5. QED
  BY <1>0, <2>1, <2>4
<1>4. CASE TimerFires
<2> DEFINE turn == internalbindings([Turn EXCEPT !.el.timer = FALSE])
<2>1. Runs(turn) /\ down' = down /\ turns' = turns /\ careless' = careless
  BY <1>4 DEF TimerFires
<2>2. LET t == src_observer(turn)
      IN  Sound(t) /\ ((Says(t) /\ t.msgs = <<>>) \/ BindsGuest(t))
  BY TimerTurn
<2>3. careless \in BOOLEAN
  BY DEF TypeInv, TypeOK
<2> HIDE DEF turn
<2>4. Does(src_observer(turn))
  BY <2>1, <2>2, <2>3 DEF Does
<2>5. RendererStep(src_observer(turn))
  BY <2>1, <2>2, <2>4, TurnRuns
<2>6. QED
  BY <1>0, <2>1, <2>5
<1>5. CASE PluginDies
<2>1. PICK g \in el.dying :
        /\ Runs(Send([Turn EXCEPT !.el.dying = @ \ {g}],
                     "PluginDestroyed", g, NoUrl))
        /\ down' = down /\ turns' = turns /\ careless' = careless
  BY <1>5 DEF PluginDies
<2> DEFINE turn == Send([Turn EXCEPT !.el.dying = @ \ {g}], "PluginDestroyed", g, NoUrl)
<2>2. LET t == src_observer(turn) IN Sound(t) /\ BuriesOne(t)
  BY BuryTurn
<2>3. Runs(turn)
  BY <2>1
<2> HIDE DEF turn
<2>4. Does(src_observer(turn))
  BY <2>1, <2>2 DEF Does
<2>5. RendererStep(src_observer(turn))
  BY <2>2, <2>3, <2>4, TurnRuns
<2>6. QED
  BY <1>0, <2>1, <2>5
<1>6. QED
  BY <1>1, <1>2, <1>3, <1>4, <1>5

\* What parsing src leaves of an element, and what goes out.
Parsed(t, attached) ==
  LET g == lastId + 1
      same == /\ t.el.bound = el.bound /\ t.el.dying = el.dying
  IN  /\ t.el.attached = attached /\ t.el.plugin = el.plugin /\ t.el.held = el.held
      /\ \/ /\ t.made = FALSE /\ same
            /\ t.el.guest = el.guest /\ t.el.first = el.first
            /\ \/ t.msgs = <<>>
               \/ el.guest # 0
                  /\ \E url \in Addresses : t.msgs = <<Message("LoadUrl", el.guest, url)>>
         \/ /\ t.made = TRUE /\ el.guest = 0 /\ el.first /\ t.el.first = FALSE
            /\ \/ /\ ~attached /\ same /\ t.el.guest = 0
                  /\ t.msgs = <<Message("Destroy", g, NoUrl)>>
               \/ /\ attached /\ ~el.plugin /\ same /\ t.el.guest = g
                  /\ t.msgs = <<>>
               \/ /\ attached /\ el.plugin /\ t.el.guest = g /\ t.el.bound = g
                  /\ el.dying \subseteq t.el.dying
                  /\ t.el.dying \subseteq el.dying \union ({el.bound} \ {0})
                  /\ \E url \in Addresses :
                       t.msgs = IF el.bound = g THEN <<>>
                                ELSE <<Message("Attach", g, url)>>

\* Parsing either changes nothing but src, or navigates, or makes a guest.
LEMMA ParsesFields ==
  ASSUME TypeInv, NEW t, NEW attached \in BOOLEAN, Parses(t, attached)
  PROVE  Parsed(t, attached)
<1> DEFINE g == lastId + 1
<1>0. lastId \in Nat
  BY ElementIsAny
<1>1. PICK e \in AnyElement :
    /\ e.attached = attached
    /\ e.plugin = el.plugin /\ e.bound = el.bound /\ e.dying = el.dying
    /\ e.guest = el.guest /\ e.first = el.first /\ e.held = el.held
    /\ t.el = ParsedElement(e) /\ t.msgs = ParsedMessages(e, <<>>)
    /\ t.made = Creates(e)
  BY DEF Parses
<1>2. e.attr \in Addresses /\ Creates(e) \in BOOLEAN
  BY DEF AnyElement, Creates
<1> DEFINE p == t.el
<1>3. /\ p.attached = e.attached /\ p.plugin = e.plugin /\ p.held = e.held
      /\ ~Creates(e) => /\ p.guest = e.guest /\ p.first = e.first
                        /\ p.bound = e.bound /\ p.dying = e.dying
      /\ Creates(e) /\ ~e.attached => /\ p.guest = 0 /\ p.first = FALSE
                        /\ p.bound = e.bound /\ p.dying = e.dying
      /\ Creates(e) /\ e.attached /\ ~e.plugin =>
                        /\ p.guest = g /\ p.first = FALSE
                        /\ p.bound = e.bound /\ p.dying = e.dying
      /\ Creates(e) /\ e.attached /\ e.plugin =>
                        /\ p.guest = g /\ p.first = FALSE /\ p.bound = g
                        /\ e.dying \subseteq p.dying
                        /\ p.dying \subseteq e.dying \union ({e.bound} \ {0})
<2> HIDE DEF p
<2>1. LET q == ParsedElement(e)
      IN  /\ q.attached = e.attached /\ q.plugin = e.plugin /\ q.held = e.held
          /\ ~Creates(e) => /\ q.guest = e.guest /\ q.first = e.first
                            /\ q.bound = e.bound /\ q.dying = e.dying
          /\ Creates(e) /\ ~e.attached => /\ q.guest = 0 /\ q.first = FALSE
                            /\ q.bound = e.bound /\ q.dying = e.dying
          /\ Creates(e) /\ e.attached /\ ~e.plugin =>
                            /\ q.guest = g /\ q.first = FALSE
                            /\ q.bound = e.bound /\ q.dying = e.dying
          /\ Creates(e) /\ e.attached /\ e.plugin =>
                            /\ q.guest = g /\ q.first = FALSE /\ q.bound = g
                            /\ e.dying \subseteq q.dying
                            /\ q.dying \subseteq e.dying \union ({e.bound} \ {0})
  BY <1>0, ParsedKeeps
<2>2. p = ParsedElement(e)
  BY <1>1 DEF p
<2>3. QED
  BY <2>1, <2>2
<1> HIDE DEF p
<1>4. CASE ~Creates(e)
<2>1. \/ t.msgs = <<>>
      \/ e.guest # 0 /\ t.msgs = Append(<<>>, Message("LoadUrl", e.guest, e.attr))
  BY <1>1, <1>4 DEF ParsedMessages
<2>2. t.made = FALSE
  BY <1>1, <1>2, <1>4
<2>3. \/ t.msgs = <<>>
      \/ el.guest # 0
         /\ \E url \in Addresses : t.msgs = <<Message("LoadUrl", el.guest, url)>>
  BY <1>1, <1>2, <2>1
<2>4. QED
  BY <1>1, <1>3, <1>4, <2>2, <2>3 DEF Parsed, p
<1>5. CASE Creates(e)
<2>1. t.made = TRUE /\ el.guest = 0 /\ el.first
<3>1. e.guest = 0 /\ e.first
  BY <1>5 DEF Creates
<3>2. QED
  BY <1>1, <1>2, <1>5, <3>1
<2>2. t.msgs = IF ~e.attached THEN Append(<<>>, Message("Destroy", g, NoUrl))
               ELSE IF e.plugin /\ e.bound # g
               THEN Append(<<>>, Message("Attach", g, e.attr)) ELSE <<>>
  BY <1>1, <1>5 DEF ParsedMessages
<2>3. CASE ~attached
<3>1. t.msgs = <<Message("Destroy", g, NoUrl)>>
<4>1. ~e.attached
  BY <1>1, <2>3
<4>2. t.msgs = Append(<<>>, Message("Destroy", g, NoUrl))
  BY <2>2, <4>1
<4> DEFINE w == Message("Destroy", g, NoUrl)
<4> HIDE DEF w, g
<4>3. Append(<<>>, w) = <<w>>
  OBVIOUS
<4>4. QED
  BY <4>2, <4>3 DEF w
<3>2. QED
  BY <1>1, <1>3, <1>5, <2>1, <2>3, <3>1 DEF Parsed, p
<2>4. CASE attached /\ ~el.plugin
<3>1. t.msgs = <<>>
  BY <1>1, <2>2, <2>4
<3>2. QED
  BY <1>1, <1>3, <1>5, <2>1, <2>4, <3>1 DEF Parsed, p
<2>5. CASE attached /\ el.plugin
<3>1. t.msgs = IF el.bound = g THEN <<>> ELSE <<Message("Attach", g, e.attr)>>
  BY <1>1, <2>2, <2>5
<3>2. \E url \in Addresses :
         t.msgs = IF el.bound = g THEN <<>> ELSE <<Message("Attach", g, url)>>
  BY <1>2, <3>1
<3>3. /\ t.el.attached = attached /\ t.el.plugin = el.plugin /\ t.el.held = el.held
      /\ t.el.first = FALSE /\ t.el.guest = g /\ t.el.bound = g
      /\ el.dying \subseteq t.el.dying
      /\ t.el.dying \subseteq el.dying \union ({el.bound} \ {0})
  BY <1>1, <1>3, <1>5, <2>5 DEF p
<3>4. QED
  BY <2>1, <2>5, <3>2, <3>3 DEF Parsed
<2>6. QED
  BY <2>3, <2>4, <2>5
<1>6. QED
  BY <1>4, <1>5

-----------------------------------------------------------------------------
(* Types. *)

\* The histories stay sound in every step of the browser.
LEMMA GuestsStaySound ==
  ASSUME TypeInv, NEW c \in BrowserStates, BrowserStep(c), NEW g \in Ids
  PROVE  NavSound(c.guests[g])
<1>0. /\ Browser.guests = guests /\ Browser \in BrowserStates
      /\ Browser.registered = registered /\ registered \subseteq Ids
      /\ \A h \in Ids : NavSound(guests[h]) /\ guests[h] \in Guest
  BY BrowserFields DEF TypeInv, TypeOK
<1>1. ASSUME NEW h \in Ids, BusyStep(c, h) \/ Asks(c, h) \/ Breaks(c, h)
      PROVE  NavSound(c.guests[g])
  BY <1>0, <1>1 DEF BusyStep, Asks, Breaks, GoesOn, Others
<1>2. CASE up # <<>> /\ Handled(Browser, c, Head(up))
<2> DEFINE m == Head(up)
           h == m.guest
<2>1. CASE c = Browser \/ c.guests = guests
  BY <1>0, <2>1
<2>2. CASE h \in registered /\ Joins(Browser, c, h)
<3>1. h \in Ids /\ c.guests[h] = [guests[h] EXCEPT !.attached = TRUE]
      /\ (g # h => c.guests[g] = guests[g])
  BY <1>0, <2>2 DEF Joins
<3> HIDE DEF h
<3>2. /\ c.guests[h].entries = guests[h].entries
      /\ c.guests[h].pending = guests[h].pending
      /\ c.guests[h].index = guests[h].index
  BY <1>0, <3>1 DEF Guest
<3>3. NavSound(c.guests[h])
<4>1. NavSound(guests[h])
  BY <1>0, <3>1
<4>2. QED
  BY <3>2, <4>1 DEF NavSound
<3>4. QED
  BY <1>0, <3>1, <3>3
<2>3. CASE h \in registered /\ Dies(Browser, c, h)
<3>1. h \in Ids
  BY <1>0, <2>3
<3>2. QED
  BY <1>0, <2>3, <3>1 DEF Dies, Others
<2>4. CASE h \in registered /\ Answered(Browser, c, h, m.arg)
<3>1. h \in Ids
  BY <1>0, <2>4
<3> HIDE DEF h
<3>2. NavSound(c.guests[h])
<4>1. NavSound(guests[h])
  BY <1>0, <3>1
<4>2. QED
  BY <1>0, <2>4, <4>1 DEF Answered, NavSound
<3>3. QED
  BY <1>0, <2>4, <3>1, <3>2 DEF Answered
<2>5. CASE h \in registered /\ GoesOn(Browser, c, h)
<3>1. h \in Ids
  BY <1>0, <2>5
<3>2. QED
  BY <1>0, <2>5, <3>1 DEF GoesOn, Others
<2>6. QED
  BY <1>0, <1>2, <2>1, <2>2, <2>3, <2>4, <2>5 DEF Handled
<1>3. CASE Leaves(c)
  BY <1>0, <1>3 DEF Leaves
<1>4. QED
  BY <1>1, <1>2, <1>3 DEF BrowserStep

\* Every step of the browser keeps the types.
LEMMA BrowserKeepsTypes ==
  ASSUME TypeInv, NEW c \in BrowserStates, BrowserStep(c), acts' \in 0..MaxActs,
         UNCHANGED <<el, turns, careless>>
  PROVE  TypeInv'
<1>1. /\ guests' = c.guests /\ registered' = c.registered
      /\ zoomMap' = c.zoomMap /\ crashed' = c.crashed
      /\ misanswered' = c.misanswered /\ down' = c.down
      /\ lastId' = lastId
  BY DEF BrowserStep, Becomes
<1>2. /\ guests' \in [Ids -> Guest] /\ registered' \subseteq Ids
      /\ zoomMap' \in [Urls -> Zooms] /\ crashed' \in {"no", "dead", "unattached"}
      /\ misanswered' \in BOOLEAN /\ down' \in Seq(DownSet)
  BY <1>1 DEF BrowserStates
<1>3. /\ lastDialog' \in 0..MaxDialogs /\ embedder' \in {"open", "gone"}
<2>1. lastDialog \in 0..MaxDialogs /\ embedder \in {"open", "gone"} /\ MaxDialogs \in Nat
  BY WebViewAssumption DEF TypeInv, TypeOK
<2>2. QED
  BY <2>1 DEF BrowserStep
<1>4. up' \in Seq(UpSet)
<2>1. up \in Seq(UpSet)
  BY DEF TypeInv
<2>2. up # <<>> => Tail(up) \in Seq(UpSet)
  BY <2>1
<2>3. QED
  BY <2>1, <2>2 DEF BrowserStep
<1>5. \A g \in Ids : NavSound(guests'[g])
  BY <1>1, GuestsStaySound
<1>6. TypeOK'
  BY <1>1, <1>2, <1>3 DEF TypeInv, TypeOK
<1>7. QED
  BY <1>2, <1>4, <1>5, <1>6 DEF TypeInv, NavSound

\* A new guest is alive, and has neither a window nor a history.
LEMMA NewGuestFields ==
  ASSUME NEW zoom \in Zooms
  PROVE  LET u == NewGuest(zoom) IN
         /\ u \in Guest /\ NavSound(u) /\ u.state = "live" /\ u.attached = FALSE
         /\ u.crashes = FALSE /\ u.entries = <<>> /\ u.pending = None
         /\ u.asking = 0 /\ u.callback = 0
<1> DEFINE u == NewGuest(zoom)
<1>1. <<>> \in Seq(Urls) /\ 0 \in Nat
  OBVIOUS
<1>2. u \in Guest
  BY <1>1, NoneIsPending DEF NewGuest, Guest
<1>3. /\ u.state = "live" /\ u.attached = FALSE
      /\ u.crashes = FALSE /\ u.entries = <<>> /\ u.pending = None
      /\ u.asking = 0 /\ u.callback = 0 /\ u.index = 0
  BY DEF NewGuest
<1>4. NavSound(u)
  BY <1>3 DEF NavSound
<1>5. QED
  BY <1>2, <1>3, <1>4

\* It gets an id that nobody has had.
LEMMA GuestCreated ==
  ASSUME TypeInv, lastId < MaxGuests, CreateWebViewGuest(lastId + 1)
  PROVE  /\ lastId + 1 \in Ids /\ registered' = registered \union {lastId + 1}
         /\ guests' \in [Ids -> Guest]
         /\ \A h \in Ids : h # lastId + 1 => guests'[h] = guests[h]
         /\ LET u == guests'[lastId + 1] IN
            /\ NavSound(u) /\ u.state = "live" /\ u.attached = FALSE
            /\ u.crashes = FALSE /\ u.entries = <<>> /\ u.pending = None
            /\ u.asking = 0 /\ u.callback = 0
<1> DEFINE g == lastId + 1
<1>1. guests \in [Ids -> Guest] /\ lastId \in 0..MaxGuests /\ MaxGuests \in Nat
  BY WebViewAssumption DEF TypeInv, TypeOK
<1>2. g \in Ids
  BY <1>1 DEF Ids
<1>3. PICK zoom \in Zooms :
        /\ guests' = [guests EXCEPT ![g] = NewGuest(zoom)]
        /\ registered' = AddGuest(registered, g)
  BY DEF CreateWebViewGuest
<1> HIDE DEF g
<1>4. LET u == NewGuest(zoom) IN
         /\ u \in Guest /\ NavSound(u) /\ u.state = "live" /\ u.attached = FALSE
         /\ u.crashes = FALSE /\ u.entries = <<>> /\ u.pending = None
         /\ u.asking = 0 /\ u.callback = 0
  BY NewGuestFields
<1>5. guests'[g] = NewGuest(zoom) /\ guests' \in [Ids -> Guest]
      /\ \A h \in Ids : h # g => guests'[h] = guests[h]
  BY <1>1, <1>2, <1>3, <1>4
<1>6. QED
  BY <1>2, <1>3, <1>4, <1>5 DEF g, AddGuest

\* The ids an element knows are those of guests made.
LEMMA ElementStaysElement ==
  ASSUME TypeInv, NEW t, RendererStep(t)
  PROVE  t.el \in Element
<1> DEFINE d == el.dying \union ({el.bound} \ {0})
<1>0. t.el \in AnyElement /\ el \in Element /\ d \subseteq Ids
  BY DyingFits DEF RendererStep, Sound, Turns, TypeInv, TypeOK
<1>1. /\ el.guest \in Ids \union {0} /\ el.bound \in Ids \union {0}
      /\ el.dying \subseteq Ids /\ el.attached \in BOOLEAN
  BY <1>0 DEF Element
<1> HIDE DEF d
<1>2. t.made => lastId + 1 \in Ids
<2>1. lastId \in 0..MaxGuests /\ MaxGuests \in Nat
  BY WebViewAssumption DEF TypeInv, TypeOK
<2>2. QED
  BY <2>1 DEF RendererStep, Ids
<1>3. SUFFICES /\ t.el.guest \in Ids \union {0} /\ t.el.bound \in Ids \union {0}
               /\ t.el.dying \subseteq Ids
  BY <1>0 DEF AnyElement, Element, Addresses
<1>4. ASSUME NEW a \in BOOLEAN, Parses(t, a)
      PROVE  /\ t.el.guest \in Ids \union {0} /\ t.el.bound \in Ids \union {0}
             /\ t.el.dying \subseteq Ids
<2>1. Parsed(t, a)
  BY <1>4, ParsesFields
<2>2. QED
  BY <1>0, <1>1, <1>2, <2>1 DEF Parsed, d
<1>5. CASE LeavesDocument(t) \/ Disappears(t)
  BY <1>0, <1>1, <1>5 DEF LeavesDocument, Disappears, LosesPlugin, d
<1>6. CASE Says(t) \/ AnswersOne(t) \/ HearsDialog(t)
  BY <1>1, <1>6 DEF Says, AnswersOne, HearsDialog, Stays
<1>7. CASE GetsPlugin(t)
  BY <1>1, <1>7 DEF GetsPlugin
<1>8. CASE BindsGuest(t)
  BY <1>0, <1>1, <1>8 DEF BindsGuest, d
<1>9. CASE BuriesOne(t)
  BY <1>1, <1>9 DEF BuriesOne
<1>10. CASE Founds(t)
  BY <1>0, <1>1, <1>2, <1>10 DEF Founds, d
<1>11. QED
  BY <1>1, <1>4, <1>5, <1>6, <1>7, <1>8, <1>9, <1>10 DEF RendererStep, Does

\* Every step of the renderer keeps the types.
LEMMA RendererKeepsTypes ==
  ASSUME TypeInv, NEW t, RendererStep(t), turns' \in 0..MaxTurns
  PROVE  TypeInv'
<1>0. /\ TypeOK /\ up \in Seq(UpSet) /\ down \in Seq(DownSet)
      /\ careless \in BOOLEAN /\ \A g \in Ids : NavSound(guests[g])
  BY DEF TypeInv, TypeOK
<1>1. /\ t \in Turns /\ t.el.ignore = FALSE /\ el' = t.el /\ up' = up \o t.msgs
      /\ UNCHANGED <<lastDialog, acts, zoomMap, embedder, crashed, misanswered>>
  BY DEF RendererStep, Sound
<1>2. el' \in Element
  BY <1>1, ElementStaysElement
<1>3. up' \in Seq(UpSet)
<2>1. t.msgs \in Seq(UpSet)
  BY <1>1 DEF Turns
<2>2. QED
  BY <1>0, <1>1, <2>1
<1>4. down' \in Seq(DownSet) /\ careless' \in BOOLEAN
<2>1. down # <<>> => Tail(down) \in Seq(DownSet)
  BY <1>0
<2>2. QED
  BY <1>0, <2>1 DEF RendererStep, Does
<1>5. /\ guests' \in [Ids -> Guest] /\ registered' \subseteq Ids
      /\ lastId' \in 0..MaxGuests /\ \A g \in Ids : NavSound(guests'[g])
<2>1. lastId \in 0..MaxGuests /\ MaxGuests \in Nat
  BY <1>0, WebViewAssumption DEF TypeOK
<2>2. CASE t.made
<3>1. lastId < MaxGuests /\ lastId' = lastId + 1 /\ CreateWebViewGuest(lastId + 1)
  BY <2>2 DEF RendererStep
<3>2. /\ lastId + 1 \in Ids /\ registered' = registered \union {lastId + 1}
      /\ guests' \in [Ids -> Guest]
      /\ \A h \in Ids : h # lastId + 1 => guests'[h] = guests[h]
      /\ NavSound(guests'[lastId + 1])
  BY <3>1, GuestCreated
<3>3. QED
  BY <1>0, <2>1, <3>1, <3>2 DEF TypeOK
<2>3. CASE ~t.made
<3>1. guests' = guests /\ registered' = registered /\ lastId' = lastId
  BY <2>3 DEF RendererStep
<3>2. QED
  BY <1>0, <2>1, <3>1 DEF TypeOK
<2>4. QED
  BY <2>2, <2>3
<1>6. TypeOK'
  BY <1>0, <1>1, <1>2, <1>4, <1>5 DEF TypeOK
<1>7. QED
  BY <1>1, <1>3, <1>4, <1>5, <1>6 DEF TypeInv, NavSound

-----------------------------------------------------------------------------
(* Every step keeps the types. *)

\* The two kinds of steps there are.
LEMMA EveryStep ==
  ASSUME TypeInv, Next
  PROVE  /\ TypeInv'
         /\ \/ /\ \E c \in BrowserStates : BrowserStep(c)
               /\ UNCHANGED <<el, turns, careless>>
            \/ \E t : RendererStep(t)
<1>1. CASE GuestStep /\ UNCHANGED <<el, turns, careless>>
<2>1. PICK c \in BrowserStates : BrowserStep(c)
  BY <1>1, BrowserSteps
<2>2. acts' \in 0..MaxActs
  BY <1>1, BrowserSteps
<2>3. TypeInv'
  BY <1>1, <2>1, <2>2, BrowserKeepsTypes
<2>4. QED
  BY <1>1, <2>1, <2>3
<1>2. CASE PageStep \/ HandleEvent \/ PluginLoads \/ TimerFires \/ PluginDies
<2>1. PICK t : RendererStep(t) /\ turns' \in 0..MaxTurns
  BY <1>2, RendererSteps
<2>2. TypeInv'
  BY <2>1, RendererKeepsTypes
<2>3. QED
  BY <2>1, <2>2
<1>3. QED
  BY <1>1, <1>2 DEF Next

\* A guest that was never made is none.
LEMMA NoGuestFields ==
  /\ NoGuest \in Guest /\ NavSound(NoGuest)
  /\ NoGuest.state = "none" /\ NoGuest.attached = FALSE /\ NoGuest.crashes = FALSE
  /\ NoGuest.entries = <<>> /\ NoGuest.pending = None
  /\ NoGuest.asking = 0 /\ NoGuest.callback = 0
<1> DEFINE n == NewGuest(DefaultZoom)
<1>1. /\ n \in Guest /\ NavSound(n) /\ n.attached = FALSE
      /\ n.crashes = FALSE /\ n.entries = <<>> /\ n.pending = None
      /\ n.asking = 0 /\ n.callback = 0
  BY NewGuestFields, WebViewAssumption
<1>2. NoGuest = [n EXCEPT !.state = "none"]
  BY DEF NoGuest
<1> HIDE DEF n
<1>3. /\ NoGuest \in Guest /\ NoGuest.state = "none"
      /\ NoGuest.attached = n.attached /\ NoGuest.crashes = n.crashes
      /\ NoGuest.entries = n.entries /\ NoGuest.pending = n.pending
      /\ NoGuest.index = n.index
      /\ NoGuest.asking = n.asking /\ NoGuest.callback = n.callback
  BY <1>1, <1>2 DEF Guest
<1>4. NavSound(NoGuest)
  BY <1>1, <1>3 DEF NavSound
<1>5. QED
  BY <1>1, <1>3, <1>4

\* The types hold at first,
LEMMA InitTypes ==
  ASSUME Init
  PROVE  TypeInv
<1>1. /\ guests = [g \in Ids |-> NoGuest] /\ registered = {}
      /\ lastId = 0 /\ lastDialog = 0 /\ acts = 0
      /\ zoomMap = [u \in Urls |-> DefaultZoom] /\ embedder = "open"
      /\ crashed = "no" /\ misanswered = FALSE /\ up = <<>> /\ down = <<>>
      /\ turns = 0 /\ careless = FALSE
  BY DEF Init, GuestInit
<1>2. PICK url \in Addresses : el = NewElement(url)
  BY DEF Init, Addresses
<1>3. el \in Element /\ el.ignore = FALSE
  BY <1>2, WebViewAssumption DEF NewElement, Element, Addresses
<1>4. /\ guests \in [Ids -> Guest] /\ \A g \in Ids : NavSound(guests[g])
  BY <1>1, NoGuestFields
<1>5. <<>> \in Seq(UpSet) /\ <<>> \in Seq(DownSet)
  OBVIOUS
<1>6. TypeOK
<2>1. zoomMap \in [Urls -> Zooms]
  BY <1>1, WebViewAssumption
<2>2. /\ lastId \in 0..MaxGuests /\ lastDialog \in 0..MaxDialogs
      /\ acts \in 0..MaxActs /\ turns \in 0..MaxTurns
  BY <1>1, WebViewAssumption, ElementAssumption
<2>3. QED
  BY <1>1, <1>3, <1>4, <2>1, <2>2 DEF TypeOK
<1>7. QED
  BY <1>1, <1>3, <1>4, <1>5, <1>6 DEF TypeInv

\* and when nothing happens.
LEMMA StutterTypes ==
  ASSUME TypeInv, UNCHANGED vars
  PROVE  TypeInv'
  BY DEF TypeInv, TypeOK, NavSound, vars, guestVars

\* Every variable keeps to its set in every state: the queues hold messages and
\* events that fit their kinds, each history has its entry in range, and the
\* flag that silences one change of src is down whenever no callback runs.
THEOREM TypesHold == Spec => []TypeInv
<1>1. Init => TypeInv
  BY InitTypes
<1>2. TypeInv /\ [Next]_vars => TypeInv'
  BY EveryStep, StutterTypes
<1>3. QED
  BY <1>1, <1>2, PTL DEF Spec

-----------------------------------------------------------------------------
(* Guests are accounted for. *)

\* The elements of two sequences put together.
LEMMA JoinedList ==
  ASSUME NEW S, NEW a \in Seq(S), NEW b \in Seq(S)
  PROVE  LET s == a \o b IN
         /\ s \in Seq(S) /\ Len(s) = Len(a) + Len(b)
         /\ Len(a) \in Nat /\ Len(b) \in Nat
         /\ \A i \in 1..Len(s) : \/ i \in 1..Len(a) /\ s[i] = a[i]
                                 \/ /\ i > Len(a) /\ i - Len(a) \in 1..Len(b)
                                    /\ s[i] = b[i - Len(a)]
         /\ \A i \in 1..Len(a) : i \in 1..Len(s) /\ s[i] = a[i]
         /\ \A j \in 1..Len(b) : Len(a) + j \in 1..Len(s) /\ s[Len(a) + j] = b[j]
<1> DEFINE s == a \o b
<1>1. /\ s \in Seq(S) /\ Len(s) = Len(a) + Len(b) /\ Len(a) \in Nat /\ Len(b) \in Nat
      /\ \A i \in 1..Len(a) + Len(b) :
           s[i] = IF i <= Len(a) THEN a[i] ELSE b[i - Len(a)]
  BY ConcatProperties
<1> HIDE DEF s
<1>2. \A i \in 1..Len(s) : \/ i \in 1..Len(a) /\ s[i] = a[i]
                           \/ /\ i > Len(a) /\ i - Len(a) \in 1..Len(b)
                              /\ s[i] = b[i - Len(a)]
  BY <1>1
<1>3. \A i \in 1..Len(a) : i \in 1..Len(s) /\ s[i] = a[i]
  BY <1>1
<1>4. ASSUME NEW j \in 1..Len(b)
      PROVE  Len(a) + j \in 1..Len(s) /\ s[Len(a) + j] = b[j]
<2>1. Len(a) + j \in 1..Len(s) /\ ~(Len(a) + j <= Len(a)) /\ (Len(a) + j) - Len(a) = j
  BY <1>1
<2>2. QED
  BY <1>1, <2>1
<1>5. QED
  BY <1>1, <1>2, <1>3, <1>4 DEF s

\* The registry knows the live guests; the ids in use were given out.
IdsInv ==
  /\ \A g \in Ids : g \in registered <=> guests[g].state = "live"
  /\ \A g \in Ids : g > lastId => /\ g \notin registered /\ ~guests[g].crashes
                                  /\ guests[g].callback = 0
                                  /\ guests[g].asking = 0
  /\ el.guest <= lastId /\ el.bound <= lastId
  /\ \A g \in el.dying : g <= lastId
  /\ \A i \in 1..Len(up) : up[i].guest \in 1..lastId

KillSent(g) == \E i \in 1..Len(up) : up[i].guest = g /\ Kills(up[i])

AccountInv ==
  Running => \A g \in registered : g = el.guest \/ g \in el.dying \/ KillSent(g)

\* What the steps of the browser do to the registry, to the crashes and to the
\* dialogs of guests.
LEMMA BrowserKeepsIds ==
  ASSUME TypeInv, IdsInv, NEW c \in BrowserStates, BrowserStep(c),
         UNCHANGED <<el, turns, careless>>
  PROVE  IdsInv' /\ registered' \subseteq registered
<1>0. /\ Browser.guests = guests /\ Browser \in BrowserStates
      /\ Browser.registered = registered /\ registered \subseteq Ids
      /\ up \in Seq(UpSet)
      /\ guests' = c.guests /\ registered' = c.registered /\ lastId' = lastId
      /\ el' = el /\ lastId \in Nat
  BY BrowserFields, ElementIsAny DEF TypeInv, TypeOK, BrowserStep, Becomes
\* The guests that are told apart from the others.
<1> DEFINE Ok == /\ \A g \in Ids : g \in c.registered <=> c.guests[g].state = "live"
                 /\ \A g \in Ids : g > lastId =>
                      /\ g \notin c.registered /\ ~c.guests[g].crashes
                      /\ c.guests[g].callback = 0 /\ c.guests[g].asking = 0
                 /\ c.registered \subseteq registered
<1>1. ASSUME NEW h \in Ids, h \in registered,
             \A g \in Ids : g # h => c.guests[g] = guests[g],
             \/ c.registered = registered /\ c.guests[h].state = "live"
             \/ c.registered = registered \ {h} /\ c.guests[h].state = "gone"
      PROVE  Ok
<2>1. h <= lastId
  BY <1>0, <1>1 DEF IdsInv, Ids
<2>2. QED
  BY <1>0, <1>1, <2>1, WebViewAssumption DEF IdsInv, Ids
<1>2. ASSUME NEW h \in Ids, BusyStep(c, h) \/ Asks(c, h) \/ Breaks(c, h)
      PROVE  Ok
<2>1. h \in registered
  BY <1>2 DEF IdsInv, BusyStep, Asks, Breaks
<2>2. QED
  BY <1>0, <1>1, <1>2, <2>1 DEF BusyStep, Asks, Breaks, GoesOn, Others
<1>3. ASSUME Handled(Browser, c, Head(up))
      PROVE  Ok
<2> DEFINE m == Head(up)
           h == m.guest
<2>1. CASE c = Browser \/ (c.guests = guests /\ c.registered = registered)
<3>1. c.guests = guests /\ c.registered = registered
  BY <1>0, <2>1
<3>2. QED
  BY <3>1 DEF IdsInv
<2>2. CASE h \in registered /\ (Joins(Browser, c, h) \/ Dies(Browser, c, h)
                                \/ Answered(Browser, c, h, m.arg) \/ GoesOn(Browser, c, h))
<3>1. h \in Ids /\ guests[h].state = "live" /\ guests[h] \in Guest
  BY <1>0, <2>2 DEF IdsInv, TypeInv, TypeOK
<3> HIDE DEF h, m
<3>2. Joins(Browser, c, h) => c.guests[h].state = "live"
  BY <1>0, <3>1 DEF Joins, Guest
<3>3. \A g \in Ids : g # h => c.guests[g] = guests[g]
  BY <1>0, <2>2 DEF Dies, Joins, Answered, GoesOn, Others
<3>4. \/ c.registered = registered /\ c.guests[h].state = "live"
      \/ c.registered = registered \ {h} /\ c.guests[h].state = "gone"
  BY <1>0, <2>2, <3>1, <3>2 DEF Dies, Joins, Answered, GoesOn
<3>5. h \in registered
  BY <1>0, <2>2
<3>6. QED
  BY <1>1, <3>1, <3>3, <3>4, <3>5
<2>3. QED
<3> HIDE DEF Ok
<3>1. QED
  BY <1>0, <1>3, <2>1, <2>2 DEF Handled
<1>4. ASSUME Leaves(c)
      PROVE  Ok
<2>1. CASE c = Browser
<3>1. c.guests = guests /\ c.registered = registered
  BY <1>0, <2>1
<3>2. QED
  BY <3>1 DEF IdsInv
<2>2. CASE c # Browser
<3>1. PICK g \in Ids :
          /\ g \in registered
          /\ c.registered = registered \ {g}
          /\ c.guests[g].state = "gone"
          /\ \A h \in Ids : h # g => c.guests[h] = guests[h]
  BY <1>4, <2>2 DEF Leaves
<3>2. QED
  BY <1>1, <3>1
<2>3. QED
  BY <2>1, <2>2
<1>5. Ok
<2> HIDE DEF Ok
<2>1. QED
  BY <1>2, <1>3, <1>4 DEF BrowserStep
<1>6. \A i \in 1..Len(up') : up'[i].guest \in 1..lastId'
<2>1. up # <<>> => \A i \in 1..Len(Tail(up)) : i + 1 \in 1..Len(up) /\ Tail(up)[i] = up[i + 1]
  BY <1>0, HeadFits
<2>2. up' = up \/ (up # <<>> /\ up' = Tail(up))
  BY DEF BrowserStep
<2>3. QED
  BY <1>0, <2>1, <2>2 DEF IdsInv
<1>7. QED
  BY <1>0, <1>5, <1>6 DEF IdsInv

\* A turn parses src, once or more often, or is one of the others.
OtherTurn(t) ==
  \/ LeavesDocument(t) \/ Disappears(t) \/ Says(t) \/ AnswersOne(t)
  \/ HearsDialog(t) \/ GetsPlugin(t) \/ BindsGuest(t) \/ BuriesOne(t)

\* What a turn does to the guest of the element, the plugin and the messages.
LEMMA TurnCases ==
  ASSUME TypeInv, NEW t, RendererStep(t)
  PROVE  \/ \E a \in BOOLEAN : Parsed(t, a)
         \/ Founds(t)
         \/ OtherTurn(t) /\ t.made = FALSE
<1>1. \A a \in BOOLEAN : Parses(t, a) => Parsed(t, a)
  BY ParsesFields
<1>2. el.attached \in BOOLEAN
  BY ElementIsAny DEF AnyElement
<1>3. OtherTurn(t) => t.made = FALSE
  BY DEF OtherTurn, LeavesDocument, Disappears, LosesPlugin, Says, AnswersOne,
         HearsDialog, GetsPlugin, BindsGuest, BuriesOne
<1>4. (\E a \in BOOLEAN : Parses(t, a)) \/ Founds(t) \/ OtherTurn(t)
  BY <1>2 DEF RendererStep, Does, OtherTurn
<1>5. QED
  BY <1>1, <1>3, <1>4

\* A sequence of one message.
LEMMA OneMessage ==
  ASSUME NEW t, NEW m, t.msgs = <<>> \/ t.msgs = <<m>>
  PROVE  \A i \in 1..Len(t.msgs) : i = 1 /\ t.msgs[i] = m /\ t.msgs = <<m>>
<1>1. CASE t.msgs = <<>>
  BY <1>1
<1>2. CASE t.msgs = <<m>>
  BY <1>2
<1>3. QED
  BY <1>1, <1>2

\* The ids in an element after a turn and in what it has sent.
LEMMA TurnIds ==
  ASSUME TypeInv, IdsInv, NEW t, RendererStep(t)
  PROVE  /\ t.el.guest <= lastId' /\ t.el.bound <= lastId'
         /\ \A g \in t.el.dying : g <= lastId'
         /\ \A i \in 1..Len(t.msgs) : t.msgs[i].guest \in 1..lastId'
         /\ lastId' = IF t.made THEN lastId + 1 ELSE lastId
<1>0. /\ lastId' = IF t.made THEN lastId + 1 ELSE lastId
      /\ lastId \in Nat /\ el.guest \in Nat /\ el.bound \in Nat /\ el.dying \subseteq Nat
      /\ el.dying \subseteq Ids
      /\ el.guest <= lastId /\ el.bound <= lastId /\ \A g \in el.dying : g <= lastId
<2>1. el \in AnyElement /\ lastId \in Nat /\ el \in Element
  BY ElementIsAny DEF TypeInv, TypeOK
<2>2. QED
  BY <2>1 DEF IdsInv, AnyElement, Element, RendererStep
<1>1. lastId' \in Nat /\ lastId <= lastId'
  BY <1>0
<1> DEFINE Named == /\ t.el.guest <= lastId' /\ t.el.bound <= lastId'
                    /\ \A g \in t.el.dying : g <= lastId'
           Sent == \A i \in 1..Len(t.msgs) : t.msgs[i].guest \in 1..lastId'
<1>2. ASSUME NEW a \in BOOLEAN, Parsed(t, a)
      PROVE  Named /\ Sent
<2> DEFINE g == lastId + 1
<2>1. t.made => g <= lastId' /\ g \in 1..lastId' /\ g \in Nat
  BY <1>0
<2>2. Named
<3>1. /\ t.el.guest = el.guest \/ (t.made /\ t.el.guest \in {0, g})
      /\ t.el.bound = el.bound \/ (t.made /\ t.el.bound = g)
      /\ t.el.dying \subseteq el.dying \union ({el.bound} \ {0})
  BY <1>2 DEF Parsed
<3> HIDE DEF g
<3>2. QED
  BY <1>0, <1>1, <2>1, <3>1
<2>3. PICK m : /\ t.msgs = <<>> \/ t.msgs = <<m>>
               /\ \/ t.msgs = <<>>
                  \/ m.guest = el.guest /\ el.guest # 0
                  \/ m.guest = g /\ t.made
<3>1. \/ t.msgs = <<>>
      \/ el.guest # 0 /\ \E url \in Addresses : t.msgs = <<Message("LoadUrl", el.guest, url)>>
      \/ t.made /\ t.msgs = <<Message("Destroy", g, NoUrl)>>
      \/ t.made /\ \E url \in Addresses : t.msgs = <<Message("Attach", g, url)>>
<4> HIDE DEF g
<4>1. QED
  BY <1>2 DEF Parsed, g
<3> HIDE DEF g
<3>2. \A kind, h, arg : Message(kind, h, arg).guest = h
  BY DEF Message
<3>3. QED
  BY <3>1, <3>2
<2>4. Sent
<3> HIDE DEF g
<3>1. QED
  BY <1>0, <1>1, <2>1, <2>3, OneMessage
<2>5. QED
  BY <2>2, <2>4
<1>3. ASSUME OtherTurn(t)
      PROVE  Named /\ Sent
<2>1. Named
<3>1. /\ t.el.guest \in {0, el.guest} /\ t.el.bound \in {0, el.bound, el.guest}
      /\ t.el.dying \subseteq el.dying \union ({el.bound} \ {0})
  BY <1>3 DEF OtherTurn, LeavesDocument, Disappears, LosesPlugin, Says, AnswersOne,
         HearsDialog, GetsPlugin, BindsGuest, BuriesOne, Stays
<3>2. QED
  BY <1>0, <1>1, <3>1
<2>2. CASE Says(t)
<3>1. \A i \in 1..Len(t.msgs) : t.msgs[i].guest = el.guest /\ el.guest # 0
  BY <2>2 DEF Says, ToItsGuest
<3>2. QED
  BY <1>0, <1>1, <2>1, <3>1
<2>3. CASE ~Says(t)
<3>1. \/ t.msgs = <<>>
      \/ el.guest # 0 /\ t.msgs = <<Message("Destroy", el.guest, NoUrl)>>
      \/ el.guest # 0 /\ \E d : t.msgs = <<Message("DialogClosed", el.guest, d)>>
      \/ el.guest # 0 /\ \E d : t.msgs = <<Message("Attach", el.guest, d)>>
      \/ \E g \in el.dying : t.msgs = <<Message("PluginDestroyed", g, NoUrl)>>
  BY <1>3, <2>3 DEF OtherTurn, LeavesDocument, Disappears, LosesPlugin, AnswersOne,
         HearsDialog, GetsPlugin, BindsGuest, BuriesOne, Tells
<3>2. \A kind, h, arg : Message(kind, h, arg).guest = h
  BY DEF Message
<3>3. \E m : /\ t.msgs = <<>> \/ t.msgs = <<m>>
             /\ \/ t.msgs = <<>>
                \/ m.guest = el.guest /\ el.guest # 0
                \/ m.guest \in el.dying
  BY <3>1, <3>2
<3>4. Sent
<4>1. el.dying \subseteq 1..lastId' /\ (el.guest # 0 => el.guest \in 1..lastId')
  BY <1>0, <1>1, WebViewAssumption DEF Ids
<4>2. QED
  BY <3>3, <4>1, OneMessage
<3>5. QED
  BY <2>1, <3>4
<2>4. QED
  BY <2>2, <2>3
<1>4. CASE Founds(t)
<2>1. t.made /\ lastId' = lastId + 1 /\ lastId + 1 \in 1..lastId'
  BY <1>0, <1>1, <1>4 DEF Founds
<2>2. Named
<3>1. /\ t.el.guest \in {0, lastId + 1} /\ t.el.bound \in {el.bound, lastId + 1}
      /\ t.el.dying \subseteq el.dying \union ({el.bound} \ {0})
  BY <1>4 DEF Founds
<3>2. QED
  BY <1>0, <1>1, <2>1, <3>1
<2>3. CASE \A i \in 1..Len(t.msgs) : t.msgs[i].guest = lastId + 1
  BY <2>1, <2>2, <2>3
<2>4. CASE t.msgs = <<Message("Destroy", lastId + 1, NoUrl)>>
<3> DEFINE m == Message("Destroy", lastId + 1, NoUrl)
<3>1. m.guest = lastId + 1
  BY DEF Message
<3> HIDE DEF m
<3>2. t.msgs = <<m>>
  BY <2>4 DEF m
<3>3. \A i \in 1..Len(t.msgs) : t.msgs[i] = m
  BY <3>2, OneMessage
<3>4. QED
  BY <2>1, <2>2, <3>1, <3>3
<2>5. QED
  BY <1>4, <2>3, <2>4 DEF Founds
<1>5. QED
  BY <1>0, <1>2, <1>3, <1>4, TurnCases

\* The renderer's steps keep the registry and the ids together.
LEMMA RendererKeepsIds ==
  ASSUME TypeInv, IdsInv, NEW t, RendererStep(t)
  PROVE  /\ IdsInv'
         /\ registered' = IF t.made THEN registered \union {lastId + 1} ELSE registered
         /\ \A g \in Ids : ~(t.made /\ g = lastId + 1) => guests'[g] = guests[g]
<1>0. /\ up \in Seq(UpSet) /\ t.msgs \in Seq(UpSet) /\ up' = up \o t.msgs /\ el' = t.el
      /\ lastId \in Nat
  BY ElementIsAny DEF TypeInv, RendererStep, Sound, Turns
<1>1. /\ t.el.guest <= lastId' /\ t.el.bound <= lastId'
      /\ \A g \in t.el.dying : g <= lastId'
      /\ \A i \in 1..Len(t.msgs) : t.msgs[i].guest \in 1..lastId'
      /\ lastId' = IF t.made THEN lastId + 1 ELSE lastId
  BY TurnIds
<1>2. \A i \in 1..Len(up') : up'[i].guest \in 1..lastId'
<2>1. \A i \in 1..Len(up') : \/ i \in 1..Len(up) /\ up'[i] = up[i]
                             \/ \E j \in 1..Len(t.msgs) : up'[i] = t.msgs[j]
  BY <1>0, JoinedList
<2>2. 1..lastId \subseteq 1..lastId'
  BY <1>0, <1>1
<2>3. QED
  BY <1>1, <2>1, <2>2 DEF IdsInv
<1> DEFINE Now == /\ registered' = IF t.made THEN registered \union {lastId + 1} ELSE registered
                  /\ \A g \in Ids : ~(t.made /\ g = lastId + 1) => guests'[g] = guests[g]
                  /\ \A g \in Ids : g \in registered' <=> guests'[g].state = "live"
                  /\ \A g \in Ids : g > lastId' => /\ g \notin registered' /\ ~guests'[g].crashes
                                  /\ guests'[g].callback = 0
                                  /\ guests'[g].asking = 0
<1>3. CASE t.made
<2>1. /\ lastId + 1 \in Ids /\ registered' = registered \union {lastId + 1}
      /\ \A h \in Ids : h # lastId + 1 => guests'[h] = guests[h]
      /\ guests'[lastId + 1].state = "live"
<3>1. lastId < MaxGuests /\ CreateWebViewGuest(lastId + 1)
  BY <1>3 DEF RendererStep
<3>2. QED
  BY <3>1, GuestCreated
<2>2. \A g \in Ids : g > lastId + 1 => g > lastId /\ g # lastId + 1
  BY <1>0, WebViewAssumption DEF Ids
<2>3. Now
  BY <1>1, <1>3, <2>1, <2>2 DEF IdsInv
<2>4. QED
  BY <1>0, <1>1, <1>2, <2>3 DEF IdsInv
<1>4. CASE ~t.made
<2>1. registered' = registered /\ guests' = guests /\ lastId' = lastId
  BY <1>4 DEF RendererStep
<2>2. Now
  BY <1>4, <2>1 DEF IdsInv
<2>3. QED
  BY <1>0, <1>1, <1>2, <2>2 DEF IdsInv
<1>5. QED
  BY <1>3, <1>4

-----------------------------------------------------------------------------
\* No step of the browser leaves a guest behind,
LEMMA BrowserKeepsAccounts ==
  ASSUME TypeInv, IdsInv, AccountInv, NEW c \in BrowserStates, BrowserStep(c),
         UNCHANGED <<el, turns, careless>>
  PROVE  AccountInv'
<1>0. /\ Browser.registered = registered /\ registered' = c.registered
      /\ registered' \subseteq registered /\ crashed' = c.crashed
      /\ up \in Seq(UpSet) /\ el' = el
  BY BrowserFields, BrowserKeepsIds DEF TypeInv, BrowserStep, Becomes
<1>1. SUFFICES ASSUME Running', NEW g \in registered', g # el.guest, g \notin el.dying
               PROVE  KillSent(g)'
  BY <1>0 DEF AccountInv
<1>2. g \in registered /\ Running
  BY <1>0 DEF BrowserStep
<1>3. PICK i \in 1..Len(up) : up[i].guest = g /\ Kills(up[i])
  BY <1>1, <1>2 DEF AccountInv, KillSent
<1>4. CASE up' = up
  BY <1>3, <1>4 DEF KillSent
<1>5. CASE up # <<>> /\ up' = Tail(up) /\ Handled(Browser, c, Head(up))
<2>1. /\ Head(up) = up[1] /\ Len(Tail(up)) = Len(up) - 1 /\ Len(up) \in Nat
      /\ \A j \in 1..Len(Tail(up)) : j + 1 \in 1..Len(up) /\ Tail(up)[j] = up[j + 1]
  BY <1>0, <1>5, HeadFits
<2>2. i # 1
<3>1. SUFFICES ASSUME i = 1 PROVE FALSE
  OBVIOUS
<3>2. Head(up).guest = g /\ Kills(Head(up))
  BY <1>3, <2>1, <3>1
<3>3. crashed' = "no" /\ c.registered # registered \ {g}
  BY <1>0, <1>1 DEF Running
<3>4. QED
  BY <1>0, <1>2, <1>5, <3>2, <3>3 DEF Handled, Dies, Kills
<2>3. i - 1 \in 1..Len(Tail(up)) /\ (i - 1) + 1 = i
  BY <2>1, <2>2
<2>4. Tail(up)[i - 1] = up[i]
  BY <2>1, <2>3
<2>5. QED
  BY <1>3, <1>5, <2>3, <2>4 DEF KillSent
<1>6. QED
  BY <1>1, <1>4, <1>5 DEF BrowserStep, Running

\* and none of the renderer.
LEMMA RendererKeepsAccounts ==
  ASSUME TypeInv, IdsInv, AccountInv, NEW t, RendererStep(t)
  PROVE  AccountInv'
<1>0. /\ up \in Seq(UpSet) /\ t.msgs \in Seq(UpSet) /\ up' = up \o t.msgs /\ el' = t.el
      /\ registered' = IF t.made THEN registered \union {lastId + 1} ELSE registered
      /\ registered \subseteq Ids /\ lastId \in Nat
  BY ElementIsAny, RendererKeepsIds
     DEF TypeInv, TypeOK, RendererStep, Sound, Turns
<1>1. SUFFICES ASSUME Running', NEW g \in registered',
                      g # t.el.guest, g \notin t.el.dying
               PROVE  KillSent(g)'
  BY <1>0 DEF AccountInv
<1>2. Running
  BY DEF RendererStep
<1>3. ASSUME KillSent(g) PROVE KillSent(g)'
<2>1. PICK i \in 1..Len(up) : up[i].guest = g /\ Kills(up[i])
  BY <1>3 DEF KillSent
<2>2. i \in 1..Len(up') /\ up'[i] = up[i]
  BY <1>0, JoinedList
<2>3. QED
  BY <2>1, <2>2 DEF KillSent
<1>4. ASSUME NEW kind \in {"Destroy", "PluginDestroyed"}, NEW arg,
             t.msgs = <<Message(kind, g, arg)>>
      PROVE  KillSent(g)'
<2>1. 1 \in 1..Len(t.msgs) /\ t.msgs[1] = Message(kind, g, arg)
  BY <1>4
<2>2. Len(up) + 1 \in 1..Len(up') /\ up'[Len(up) + 1] = t.msgs[1]
  BY <1>0, <2>1, JoinedList
<2>3. t.msgs[1].guest = g /\ Kills(t.msgs[1])
  BY <2>1 DEF Message, Kills
<2>4. QED
  BY <2>2, <2>3 DEF KillSent
<1>5. CASE \E a \in BOOLEAN : Parsed(t, a)
<2>1. PICK a \in BOOLEAN : Parsed(t, a)
  BY <1>5
<2>2. el.dying \subseteq t.el.dying
  BY <2>1 DEF Parsed
<2>3. CASE t.made = FALSE
<3>1. g \in registered /\ g # el.guest
  BY <1>0, <1>1, <2>1, <2>3 DEF Parsed
<3>2. QED
  BY <1>1, <1>2, <1>3, <2>2, <3>1 DEF AccountInv
<2>4. CASE t.made = TRUE
<3>1. CASE g = lastId + 1
<4>1. t.msgs = <<Message("Destroy", g, NoUrl)>>
  BY <1>1, <2>1, <2>4, <3>1 DEF Parsed
<4>2. QED
  BY <1>4, <4>1
<3>2. CASE g # lastId + 1
<4>1. g \in registered /\ el.guest = 0 /\ g # 0
  BY <1>0, <2>1, <2>4, <3>2, WebViewAssumption DEF Parsed, Ids
<4>2. QED
  BY <1>1, <1>2, <1>3, <2>2, <4>1 DEF AccountInv
<3>3. QED
  BY <3>1, <3>2
<2>5. QED
  BY <2>1, <2>3, <2>4 DEF Parsed
<1>6. CASE OtherTurn(t) /\ t.made = FALSE
<2>1. g \in registered /\ g # 0
  BY <1>0, <1>6, WebViewAssumption DEF Ids
<2>2. CASE g = el.guest
<3>1. t.msgs = <<Message("Destroy", g, NoUrl)>>
  BY <1>1, <1>6, <2>1, <2>2 DEF OtherTurn, LeavesDocument, Disappears, Says,
     AnswersOne, HearsDialog, GetsPlugin, BindsGuest, BuriesOne, Stays
<3>2. QED
  BY <1>4, <3>1
<2>3. CASE g \in el.dying
<3>1. t.msgs = <<Message("PluginDestroyed", g, NoUrl)>>
  BY <1>1, <1>6, <2>1, <2>3 DEF OtherTurn, LeavesDocument, Disappears, LosesPlugin,
     Says, AnswersOne, HearsDialog, GetsPlugin, BindsGuest, BuriesOne, Stays
<3>2. QED
  BY <1>4, <3>1
<2>4. QED
  BY <1>2, <1>3, <2>1, <2>2, <2>3 DEF AccountInv
<1>7. CASE Founds(t)
<2>1. /\ el.dying \subseteq t.el.dying /\ el.guest = 0
      /\ registered' = registered \union {lastId + 1}
      /\ g # lastId + 1 \/ t.msgs = <<Message("Destroy", g, NoUrl)>>
  BY <1>0, <1>1, <1>7 DEF Founds
<2>2. CASE g = lastId + 1
  BY <1>4, <2>1, <2>2
<2>3. CASE g # lastId + 1
<3>1. g \in registered /\ g # 0
  BY <1>0, <2>1, <2>3, WebViewAssumption DEF Ids
<3>2. QED
  BY <1>1, <1>2, <1>3, <2>1, <3>1 DEF AccountInv
<2>4. QED
  BY <2>2, <2>3
<1>8. QED
  BY <1>5, <1>6, <1>7, TurnCases

\* The registry, the ids in use and who destroys each guest.
BookInv == TypeInv /\ IdsInv /\ AccountInv

\* The books are right at first,
LEMMA InitBooks ==
  ASSUME Init
  PROVE  BookInv
<1>1. /\ guests = [g \in Ids |-> NoGuest] /\ registered = {} /\ lastId = 0 /\ up = <<>>
  BY DEF Init, GuestInit
<1>2. el.guest = 0 /\ el.bound = 0 /\ el.dying = {}
  BY DEF Init, NewElement
<1>3. IdsInv
  BY <1>1, <1>2, NoGuestFields DEF IdsInv
<1>4. AccountInv
  BY <1>1 DEF AccountInv
<1>5. QED
  BY <1>3, <1>4, InitTypes DEF BookInv

\* and every step keeps them.
LEMMA NextBooks ==
  ASSUME BookInv, [Next]_vars
  PROVE  BookInv'
<1>1. CASE Next
<2>1. CASE \E c \in BrowserStates : BrowserStep(c) /\ UNCHANGED <<el, turns, careless>>
<3>1. PICK c \in BrowserStates : BrowserStep(c) /\ UNCHANGED <<el, turns, careless>>
  BY <2>1
<3>2. IdsInv' /\ AccountInv'
  BY <3>1, BrowserKeepsIds, BrowserKeepsAccounts DEF BookInv
<3>3. QED
  BY <1>1, <3>2, EveryStep DEF BookInv
<2>2. CASE \E t : RendererStep(t)
<3>1. PICK t : RendererStep(t)
  BY <2>2
<3>2. IdsInv' /\ AccountInv'
  BY <3>1, RendererKeepsIds, RendererKeepsAccounts DEF BookInv
<3>3. QED
  BY <1>1, <3>2, EveryStep DEF BookInv
<2>3. QED
  BY <1>1, <2>1, <2>2, EveryStep DEF BookInv
<1>2. CASE UNCHANGED vars
<2>1. TypeInv'
  BY <1>2, StutterTypes DEF BookInv
<2>2. IdsInv'
  BY <1>2 DEF BookInv, IdsInv, vars, guestVars
<2>3. AccountInv'
  BY <1>2 DEF BookInv, AccountInv, KillSent, Running, vars, guestVars
<2>4. QED
  BY <2>1, <2>2, <2>3 DEF BookInv
<1>3. QED
  BY <1>1, <1>2

\* The types, the registry and the accounts together.
LEMMA BooksHold == Spec => []BookInv
<1>1. Init => BookInv
  BY InitBooks
<1>2. BookInv /\ [Next]_vars => BookInv'
  BY NextBooks
<1>3. QED
  BY <1>1, <1>2, PTL DEF Spec

\* In every state in which the browser and the embedder are there, a guest that
\* is alive is the one its element names, or one a plugin is about to send the
\* end of, or the end of it is under way: nothing the page does with src, with
\* the document or with the box of the element leaves a process behind.
THEOREM GuestsAlwaysAccountedFor == Spec => []GuestsAccountedFor
<1>1. BookInv => GuestsAccountedFor
  BY DEF BookInv, IdsInv, AccountInv, GuestsAccountedFor, KillSent, Kills
<1>2. QED
  BY <1>1, BooksHold, PTL

-----------------------------------------------------------------------------
(* Dialogs are answered with their own answers. *)

\* What a dialog is on its way: an event, an entry of the element, an answer.
NoTokensIn(events, held, messages) ==
  /\ \A i \in 1..Len(events) : events[i].kind # "dialog"
  /\ held = {}
  /\ \A i \in 1..Len(messages) : messages[i].kind # "DialogClosed"

\* There is at most one such thing, and it is about dialog d.
TokensIn(d, events, held, messages) ==
  /\ \A i \in 1..Len(events) : events[i].kind = "dialog" =>
       /\ events[i].arg = d /\ held = {}
       /\ \A j \in 1..Len(events) : events[j].kind = "dialog" => i = j
       /\ \A j \in 1..Len(messages) : messages[j].kind # "DialogClosed"
  /\ held \subseteq {d}
  /\ \A i \in 1..Len(messages) : messages[i].kind = "DialogClosed" =>
       /\ messages[i].arg = d /\ held = {}
       /\ \A j \in 1..Len(messages) : messages[j].kind = "DialogClosed" => i = j

Tokens(d) == TokensIn(d, down, el.held, up)

DialogInv ==
  lastId <= 1 /\ (\A g \in Ids : ~guests[g].crashes) =>
    /\ ~misanswered
    /\ Running => /\ \A g \in Ids : guests[g].asking = guests[g].callback
                  /\ lastId = 0 => Tokens(0)
                  /\ \A g \in registered : Tokens(guests[g].callback)

\* No dialog on its way is none about d.
LEMMA NoTokensAreSound ==
  ASSUME NEW d, NEW s, NEW h, NEW m, NoTokensIn(s, h, m)
  PROVE  TokensIn(d, s, h, m)
  BY DEF NoTokensIn, TokensIn

\* No dialog has the number 0.
LEMMA ZeroIsNoDialog ==
  ASSUME NEW s \in Seq(DownSet), NEW h \in SUBSET Dialogs, NEW m \in Seq(UpSet),
         TokensIn(0, s, h, m)
  PROVE  NoTokensIn(s, h, m)
<1>0. 0 \notin Dialogs
  BY WebViewAssumption DEF Dialogs
<1>1. \A i \in 1..Len(s) : s[i].kind # "dialog"
<2>1. SUFFICES ASSUME NEW i \in 1..Len(s), s[i].kind = "dialog" PROVE FALSE
  OBVIOUS
<2>2. s[i] \in DownSet /\ s[i].arg = 0
  BY <2>1 DEF TokensIn
<2>3. QED
  BY <1>0, <2>1, <2>2 DEF DownSet, FitsEvent
<1>2. h = {}
  BY <1>0 DEF TokensIn
<1>3. \A i \in 1..Len(m) : m[i].kind # "DialogClosed"
<2>1. SUFFICES ASSUME NEW i \in 1..Len(m), m[i].kind = "DialogClosed" PROVE FALSE
  OBVIOUS
<2>2. m[i] \in UpSet /\ m[i].arg = 0
  BY <2>1 DEF TokensIn
<2>3. QED
  BY <1>0, <2>1, <2>2 DEF UpSet, Fits
<1>4. QED
  BY <1>1, <1>2, <1>3 DEF NoTokensIn

\* The one token of a dialog moves: events that are no dialogs make none,
LEMMA TokensLonger ==
  ASSUME NEW d, NEW s \in Seq(DownSet), NEW h, NEW m, NEW u,
         TokensIn(d, s, h, m), Longer(s, u)
  PROVE  TokensIn(d, u, h, m)
<1>1. u \in Seq(DownSet) /\ Len(s) \in Nat /\ Len(u) \in Nat /\ Len(s) <= Len(u)
  BY DEF Longer
<1>2. \A i \in 1..Len(u) : u[i].kind = "dialog" => i \in 1..Len(s) /\ u[i] = s[i]
<2>1. SUFFICES ASSUME NEW i \in 1..Len(u), u[i].kind = "dialog"
               PROVE  i \in 1..Len(s) /\ u[i] = s[i]
  OBVIOUS
<2>2. ~(i > Len(s))
  BY <2>1 DEF Longer
<2>3. i \in 1..Len(s)
  BY <1>1, <2>2
<2>4. QED
  BY <2>3 DEF Longer
<1>3. QED
  BY <1>2 DEF TokensIn

\* an event that is taken leaves the queue,
LEMMA TokensEventTaken ==
  ASSUME NEW d, NEW s \in Seq(DownSet), NEW h, NEW m, TokensIn(d, s, h, m), s # <<>>
  PROVE  /\ TokensIn(d, Tail(s), h, m)
         /\ Head(s).kind = "dialog" => Head(s).arg = d /\ NoTokensIn(Tail(s), h, m)
<1>1. /\ Head(s) = s[1] /\ Len(Tail(s)) = Len(s) - 1 /\ Len(s) \in Nat /\ Len(s) >= 1
      /\ \A i \in 1..Len(Tail(s)) : i + 1 \in 1..Len(s) /\ Tail(s)[i] = s[i + 1]
  BY HeadFits
<1>2. \A i, j \in 1..Len(Tail(s)) : i + 1 = j + 1 => i = j
  BY <1>1
<1>3. TokensIn(d, Tail(s), h, m)
  BY <1>1, <1>2 DEF TokensIn
<1>4. ASSUME Head(s).kind = "dialog"
      PROVE  Head(s).arg = d /\ NoTokensIn(Tail(s), h, m)
<2>1. 1 \in 1..Len(s) /\ s[1].kind = "dialog"
  BY <1>1, <1>4
<2>2. /\ s[1].arg = d /\ h = {}
      /\ \A j \in 1..Len(s) : s[j].kind = "dialog" => 1 = j
      /\ \A j \in 1..Len(m) : m[j].kind # "DialogClosed"
  BY <2>1 DEF TokensIn
<2>3. \A i \in 1..Len(Tail(s)) : i + 1 # 1
  BY <1>1
<2>4. QED
  BY <1>1, <2>2, <2>3 DEF NoTokensIn
<1>5. QED
  BY <1>3, <1>4

\* a message that is taken leaves it,
LEMMA TokensMessageTaken ==
  ASSUME NEW d, NEW s, NEW h, NEW m \in Seq(UpSet), TokensIn(d, s, h, m), m # <<>>
  PROVE  /\ TokensIn(d, s, h, Tail(m))
         /\ Head(m).kind = "DialogClosed"
              => Head(m).arg = d /\ NoTokensIn(s, h, Tail(m))
<1>1. /\ Head(m) = m[1] /\ Len(Tail(m)) = Len(m) - 1 /\ Len(m) \in Nat /\ Len(m) >= 1
      /\ \A i \in 1..Len(Tail(m)) : i + 1 \in 1..Len(m) /\ Tail(m)[i] = m[i + 1]
  BY HeadFits
<1>2. \A i, j \in 1..Len(Tail(m)) : i + 1 = j + 1 => i = j
  BY <1>1
<1>3. TokensIn(d, s, h, Tail(m))
  BY <1>1, <1>2 DEF TokensIn
<1>4. ASSUME Head(m).kind = "DialogClosed"
      PROVE  Head(m).arg = d /\ NoTokensIn(s, h, Tail(m))
<2>1. 1 \in 1..Len(m) /\ m[1].kind = "DialogClosed"
  BY <1>1, <1>4
<2>2. /\ m[1].arg = d /\ h = {}
      /\ \A j \in 1..Len(m) : m[j].kind = "DialogClosed" => 1 = j
      /\ \A j \in 1..Len(s) : s[j].kind # "dialog"
  BY <2>1 DEF TokensIn
<2>3. \A i \in 1..Len(Tail(m)) : i + 1 # 1
  BY <1>1
<2>4. QED
  BY <1>1, <2>2, <2>3 DEF NoTokensIn
<1>5. QED
  BY <1>3, <1>4

\* messages that are no answers make none,
LEMMA TokensNothingTold ==
  ASSUME NEW d, NEW s, NEW h, NEW m \in Seq(UpSet), NEW a \in Seq(UpSet),
         TokensIn(d, s, h, m), NoAnswers(a)
  PROVE  TokensIn(d, s, h, m \o a)
<1> DEFINE u == m \o a
<1>1. \A i \in 1..Len(u) : u[i].kind = "DialogClosed" => i \in 1..Len(m) /\ u[i] = m[i]
<2>1. \A i \in 1..Len(u) : \/ i \in 1..Len(m) /\ u[i] = m[i]
                           \/ /\ i > Len(m) /\ i - Len(m) \in 1..Len(a)
                              /\ u[i] = a[i - Len(m)]
  BY JoinedList
<2> HIDE DEF u
<2>2. QED
  BY <2>1 DEF NoAnswers
<1> HIDE DEF u
<1>2. TokensIn(d, s, h, u)
  BY <1>1 DEF TokensIn
<1>3. QED
  BY <1>2 DEF u

\* Where there was none, one comes up.
LEMMA TokensAsked ==
  ASSUME NEW d, NEW s \in Seq(DownSet), NEW h, NEW m, NoTokensIn(s, h, m),
         NEW e \in DownSet, e.kind = "dialog", e.arg = d
  PROVE  TokensIn(d, Append(s, e), h, m)
<1> DEFINE u == Append(s, e)
<1>1. Len(u) = Len(s) + 1 /\ Len(s) \in Nat /\ u[Len(s) + 1] = e
      /\ \A i \in 1..Len(s) : u[i] = s[i]
  OBVIOUS
<1> HIDE DEF u
<1>2. \A i \in 1..Len(u) : u[i].kind = "dialog" => i = Len(s) + 1 /\ u[i] = e
<2>1. \A i \in 1..Len(u) : i \in 1..Len(s) \/ i = Len(s) + 1
  BY <1>1
<2>2. QED
  BY <1>1, <2>1 DEF NoTokensIn
<1>3. TokensIn(d, u, h, m)
  BY <1>2 DEF TokensIn, NoTokensIn
<1>4. QED
  BY <1>3 DEF u

\* an answer is one,
LEMMA TokensTold ==
  ASSUME NEW d, NEW s, NEW h, NEW m \in Seq(UpSet), NoTokensIn(s, h, m),
         NEW e \in UpSet, e.arg = d
  PROVE  TokensIn(d, s, h, m \o <<e>>)
<1> DEFINE u == m \o <<e>>
<1>1. \A i \in 1..Len(u) : \/ i \in 1..Len(m) /\ u[i] = m[i]
                           \/ i = Len(m) + 1 /\ u[i] = e
<2>1. <<e>> \in Seq(UpSet) /\ Len(<<e>>) = 1 /\ <<e>>[1] = e /\ Len(m) \in Nat
  OBVIOUS
<2>2. \A i \in 1..Len(u) : \/ i \in 1..Len(m) /\ u[i] = m[i]
                           \/ i - Len(m) \in 1..1 /\ u[i] = <<e>>[i - Len(m)]
  BY <2>1, JoinedList
<2>3. \A i \in 1..Len(u) : i - Len(m) \in 1..1 => i = Len(m) + 1 /\ i - Len(m) = 1
  BY <2>1
<2>4. QED
  BY <2>1, <2>2, <2>3
<1> HIDE DEF u
<1>2. TokensIn(d, s, h, u)
  BY <1>1 DEF TokensIn, NoTokensIn
<1>3. QED
  BY <1>2 DEF u

\* a dialog that is held is one,
LEMMA TokensKept ==
  ASSUME NEW d, NEW s, NEW h, NEW m, NoTokensIn(s, h, m)
  PROVE  TokensIn(d, s, h \union {d}, m)
  BY DEF TokensIn, NoTokensIn

\* and one that is no longer held is none.
LEMMA TokensReleased ==
  ASSUME NEW d, NEW s, NEW h, NEW m, TokensIn(d, s, h, m), NEW x \in h
  PROVE  x = d /\ NoTokensIn(s, h \ {x}, m)
  BY DEF TokensIn, NoTokensIn

\* So each turn of the renderer hands the token on, or drops it.
LEMMA TurnKeepsTokens ==
  ASSUME TypeInv, NEW t, RendererStep(t), NEW d, Tokens(d)
  PROVE  Tokens(d)'
<1>0. /\ up \in Seq(UpSet) /\ t.msgs \in Seq(UpSet) /\ up' = up \o t.msgs
      /\ el' = t.el /\ down \in Seq(DownSet)
  BY DEF TypeInv, RendererStep, Sound, Turns
<1>1. SUFFICES TokensIn(d, down', t.el.held, up \o t.msgs)
  BY <1>0 DEF Tokens
<1>2. /\ TokensIn(d, down, el.held, up)
      /\ down # <<>> => TokensIn(d, Tail(down), el.held, up)
  BY <1>0, TokensEventTaken DEF Tokens
<1>3. ASSUME down' = down \/ (down # <<>> /\ down' = Tail(down)),
             t.el.held = el.held, NoAnswers(t.msgs)
      PROVE  TokensIn(d, down', t.el.held, up \o t.msgs)
<2>1. TokensIn(d, down', el.held, up)
  BY <1>2, <1>3
<2>2. QED
  BY <1>0, <1>3, <2>1, TokensNothingTold
<1>4. ASSUME NEW m, t.msgs = <<>> \/ t.msgs = <<m>>, m.kind # "DialogClosed"
      PROVE  NoAnswers(t.msgs)
  BY <1>4, OneMessage DEF NoAnswers
<1>5. CASE \E a \in BOOLEAN : Parses(t, a) /\ down' = down
<2>1. PICK a \in BOOLEAN : Parsed(t, a) /\ down' = down
  BY <1>5, ParsesFields
<2>2. t.el.held = el.held
  BY <2>1 DEF Parsed
<2>3. \/ t.msgs = <<>>
      \/ \E kind \in {"LoadUrl", "Attach", "Destroy"} : \E g, arg :
           t.msgs = <<Message(kind, g, arg)>>
  BY <2>1 DEF Parsed
<2>4. \A kind \in {"LoadUrl", "Attach", "Destroy"} : \A g, arg :
        Message(kind, g, arg).kind # "DialogClosed"
  BY DEF Message
<2>5. NoAnswers(t.msgs)
<3>1. CASE t.msgs = <<>>
  BY <3>1 DEF NoAnswers
<3>2. CASE t.msgs # <<>>
  BY <1>4, <2>3, <2>4, <3>2
<3>3. QED
  BY <3>1, <3>2
<2>6. QED
  BY <1>3, <2>1, <2>2, <2>5
<1>6. CASE /\ down' = down
           /\ LeavesDocument(t) \/ Disappears(t) \/ GetsPlugin(t) \/ BindsGuest(t)
              \/ BuriesOne(t)
<2>1. t.el.held = el.held
  BY <1>6 DEF LeavesDocument, Disappears, LosesPlugin, GetsPlugin, BindsGuest, BuriesOne
<2>2. \/ t.msgs = <<>>
      \/ \E kind \in {"Destroy", "Attach", "PluginDestroyed"} : \E g, arg :
           t.msgs = <<Message(kind, g, arg)>>
  BY <1>6 DEF LeavesDocument, Disappears, LosesPlugin, GetsPlugin, BindsGuest, BuriesOne
<2>3. \A kind \in {"Destroy", "Attach", "PluginDestroyed"} : \A g, arg :
        Message(kind, g, arg).kind # "DialogClosed"
  BY DEF Message
<2>4. NoAnswers(t.msgs)
<3>1. CASE t.msgs = <<>>
  BY <3>1 DEF NoAnswers
<3>2. CASE t.msgs # <<>>
  BY <1>4, <2>2, <2>3, <3>2
<3>3. QED
  BY <3>1, <3>2
<2>5. QED
  BY <1>3, <1>6, <2>1, <2>4
<1>7. CASE Says(t) /\ (down' = down \/ (down # <<>> /\ down' = Tail(down)))
  BY <1>3, <1>7 DEF Says
\* An answer goes out, or there is nobody to send it to.
<1>8. ASSUME NEW s, NEW h, NoTokensIn(s, h, up), Tells(t, d)
      PROVE  TokensIn(d, s, h, up \o t.msgs)
<2>1. CASE el.guest = 0
<3>1. t.msgs = <<>> /\ up \o t.msgs = up
  BY <1>0, <1>8, <2>1 DEF Tells
<3>2. QED
  BY <1>8, <3>1, NoTokensAreSound
<2>2. CASE el.guest # 0
<3> DEFINE e == Message("DialogClosed", el.guest, d)
<3>1. t.msgs = <<e>>
  BY <1>8, <2>2 DEF Tells
<3>2. e.arg = d
  BY DEF Message
<3> HIDE DEF e
<3>3. e \in UpSet
  BY <1>0, <3>1
<3>4. QED
  BY <1>0, <1>8, <3>1, <3>2, <3>3, TokensTold
<2>3. QED
  BY <2>1, <2>2
<1>9. CASE AnswersOne(t) /\ down' = down
<2>1. PICK x \in el.held : t.el.held = el.held \ {x} /\ Tells(t, x)
  BY <1>9 DEF AnswersOne
<2>2. x = d /\ NoTokensIn(down, el.held \ {x}, up)
  BY <1>2, TokensReleased
<2>3. QED
  BY <1>8, <1>9, <2>1, <2>2
<1>10. CASE HearsDialog(t) /\ down' = Tail(down)
<2>1. Head(down).arg = d /\ NoTokensIn(Tail(down), el.held, up)
  BY <1>0, <1>2, <1>10, TokensEventTaken DEF HearsDialog
<2>2. CASE t.el.held = el.held \union {d} /\ t.msgs = <<>>
<3>1. TokensIn(d, Tail(down), el.held \union {d}, up)
  BY <2>1, TokensKept
<3>2. up \o t.msgs = up
  BY <1>0, <2>2
<3>3. QED
  BY <1>10, <2>2, <3>1, <3>2
<2>3. CASE t.el.held = el.held /\ Tells(t, d)
  BY <1>8, <1>10, <2>1, <2>3
<2>4. QED
  BY <1>10, <2>1, <2>2, <2>3 DEF HearsDialog
<1>11. el.attached \in BOOLEAN
  BY ElementIsAny DEF AnyElement
<1>12. CASE Founds(t) /\ down' = down
<2>1. t.el.held = el.held
  BY <1>12 DEF Founds
<2>2. NoAnswers(t.msgs)
<3>1. CASE \A i \in 1..Len(t.msgs) : t.msgs[i].kind \in {"Attach", "LoadUrl"}
  BY <3>1 DEF NoAnswers
<3>2. CASE t.msgs = <<Message("Destroy", lastId + 1, NoUrl)>>
<4>1. Message("Destroy", lastId + 1, NoUrl).kind # "DialogClosed"
  BY DEF Message
<4>2. QED
  BY <1>4, <3>2, <4>1
<3>3. QED
  BY <1>12, <3>1, <3>2 DEF Founds
<2>3. QED
  BY <1>3, <1>12, <2>1, <2>2
<1>13. QED
  BY <1>5, <1>6, <1>7, <1>9, <1>10, <1>11, <1>12 DEF RendererStep, Does

\* No guest forgets that its renderer has crashed.
LEMMA CrashesRemembered ==
  ASSUME BookInv, Next
  PROVE  /\ \A g \in Ids : guests[g].crashes => guests'[g].crashes
         /\ lastId <= lastId'
<1>0. /\ Browser.guests = guests /\ registered \subseteq Ids
      /\ Browser.registered = registered /\ lastId \in Nat
      /\ \A g \in Ids : guests[g] \in Guest
  BY BrowserFields, ElementIsAny DEF BookInv, TypeInv, TypeOK
<1>1. ASSUME NEW c \in BrowserStates, BrowserStep(c)
      PROVE  /\ \A g \in Ids : guests[g].crashes => guests'[g].crashes
             /\ lastId' = lastId
<2>1. guests' = c.guests /\ lastId' = lastId
  BY <1>1 DEF BrowserStep, Becomes
<2> SUFFICES ASSUME NEW g \in Ids, guests[g].crashes
             PROVE  c.guests[g].crashes
  BY <2>1
<2>2. ASSUME NEW h \in Ids, BusyStep(c, h) \/ Asks(c, h) \/ Breaks(c, h)
      PROVE  c.guests[g].crashes
  BY <1>0, <2>2 DEF BusyStep, Asks, Breaks, GoesOn, Others
<2>3. ASSUME Handled(Browser, c, Head(up))
      PROVE  c.guests[g].crashes
<3> DEFINE m == Head(up)
           h == m.guest
<3>1. CASE c = Browser \/ c.guests = guests
  BY <1>0, <3>1
<3>2. CASE h \in registered /\ (Joins(Browser, c, h) \/ Dies(Browser, c, h)
                                \/ Answered(Browser, c, h, m.arg) \/ GoesOn(Browser, c, h))
<4>1. h \in Ids
  BY <1>0, <3>2
<4> HIDE DEF h, m
<4>2. Joins(Browser, c, h) => c.guests[h].crashes = guests[h].crashes
  BY <1>0, <4>1 DEF Joins, Guest
<4>3. \A i \in Ids : i # h => c.guests[i] = guests[i]
  BY <1>0, <3>2 DEF Dies, Joins, Answered, GoesOn, Others
<4>4. c.guests[h].crashes = guests[h].crashes
  BY <1>0, <3>2, <4>2 DEF Dies, Answered, GoesOn
<4>5. QED
  BY <4>3, <4>4
<3>3. QED
  BY <1>0, <2>3, <3>1, <3>2 DEF Handled
<2>4. ASSUME Leaves(c)
      PROVE  c.guests[g].crashes
  BY <1>0, <2>4 DEF Leaves
<2>5. QED
  BY <1>1, <2>2, <2>3, <2>4 DEF BrowserStep
<1>2. ASSUME NEW t, RendererStep(t)
      PROVE  /\ \A g \in Ids : guests[g].crashes => guests'[g].crashes
             /\ lastId <= lastId'
<2>1. /\ \A g \in Ids : ~(t.made /\ g = lastId + 1) => guests'[g] = guests[g]
      /\ lastId' = IF t.made THEN lastId + 1 ELSE lastId
  BY <1>2, RendererKeepsIds DEF BookInv, RendererStep
<2>2. lastId + 1 \in Ids => ~guests[lastId + 1].crashes
  BY <1>0 DEF BookInv, IdsInv
<2>3. QED
  BY <1>0, <2>1, <2>2
<1>3. QED
  BY <1>0, <1>1, <1>2, EveryStep DEF BookInv

\* The renderer's steps keep the tokens.
LEMMA RendererKeepsDialogs ==
  ASSUME BookInv, DialogInv, Next, NEW t, RendererStep(t)
  PROVE  DialogInv'
<1>1. SUFFICES ASSUME lastId' <= 1, \A g \in Ids : ~guests'[g].crashes
               PROVE  /\ ~misanswered'
                      /\ Running' => /\ \A g \in Ids : guests'[g].asking = guests'[g].callback
                                     /\ lastId' = 0 => Tokens(0)'
                                     /\ \A g \in registered' : Tokens(guests[g].callback)'
  BY DEF DialogInv
<1>2. lastId \in Nat /\ lastId' \in Nat /\ lastId <= 1
      /\ \A g \in Ids : ~guests[g].crashes
<2>1. lastId \in Nat
  BY ElementIsAny DEF BookInv
<2>2. lastId' = IF t.made THEN lastId + 1 ELSE lastId
  BY DEF RendererStep
<2>3. QED
  BY <1>1, <2>1, <2>2, CrashesRemembered
<1>3. Running /\ misanswered' = misanswered
  BY DEF RendererStep
<1>4. /\ ~misanswered
      /\ \A g \in Ids : guests[g].asking = guests[g].callback
      /\ lastId = 0 => Tokens(0)
      /\ \A g \in registered : Tokens(guests[g].callback)
  BY <1>2, <1>3 DEF DialogInv
<1>5. \A d : Tokens(d) => Tokens(d)'
<2>1. ASSUME NEW d, Tokens(d) PROVE Tokens(d)'
  BY <2>1, TurnKeepsTokens DEF BookInv
<2>2. QED
  BY <2>1
<1>6. /\ registered' = IF t.made THEN registered \union {lastId + 1} ELSE registered
      /\ \A g \in Ids : ~(t.made /\ g = lastId + 1) => guests'[g] = guests[g]
      /\ registered \subseteq Ids
  BY RendererKeepsIds DEF BookInv, TypeInv, TypeOK
<1>7. CASE ~t.made
<2>1. lastId' = lastId
  BY <1>7 DEF RendererStep
<2>2. \A g \in registered : Tokens(guests[g].callback)' 
<3>1. SUFFICES ASSUME NEW g \in registered PROVE Tokens(guests[g].callback)'
  OBVIOUS
<3>2. PICK d : d = guests[g].callback
  OBVIOUS
<3>3. guests'[g].callback = d /\ Tokens(d)
  BY <1>4, <1>6, <1>7, <3>2
<3>4. Tokens(d)'
  BY <1>5, <3>3
<3>5. QED
  BY <3>3, <3>4 DEF Tokens
<2>3. Tokens(0)' \/ lastId' # 0
  BY <1>4, <1>5, <2>1
<2>4. QED
  BY <1>3, <1>4, <1>6, <1>7, <2>2, <2>3
<1>8. CASE t.made
<2>1. /\ lastId' = lastId + 1 /\ lastId = 0
      /\ guests'[1].asking = 0 /\ guests'[1].callback = 0
<3>1. lastId' = lastId + 1 /\ lastId < MaxGuests /\ CreateWebViewGuest(lastId + 1)
  BY <1>8 DEF RendererStep
<3>2. lastId = 0
  BY <1>1, <1>2, <3>1
<3>3. guests'[lastId + 1].asking = 0 /\ guests'[lastId + 1].callback = 0
  BY <3>1, GuestCreated DEF BookInv
<3>4. QED
  BY <3>1, <3>2, <3>3
<2>2. registered' = {1}
<3>1. registered = {}
<4>1. \A g \in Ids : g \notin registered
  BY <2>1, WebViewAssumption DEF BookInv, IdsInv, Ids
<4>2. QED
  BY <1>6, <4>1
<3>2. QED
  BY <1>6, <1>8, <2>1, <3>1
<2>3. Tokens(0)'
  BY <1>4, <1>5, <2>1
<2>4. \A g \in registered' : Tokens(guests[g].callback)'
<3>1. SUFFICES ASSUME NEW g \in registered' PROVE Tokens(guests[g].callback)'
  OBVIOUS
<3>2. guests'[g].callback = 0
  BY <2>1, <2>2
<3>3. QED
  BY <2>3, <3>2 DEF Tokens
<2>5. \A g \in Ids : guests'[g].asking = guests'[g].callback
  BY <1>4, <1>6, <2>1
<2>6. QED
  BY <1>3, <1>4, <2>1, <2>4, <2>5
<1>9. QED
  BY <1>7, <1>8

\* The browser's steps keep the tokens.
LEMMA BrowserKeepsDialogs ==
  ASSUME BookInv, DialogInv, Next, NEW c \in BrowserStates, BrowserStep(c),
         UNCHANGED <<el, turns, careless>>
  PROVE  DialogInv'
<1>0. /\ Browser.guests = guests /\ registered \subseteq Ids /\ Browser \in BrowserStates
      /\ Browser.registered = registered /\ Browser.down = down
      /\ Browser.misanswered = misanswered /\ Browser.crashed = crashed
      /\ lastId \in Nat /\ down \in Seq(DownSet) /\ el.held \in SUBSET Dialogs
      /\ up \in Seq(UpSet) /\ \A g \in Ids : guests[g] \in Guest
  BY BrowserFields, ElementIsAny DEF BookInv, TypeInv, TypeOK, Element
<1>1. /\ guests' = c.guests /\ registered' = c.registered /\ crashed' = c.crashed
      /\ misanswered' = c.misanswered /\ down' = c.down /\ lastId' = lastId
      /\ el' = el /\ registered' \subseteq registered /\ Running
  BY BrowserKeepsIds DEF BookInv, BrowserStep, Becomes
<1> DEFINE Goal == /\ ~misanswered'
                   /\ Running' =>
                      /\ \A g \in Ids : c.guests[g].asking = c.guests[g].callback
                      /\ lastId = 0 => TokensIn(0, c.down, el.held, up')
                      /\ \A g \in registered' :
                           TokensIn(c.guests[g].callback, c.down, el.held, up')
<1>2. SUFFICES ASSUME lastId <= 1, \A g \in Ids : ~c.guests[g].crashes
               PROVE  Goal
  BY <1>1 DEF DialogInv, Tokens
<1>3. \A g \in Ids : ~guests[g].crashes
  BY <1>1, <1>2, CrashesRemembered
<1>4. /\ ~misanswered
      /\ \A g \in Ids : guests[g].asking = guests[g].callback
      /\ lastId = 0 => Tokens(0)
      /\ \A g \in registered : Tokens(guests[g].callback)
  BY <1>1, <1>2, <1>3 DEF DialogInv
\* What a step about guest g has to show.
<1>5. ASSUME NEW g \in Ids, g \in registered,
             \A h \in Ids : h # g => c.guests[h] = guests[h],
             c.misanswered = misanswered,
             Running' => /\ c.guests[g].asking = c.guests[g].callback
                         /\ g \in c.registered =>
                              TokensIn(c.guests[g].callback, c.down, el.held, up')
      PROVE  Goal
<2>1. \A h \in registered : h = g
<3>1. \A h \in registered : h \in Ids /\ h <= lastId /\ h \in Nat
  BY <1>0, WebViewAssumption DEF BookInv, IdsInv, Ids
<3>2. \A h \in registered : h = 1
  BY <1>0, <1>2, <3>1, WebViewAssumption DEF Ids
<3>3. QED
  BY <1>5, <3>2
<2>2. lastId # 0
  BY <1>0, <1>5, WebViewAssumption DEF BookInv, IdsInv, Ids
<2>3. \A h \in registered' : h = g
  BY <1>1, <2>1
<2>4. Running' => \A h \in registered' :
        TokensIn(c.guests[h].callback, c.down, el.held, up')
  BY <1>1, <1>5, <2>3
<2>5. Running' => \A h \in Ids : c.guests[h].asking = c.guests[h].callback
  BY <1>4, <1>5
<2>6. ~misanswered'
  BY <1>1, <1>4, <1>5
<2>7. QED
  BY <1>1, <2>2, <2>4, <2>5, <2>6
<1> HIDE DEF Goal
<1>6. CASE up' = up /\ \E g \in Ids : BusyStep(c, g) \/ Asks(c, g) \/ Breaks(c, g)
<2>1. PICK g \in Ids : BusyStep(c, g) \/ Asks(c, g) \/ Breaks(c, g)
  BY <1>6
<2>2. g \in registered
  BY <2>1 DEF BookInv, IdsInv, BusyStep, Asks, Breaks
<2>3. ~Breaks(c, g)
  BY <1>2 DEF Breaks
<2>4. TokensIn(guests[g].callback, down, el.held, up)
  BY <1>4, <2>2 DEF Tokens
<2>5. CASE BusyStep(c, g)
<3>1. TokensIn(guests[g].callback, c.down, el.held, up)
<4>1. Longer(down, c.down)
  BY <1>0, <2>5 DEF BusyStep, GoesOn, Others
<4>2. QED
  BY <1>0, <2>4, <4>1, TokensLonger
<3>2. /\ \A h \in Ids : h # g => c.guests[h] = guests[h]
      /\ c.misanswered = misanswered
      /\ c.guests[g].asking = guests[g].asking
      /\ c.guests[g].callback = guests[g].callback
  BY <1>0, <2>5 DEF BusyStep, GoesOn, Others
<3>3. QED
  BY <1>4, <1>5, <1>6, <2>2, <3>1, <3>2
<2>6. CASE Asks(c, g)
<3> DEFINE d == lastDialog + 1
<3>1. guests[g].callback = 0
  BY <1>4, <2>6 DEF Asks
<3>2. NoTokensIn(down, el.held, up)
  BY <1>0, <2>4, <3>1, ZeroIsNoDialog
<3>3. CASE guests[g].attached
<4> DEFINE e == Message("dialog", g, d)
<4>1. e \in DownSet /\ c.down = Append(down, e)
  BY <2>6, <3>3 DEF Asks
<4>2. e.kind = "dialog" /\ e.arg = d
  BY DEF Message
<4> HIDE DEF e, d
<4>3. TokensIn(d, c.down, el.held, up)
  BY <1>0, <3>2, <4>1, <4>2, TokensAsked
<4>4. /\ \A h \in Ids : h # g => c.guests[h] = guests[h]
      /\ c.misanswered = misanswered
      /\ c.guests[g].asking = d /\ c.guests[g].callback = d
  BY <2>6 DEF Asks, d
<4>5. QED
  BY <1>5, <1>6, <2>2, <4>3, <4>4
<3>4. CASE ~guests[g].attached
<4>1. c.crashed # "no"
  BY <2>6, <3>4 DEF Asks
<4>2. ~Running'
  BY <1>1, <4>1 DEF Running
<4>3. /\ \A h \in Ids : h # g => c.guests[h] = guests[h]
      /\ c.misanswered = misanswered
  BY <2>6 DEF Asks
<4>4. QED
  BY <1>5, <2>2, <4>2, <4>3
<3>5. QED
  BY <3>3, <3>4
<2>7. QED
  BY <2>1, <2>3, <2>5, <2>6
<1>7. CASE up # <<>> /\ up' = Tail(up) /\ Handled(Browser, c, Head(up))
<2> DEFINE m == Head(up)
           g == m.guest
<2>1. CASE c = Browser
<3>1. c.guests = guests /\ c.registered = registered /\ c.misanswered = misanswered
      /\ c.down = down
  BY <1>0, <2>1
<3>2. \A d : Tokens(d) => TokensIn(d, down, el.held, up')
  BY <1>0, <1>7, TokensMessageTaken DEF Tokens
<3>3. QED
  BY <1>1, <1>4, <3>1, <3>2 DEF Goal
<2>2. CASE c.crashed # "no" /\ c.misanswered = misanswered
  BY <1>1, <1>4, <2>2 DEF Running, Goal
<2>3. CASE g \in registered /\ \/ Joins(Browser, c, g)
                               \/ Dies(Browser, c, g)
                               \/ m.kind = "DialogClosed" /\ Answered(Browser, c, g, m.arg)
                               \/ GoesOn(Browser, c, g)
<3>1. g \in Ids /\ guests[g] \in Guest /\ g \in registered
  BY <1>0, <2>3
<3>2. /\ TokensIn(guests[g].callback, down, el.held, up')
      /\ m.kind = "DialogClosed"
           => m.arg = guests[g].callback /\ NoTokensIn(down, el.held, up')
<4>1. TokensIn(guests[g].callback, down, el.held, up)
  BY <1>4, <3>1 DEF Tokens
<4>2. QED
  BY <1>0, <1>7, <4>1, TokensMessageTaken
<3>3. \A h \in Ids : h # g => c.guests[h] = guests[h]
<4> HIDE DEF m, g
<4>1. QED
  BY <1>0, <2>3 DEF Joins, Dies, Others, Answered, GoesOn
<3>4. CASE Joins(Browser, c, g) \/ GoesOn(Browser, c, g)
<4> HIDE DEF m, g
<4>1. Longer(down, c.down) /\ c.misanswered = misanswered
  BY <1>0, <3>4 DEF Joins, GoesOn, Others
<4>2. c.guests[g].asking = guests[g].asking /\ c.guests[g].callback = guests[g].callback
<5>1. Joins(Browser, c, g) => c.guests[g] = [guests[g] EXCEPT !.attached = TRUE]
  BY <1>0 DEF Joins
<5>2. QED
  BY <1>0, <3>1, <3>4, <5>1 DEF GoesOn, Guest
<4>3. TokensIn(guests[g].callback, c.down, el.held, up')
  BY <1>0, <3>2, <4>1, TokensLonger
<4>4. QED
  BY <1>4, <1>5, <3>1, <3>3, <4>1, <4>2, <4>3
<3>5. CASE Dies(Browser, c, g)
<4> HIDE DEF m, g
<4>1. /\ c.guests[g].asking = 0 /\ c.guests[g].callback = 0
      /\ c.misanswered = misanswered /\ g \notin c.registered
  BY <1>0, <3>5 DEF Dies, Others
<4>2. QED
  BY <1>5, <3>1, <3>3, <4>1
<3>6. CASE m.kind = "DialogClosed" /\ Answered(Browser, c, g, m.arg)
<4>1. m.arg = guests[g].callback /\ NoTokensIn(down, el.held, up')
  BY <3>2, <3>6
<4> HIDE DEF m, g
<4>2. /\ c.misanswered = misanswered /\ c.down = down
      /\ c.guests[g].asking = 0 /\ c.guests[g].callback = 0
  BY <1>0, <1>4, <3>1, <3>6, <4>1 DEF Answered
<4>3. TokensIn(0, c.down, el.held, up')
  BY <4>1, <4>2, NoTokensAreSound
<4>4. QED
  BY <1>5, <3>1, <3>3, <4>2, <4>3
<3>7. QED
  BY <2>3, <3>4, <3>5, <3>6
<2>4. QED
  BY <1>0, <1>7, <2>1, <2>2, <2>3 DEF Handled
<1>8. CASE embedder' = "gone" /\ Leaves(c)
<2>1. ~Running' /\ misanswered' = misanswered
  BY <1>1, <1>8 DEF Running, Leaves
<2>2. QED
  BY <1>4, <2>1 DEF Goal
<1>9. QED
  BY <1>6, <1>7, <1>8 DEF BrowserStep

\* There is no dialog at first,
LEMMA InitDialogs ==
  ASSUME Init
  PROVE  DialogInv
<1>1. /\ guests = [g \in Ids |-> NoGuest] /\ registered = {} /\ lastId = 0
      /\ up = <<>> /\ down = <<>> /\ misanswered = FALSE
  BY DEF Init, GuestInit
<1>2. el.held = {}
  BY DEF Init, NewElement
<1>3. Tokens(0)
  BY <1>1, <1>2 DEF Tokens, TokensIn
<1>4. QED
  BY <1>1, <1>3, NoGuestFields DEF DialogInv

\* and every step keeps the tokens.
LEMMA NextDialogs ==
  ASSUME BookInv, DialogInv, [Next]_vars
  PROVE  DialogInv'
<1>1. CASE Next
<2>1. CASE \E c \in BrowserStates : BrowserStep(c) /\ UNCHANGED <<el, turns, careless>>
  BY <1>1, <2>1, BrowserKeepsDialogs
<2>2. CASE \E t : RendererStep(t)
  BY <1>1, <2>2, RendererKeepsDialogs
<2>3. QED
  BY <1>1, <2>1, <2>2, EveryStep DEF BookInv
<1>2. CASE UNCHANGED vars
  BY <1>2 DEF DialogInv, Tokens, Running, vars, guestVars
<1>3. QED
  BY <1>1, <1>2

\* The answer of the page is given to the dialog it was meant for, unless the
\* renderer of a guest has crashed, or the element has had a second guest.
THEOREM AnswersAlwaysReachTheirDialog == Spec => []AnswersReachTheirDialog
<1>1. Init => DialogInv
  BY InitDialogs
<1>2. BookInv /\ DialogInv /\ [Next]_vars => DialogInv'
  BY NextDialogs
<1>3. BookInv /\ DialogInv => AnswersReachTheirDialog
<2>1. SUFFICES ASSUME BookInv, DialogInv, misanswered, ~(lastId > 1)
               PROVE  \E g \in Ids : guests[g].crashes
  BY DEF AnswersReachTheirDialog
<2>2. lastId <= 1
  BY <2>1, ElementIsAny DEF BookInv
<2>3. QED
  BY <2>1, <2>2 DEF DialogInv
<1>4. QED
  BY <1>1, <1>2, <1>3, BooksHold, PTL DEF Spec

-----------------------------------------------------------------------------
(* Careful pages never make the browser use a guest that is not there. *)

\* Guest g can be used once the first n messages have been handled: it is
\* alive, attached, and none of them destroys it.
UsableIn(R, G, ms, g, n) ==
  /\ g \in R
  /\ \/ G[g].attached
     \/ \E j \in 1..n : ms[j].kind = "Attach" /\ ms[j].guest = g
  /\ \A j \in 1..n : ~(Kills(ms[j]) /\ ms[j].guest = g)

\* It is gone by then.
DoomedIn(R, ms, g, n) ==
  g \notin R \/ \E j \in 1..n : ms[j].kind = "Destroy" /\ ms[j].guest = g

\* Each message finds what its handler relies on, and what a plugin tells of
\* its guest comes too late.
QueueSound(R, G, ms) ==
  \A i \in 1..Len(ms) :
    /\ ms[i].kind \notin {"Attach", "PluginDestroyed"}
         => UsableIn(R, G, ms, ms[i].guest, i - 1)
    /\ ms[i].kind = "PluginDestroyed" => DoomedIn(R, ms, ms[i].guest, i - 1)

Usable(g) == UsableIn(registered, guests, up, g, Len(up))
Doomed(g) == DoomedIn(registered, up, g, Len(up))

ElementInv ==
  /\ el.bound \in {0, el.guest}
  /\ ~el.attached => el.guest = 0 /\ ~el.plugin
  /\ el.guest = 0 => el.first
  /\ el.guest # 0 => registered = {el.guest}
  /\ el.attached /\ el.guest = 0 => registered = {} /\ down = <<>>
  /\ el.guest # 0 /\ el.bound = 0 =>
       /\ down = <<>> /\ ~guests[el.guest].attached
       /\ \A i \in 1..Len(up) : up[i].guest # el.guest
  /\ el.bound # 0 => Usable(el.bound) /\ el.bound \notin el.dying

QueueInv ==
  /\ QueueSound(registered, guests, up)
  /\ \A g \in el.dying : Doomed(g)
  /\ \A g \in registered : ~guests[g].attached => ~Busy(guests[g])

CarefulInv ==
  /\ ~careless /\ embedder = "open" => crashed = "no"
  /\ Running /\ ~careless => ElementInv /\ QueueInv

\* What handling message m does to the registry and to attachment.
Moves(R, G, R2, G2, m) ==
  /\ R2 \subseteq R
  /\ \A g \in R : g \in R2 \/ (Kills(m) /\ m.guest = g)
  /\ \A g \in R2 : G[g].attached => G2[g].attached
  /\ m.kind = "Attach" /\ m.guest \in R => G2[m.guest].attached
  /\ m.kind = "Destroy" => m.guest \notin R2
  /\ \A g \in R2 : ~G2[g].attached => G2[g] = G[g]

\* The promises about the messages under way, once the first is handled: a guest
\* that is usable stays so,
LEMMA UsableShifts ==
  ASSUME NEW ms \in Seq(UpSet), ms # <<>>, NEW R, NEW G, NEW R2, NEW G2,
         Moves(R, G, R2, G2, Head(ms)), NEW n \in 1..Len(ms), NEW g,
         UsableIn(R, G, ms, g, n)
  PROVE  UsableIn(R2, G2, Tail(ms), g, n - 1)
<1>1. /\ Head(ms) = ms[1] /\ Len(Tail(ms)) = Len(ms) - 1 /\ Len(ms) \in Nat
      /\ \A i \in 1..Len(Tail(ms)) : i + 1 \in 1..Len(ms) /\ Tail(ms)[i] = ms[i + 1]
  BY HeadFits
<1>2. \A j \in 1..(n - 1) : j + 1 \in 1..n /\ Tail(ms)[j] = ms[j + 1]
  BY <1>1
<1>3. g \in R2
<2>1. 1 \in 1..n
  BY <1>1
<2>2. QED
  BY <1>1, <2>1 DEF UsableIn, Moves
<1>4. \A j \in 1..(n - 1) : ~(Kills(Tail(ms)[j]) /\ Tail(ms)[j].guest = g)
  BY <1>2 DEF UsableIn
<1>5. CASE G[g].attached
  BY <1>3, <1>4, <1>5 DEF UsableIn, Moves
<1>6. CASE \E j \in 1..n : ms[j].kind = "Attach" /\ ms[j].guest = g
<2>1. PICK j \in 1..n : ms[j].kind = "Attach" /\ ms[j].guest = g
  BY <1>6
<2>2. CASE j = 1
<3>1. G2[g].attached
  BY <1>1, <2>1, <2>2 DEF Moves, UsableIn
<3>2. QED
  BY <1>3, <1>4, <3>1 DEF UsableIn
<2>3. CASE j # 1
<3>1. j - 1 \in 1..(n - 1) /\ (j - 1) + 1 = j
  BY <1>1, <2>3
<3>2. Tail(ms)[j - 1] = ms[j]
  BY <1>2, <3>1
<3>3. QED
  BY <1>3, <1>4, <2>1, <3>1, <3>2 DEF UsableIn
<2>4. QED
  BY <2>2, <2>3
<1>7. QED
  BY <1>5, <1>6 DEF UsableIn

\* one that is doomed stays so,
LEMMA DoomedShifts ==
  ASSUME NEW ms \in Seq(UpSet), ms # <<>>, NEW R, NEW G, NEW R2, NEW G2,
         Moves(R, G, R2, G2, Head(ms)), NEW n \in 1..Len(ms), NEW g,
         DoomedIn(R, ms, g, n)
  PROVE  DoomedIn(R2, Tail(ms), g, n - 1)
<1>1. /\ Head(ms) = ms[1] /\ Len(Tail(ms)) = Len(ms) - 1 /\ Len(ms) \in Nat
      /\ \A i \in 1..Len(Tail(ms)) : i + 1 \in 1..Len(ms) /\ Tail(ms)[i] = ms[i + 1]
  BY HeadFits
<1>2. CASE g \notin R
  BY <1>2 DEF DoomedIn, Moves
<1>3. CASE \E j \in 1..n : ms[j].kind = "Destroy" /\ ms[j].guest = g
<2>1. PICK j \in 1..n : ms[j].kind = "Destroy" /\ ms[j].guest = g
  BY <1>3
<2>2. CASE j = 1
  BY <1>1, <2>1, <2>2 DEF Moves, DoomedIn
<2>3. CASE j # 1
<3>1. j - 1 \in 1..(n - 1) /\ (j - 1) + 1 = j /\ j - 1 \in 1..Len(Tail(ms))
  BY <1>1, <2>3
<3>2. Tail(ms)[j - 1] = ms[j]
  BY <1>1, <3>1
<3>3. QED
  BY <2>1, <3>1, <3>2 DEF DoomedIn
<2>4. QED
  BY <2>2, <2>3
<1>4. QED
  BY <1>2, <1>3 DEF DoomedIn

\* and each message behind it is promised what it was.
LEMMA QueueShifts ==
  ASSUME NEW ms \in Seq(UpSet), ms # <<>>, NEW R, NEW G, NEW R2, NEW G2,
         Moves(R, G, R2, G2, Head(ms)), QueueSound(R, G, ms)
  PROVE  QueueSound(R2, G2, Tail(ms))
<1>1. /\ Len(Tail(ms)) = Len(ms) - 1 /\ Len(ms) \in Nat
      /\ \A i \in 1..Len(Tail(ms)) : i + 1 \in 1..Len(ms) /\ Tail(ms)[i] = ms[i + 1]
  BY HeadFits
<1>2. SUFFICES ASSUME NEW i \in 1..Len(Tail(ms))
               PROVE  LET m == Tail(ms)[i] IN
                      /\ m.kind \notin {"Attach", "PluginDestroyed"}
                           => UsableIn(R2, G2, Tail(ms), m.guest, i - 1)
                      /\ m.kind = "PluginDestroyed" => DoomedIn(R2, Tail(ms), m.guest, i - 1)
  BY DEF QueueSound
<1> DEFINE m == Tail(ms)[i]
<1>3. m = ms[i + 1] /\ i + 1 \in 1..Len(ms) /\ (i + 1) - 1 = i /\ i \in 1..Len(ms)
  BY <1>1
<1> HIDE DEF m
<1>4. m.kind \notin {"Attach", "PluginDestroyed"} => UsableIn(R, G, ms, m.guest, i)
  BY <1>3 DEF QueueSound
<1>5. m.kind = "PluginDestroyed" => DoomedIn(R, ms, m.guest, i)
  BY <1>3 DEF QueueSound
<1>6. m.kind \notin {"Attach", "PluginDestroyed"} => UsableIn(R2, G2, Tail(ms), m.guest, i - 1)
  BY <1>3, <1>4, UsableShifts
<1>7. m.kind = "PluginDestroyed" => DoomedIn(R2, Tail(ms), m.guest, i - 1)
  BY <1>3, <1>5, DoomedShifts
<1>8. QED
  BY <1>6, <1>7 DEF m

\* Messages behind the first n change nothing about these.
LEMMA UsableSuffix ==
  ASSUME NEW ms \in Seq(UpSet), NEW a \in Seq(UpSet), NEW R, NEW G, NEW g,
         NEW n \in 0..Len(ms)
  PROVE  /\ UsableIn(R, G, ms, g, n) => UsableIn(R, G, ms \o a, g, n)
         /\ DoomedIn(R, ms, g, n) => DoomedIn(R, ms \o a, g, n)
<1> DEFINE u == ms \o a
<1>1. Len(ms) \in Nat /\ \A j \in 1..Len(ms) : u[j] = ms[j]
  BY JoinedList
<1> HIDE DEF u
<1>2. \A j \in 1..n : u[j] = ms[j]
  BY <1>1
<1>3. /\ UsableIn(R, G, ms, g, n) => UsableIn(R, G, u, g, n)
      /\ DoomedIn(R, ms, g, n) => DoomedIn(R, u, g, n)
  BY <1>2 DEF UsableIn, DoomedIn
<1>4. QED
  BY <1>3 DEF u

\* The same when messages are added: usable,
LEMMA UsableGrows ==
  ASSUME NEW ms \in Seq(UpSet), NEW a \in Seq(UpSet), NEW R, NEW G, NEW g,
         NEW n \in 0..Len(a),
         UsableIn(R, G, ms, g, Len(ms)),
         \A i \in 1..n : ~(Kills(a[i]) /\ a[i].guest = g)
  PROVE  UsableIn(R, G, ms \o a, g, Len(ms) + n)
<1> DEFINE u == ms \o a
<1>1. /\ Len(ms) \in Nat /\ Len(a) \in Nat /\ Len(u) = Len(ms) + Len(a)
      /\ \A i \in 1..Len(u) : \/ i \in 1..Len(ms) /\ u[i] = ms[i]
                              \/ /\ i > Len(ms) /\ i - Len(ms) \in 1..Len(a)
                                 /\ u[i] = a[i - Len(ms)]
      /\ \A i \in 1..Len(ms) : u[i] = ms[i]
  BY JoinedList
<1> HIDE DEF u
<1>2. 1..Len(ms) \subseteq 1..(Len(ms) + n)
  BY <1>1
<1>3. \A j \in 1..(Len(ms) + n) : j \in 1..Len(u) /\ (j - Len(ms) \in 1..Len(a) => j - Len(ms) \in 1..n)
  BY <1>1
<1>4. \A j \in 1..(Len(ms) + n) : ~(Kills(u[j]) /\ u[j].guest = g)
  BY <1>1, <1>3 DEF UsableIn
<1>5. g \in R /\ (G[g].attached \/ \E j \in 1..(Len(ms) + n) : u[j].kind = "Attach" /\ u[j].guest = g)
  BY <1>1, <1>2 DEF UsableIn
<1>6. UsableIn(R, G, u, g, Len(ms) + n)
  BY <1>4, <1>5 DEF UsableIn
<1>7. QED
  BY <1>6 DEF u

\* and doomed.
LEMMA DoomedGrows ==
  ASSUME NEW ms \in Seq(UpSet), NEW a \in Seq(UpSet), NEW R, NEW g,
         DoomedIn(R, ms, g, Len(ms))
  PROVE  DoomedIn(R, ms \o a, g, Len(ms \o a))
<1> DEFINE u == ms \o a
<1>1. \A i \in 1..Len(ms) : i \in 1..Len(u) /\ u[i] = ms[i]
  BY JoinedList
<1> HIDE DEF u
<1>2. DoomedIn(R, u, g, Len(u))
  BY <1>1 DEF DoomedIn
<1>3. QED
  BY <1>2 DEF u

\* The list stays sound with messages a if each of them finds what it needs.
LEMMA QueueGrows ==
  ASSUME NEW ms \in Seq(UpSet), NEW a \in Seq(UpSet), NEW R, NEW G,
         QueueSound(R, G, ms),
         \A k \in 1..Len(a) :
           /\ a[k].kind \notin {"Attach", "PluginDestroyed"}
                => /\ UsableIn(R, G, ms, a[k].guest, Len(ms))
                   /\ \A i \in 1..(k - 1) : ~(Kills(a[i]) /\ a[i].guest = a[k].guest)
           /\ a[k].kind = "PluginDestroyed"
                => k = 1 /\ DoomedIn(R, ms, a[k].guest, Len(ms))
  PROVE  QueueSound(R, G, ms \o a)
<1> DEFINE u == ms \o a
<1>1. /\ u \in Seq(UpSet) /\ Len(ms) \in Nat /\ Len(a) \in Nat /\ Len(u) = Len(ms) + Len(a)
      /\ \A i \in 1..Len(u) : \/ i \in 1..Len(ms) /\ u[i] = ms[i]
                              \/ /\ i > Len(ms) /\ i - Len(ms) \in 1..Len(a)
                                 /\ u[i] = a[i - Len(ms)]
  BY JoinedList
<1>2. SUFFICES ASSUME NEW i \in 1..Len(u)
               PROVE  /\ u[i].kind \notin {"Attach", "PluginDestroyed"}
                           => UsableIn(R, G, u, u[i].guest, i - 1)
                      /\ u[i].kind = "PluginDestroyed" => DoomedIn(R, u, u[i].guest, i - 1)
  BY DEF QueueSound
<1>3. CASE i \in 1..Len(ms) /\ u[i] = ms[i]
<2>1. i - 1 \in 0..Len(ms)
  BY <1>1, <1>3
<2> HIDE DEF u
<2>2. /\ u[i].kind \notin {"Attach", "PluginDestroyed"}
           => UsableIn(R, G, ms, u[i].guest, i - 1)
      /\ u[i].kind = "PluginDestroyed" => DoomedIn(R, ms, u[i].guest, i - 1)
  BY <1>3 DEF QueueSound
<2>3. QED
  BY <2>1, <2>2, UsableSuffix DEF u
<1>4. CASE i > Len(ms) /\ i - Len(ms) \in 1..Len(a) /\ u[i] = a[i - Len(ms)]
<2>1. PICK k \in 1..Len(a) : k = i - Len(ms)
  BY <1>4
<2>2. i - 1 = Len(ms) + (k - 1) /\ k - 1 \in 0..Len(a) /\ u[i] = a[k]
  BY <1>1, <1>4, <2>1
<2> HIDE DEF u
<2>3. u[i].kind \notin {"Attach", "PluginDestroyed"} => UsableIn(R, G, u, u[i].guest, i - 1)
<3>1. SUFFICES ASSUME a[k].kind \notin {"Attach", "PluginDestroyed"}
               PROVE  UsableIn(R, G, u, a[k].guest, Len(ms) + (k - 1))
  BY <2>2
<3>2. QED
  BY <2>2, <3>1, UsableGrows DEF u
<2>4. u[i].kind = "PluginDestroyed" => DoomedIn(R, u, u[i].guest, i - 1)
<3>1. SUFFICES ASSUME a[k].kind = "PluginDestroyed"
               PROVE  DoomedIn(R, u, a[k].guest, Len(ms))
<4>1. k = 1 => i - 1 = Len(ms)
  BY <1>1, <2>1, <2>2
<4>2. QED
  BY <2>2, <4>1
<3>2. Len(ms) \in 0..Len(ms)
  BY <1>1
<3>3. QED
  BY <3>1, <3>2, UsableSuffix DEF u
<2>5. QED
  BY <2>3, <2>4
<1>5. QED
  BY <1>1, <1>3, <1>4

\* The step of the browser that handles a message finds the guest as promised.
LEMMA CarefulBrowser ==
  ASSUME TypeInv, IdsInv, ElementInv, QueueInv, NEW c \in BrowserStates,
         BrowserStep(c), embedder' = embedder
  PROVE  /\ c.crashed = crashed
         /\ \/ /\ up' = up
               /\ \E g \in registered : /\ guests[g].attached /\ c.guests[g].attached
                                        /\ \A h \in Ids : h # g => c.guests[h] = guests[h]
               /\ c.registered = registered
            \/ /\ up # <<>> /\ up' = Tail(up)
               /\ Moves(registered, guests, c.registered, c.guests, Head(up))
               /\ Head(up).guest \notin registered => c = Browser
<1>0. /\ Browser.guests = guests /\ Browser.registered = registered
      /\ Browser.crashed = crashed /\ registered \subseteq Ids /\ up \in Seq(UpSet)
      /\ \A g \in Ids : guests[g] \in Guest
  BY BrowserFields DEF TypeInv, TypeOK
<1>1. CASE up' = up /\ \E g \in Ids : BusyStep(c, g) \/ Asks(c, g) \/ Breaks(c, g)
<2>1. PICK g \in Ids : BusyStep(c, g) \/ Asks(c, g) \/ Breaks(c, g)
  BY <1>1
<2>2. g \in registered /\ Busy(guests[g])
  BY <2>1 DEF IdsInv, BusyStep, Asks, Breaks
<2>3. guests[g].attached
  BY <2>2 DEF QueueInv
<2>4. /\ c.crashed = crashed /\ c.guests[g].attached = guests[g].attached
      /\ c.registered = registered
      /\ \A h \in Ids : h # g => c.guests[h] = guests[h]
  BY <1>0, <2>1, <2>3 DEF BusyStep, Asks, Breaks, GoesOn, Others
<2>5. QED
  BY <1>1, <2>2, <2>3, <2>4
<1>2. CASE up # <<>> /\ up' = Tail(up) /\ Handled(Browser, c, Head(up))
<2> DEFINE m == Head(up)
           g == m.guest
<2>1. /\ m.kind \notin {"Attach", "PluginDestroyed"}
           => UsableIn(registered, guests, up, g, 0)
      /\ m.kind = "PluginDestroyed" => DoomedIn(registered, up, g, 0)
<3>1. 1 \in 1..Len(up) /\ up[1] = m
  BY <1>0, <1>2, HeadFits
<3>2. /\ up[1].kind \notin {"Attach", "PluginDestroyed"}
           => UsableIn(registered, guests, up, up[1].guest, 1 - 1)
      /\ up[1].kind = "PluginDestroyed" => DoomedIn(registered, up, up[1].guest, 1 - 1)
  BY <3>1 DEF QueueInv, QueueSound
<3>3. 1 - 1 = 0
  OBVIOUS
<3>4. QED
  BY <3>1, <3>2, <3>3
<2>2. m.kind \notin {"Attach", "PluginDestroyed"} => g \in registered /\ guests[g].attached
  BY <2>1 DEF UsableIn
<2>3. m.kind = "PluginDestroyed" => g \notin registered
  BY <2>1 DEF DoomedIn
<2>4. CASE c = Browser /\ m.kind \in {"Attach", "PluginDestroyed"} /\ g \notin registered
<3> HIDE DEF m, g
<3>1. c.guests = guests /\ c.registered = registered /\ c.crashed = crashed
  BY <1>0, <2>4
<3>2. Moves(registered, guests, c.registered, c.guests, m)
  BY <2>4, <3>1 DEF Moves, Kills, g
<3>3. QED
  BY <1>2, <2>4, <3>1, <3>2 DEF m
<2>5. ~(m.kind \notin {"Attach", "PluginDestroyed"} /\ ~GuestOf(Browser, g))
<3> HIDE DEF m, g
<3>1. QED
  BY <1>0, <2>2 DEF GuestOf, GetGuestByInstanceID, FromWebContents, IdsInv
<2>6. CASE /\ g \in registered
           /\ \/ m.kind = "Attach" /\ Joins(Browser, c, g)
              \/ Kills(m) /\ Dies(Browser, c, g)
              \/ m.kind = "DialogClosed" /\ Answered(Browser, c, g, m.arg)
              \/ /\ ~Kills(m) /\ m.kind \notin {"Attach", "DialogClosed"}
                 /\ GoesOn(Browser, c, g)
<3> HIDE DEF m, g
<3>1. g \in Ids
  BY <1>0, <2>6
<3>2. \A h \in Ids : h # g => c.guests[h] = guests[h]
  BY <1>0, <2>6 DEF Joins, Dies, Others, Answered, GoesOn
<3>3. c.crashed = crashed
  BY <1>0, <2>2, <2>3, <2>6 DEF Joins, Dies, Answered, GoesOn, Kills
<3>4. \/ Kills(m) /\ c.registered = registered \ {g}
      \/ ~Kills(m) /\ c.registered = registered
  BY <1>0, <2>6 DEF Joins, Dies, Answered, GoesOn, Kills
<3>5. ~Kills(m) => c.guests[g].attached
<4>1. Joins(Browser, c, g) => c.guests[g].attached
  BY <1>0, <3>1 DEF Joins, Guest
<4>2. QED
  BY <1>0, <2>2, <2>6, <4>1 DEF Dies, Answered, GoesOn, Kills
<3>6. Moves(registered, guests, c.registered, c.guests, m)
<4>1. m.guest = g
  BY DEF g
<4>2. m.kind = "Destroy" => Kills(m)
  BY DEF Kills
<4>3. m.kind = "Attach" => ~Kills(m)
  BY DEF Kills
<4>4. QED
  BY <1>0, <3>1, <3>2, <3>4, <3>5, <4>1, <4>2, <4>3 DEF Moves
<3>7. QED
  BY <1>2, <2>6, <3>3, <3>6 DEF m, g
<2>7. QED
<3>1. \/ c = Browser /\ m.kind \in {"Attach", "PluginDestroyed"} /\ g \notin registered
      \/ m.kind \notin {"Attach", "PluginDestroyed"} /\ ~GuestOf(Browser, g)
      \/ /\ g \in registered
         /\ \/ m.kind = "Attach" /\ Joins(Browser, c, g)
            \/ Kills(m) /\ Dies(Browser, c, g)
            \/ m.kind = "DialogClosed" /\ Answered(Browser, c, g, m.arg)
            \/ /\ ~Kills(m) /\ m.kind \notin {"Attach", "DialogClosed"}
               /\ GoesOn(Browser, c, g)
  BY <1>0, <1>2 DEF Handled
<3>2. QED
  BY <2>4, <2>5, <2>6, <3>1
<1>3. CASE embedder' = "gone"
  BY <1>3 DEF BrowserStep, Running
<1>4. QED
  BY <1>1, <1>2, <1>3 DEF BrowserStep

\* The browser's steps keep the promises.
LEMMA BrowserKeepsCareful ==
  ASSUME BookInv, CarefulInv, NEW c \in BrowserStates, BrowserStep(c),
         UNCHANGED <<el, turns, careless>>
  PROVE  CarefulInv'
<1>0. /\ Browser.guests = guests /\ Browser.registered = registered
      /\ Browser.down = down
      /\ registered \subseteq Ids /\ up \in Seq(UpSet) /\ el' = el /\ careless' = careless
      /\ guests' = c.guests /\ registered' = c.registered /\ crashed' = c.crashed
      /\ down' = c.down /\ Running
  BY BrowserFields DEF BookInv, TypeInv, TypeOK, BrowserStep, Becomes
<1>1. CASE careless \/ embedder' = "gone"
  BY <1>0, <1>1 DEF CarefulInv, Running
<1>2. CASE ~careless /\ embedder' = embedder
<2>1. ElementInv /\ QueueInv /\ TypeInv /\ IdsInv /\ crashed = "no"
  BY <1>0, <1>2 DEF CarefulInv, BookInv, Running
<2>2. /\ c.crashed = crashed
      /\ \/ /\ up' = up
            /\ \E g \in registered : /\ guests[g].attached /\ c.guests[g].attached
                                     /\ \A h \in Ids : h # g => c.guests[h] = guests[h]
            /\ c.registered = registered
         \/ /\ up # <<>> /\ up' = Tail(up)
            /\ Moves(registered, guests, c.registered, c.guests, Head(up))
            /\ Head(up).guest \notin registered => c = Browser
  BY <1>2, <2>1, CarefulBrowser
<2>3. ASSUME ElementInv' /\ QueueInv'
      PROVE  CarefulInv'
  BY <1>0, <2>1, <2>2, <2>3 DEF CarefulInv
<2>4. CASE /\ up' = up
           /\ \E g \in registered : /\ guests[g].attached /\ c.guests[g].attached
                                    /\ \A h \in Ids : h # g => c.guests[h] = guests[h]
           /\ c.registered = registered
<3>1. PICK g \in registered : /\ guests[g].attached /\ c.guests[g].attached
                              /\ \A h \in Ids : h # g => c.guests[h] = guests[h]
  BY <2>4
<3>2. \A h \in registered : /\ c.guests[h].attached <=> guests[h].attached
                            /\ ~c.guests[h].attached => c.guests[h] = guests[h]
  BY <1>0, <3>1
<3>3. \A h, n : UsableIn(registered, guests, up, h, n)
                  => UsableIn(registered, c.guests, up, h, n)
  BY <3>2 DEF UsableIn
<3>4. QueueSound(registered, c.guests, up)
  BY <2>1, <3>3 DEF QueueInv, QueueSound
<3>5. QueueInv'
  BY <1>0, <2>1, <2>4, <3>2, <3>4 DEF QueueInv, Doomed, Busy
<3>6. ElementInv'
<4>1. ~(el.attached /\ el.guest = 0) /\ ~(el.guest # 0 /\ el.bound = 0)
  BY <2>1, <3>1 DEF ElementInv
<4>2. el.bound # 0 => UsableIn(registered, c.guests, up, el.bound, Len(up))
  BY <2>1, <3>3 DEF ElementInv, Usable
<4>3. QED
  BY <1>0, <2>1, <2>4, <4>1, <4>2 DEF ElementInv, Usable
<3>7. QED
  BY <2>3, <3>5, <3>6
<2>5. CASE /\ up # <<>> /\ up' = Tail(up)
           /\ Moves(registered, guests, c.registered, c.guests, Head(up))
           /\ Head(up).guest \notin registered => c = Browser
<3>0. /\ Head(up) = up[1] /\ Len(Tail(up)) = Len(up) - 1 /\ Len(up) \in 1..Len(up)
      /\ 1 \in 1..Len(up)
      /\ \A i \in 1..Len(Tail(up)) : i + 1 \in 1..Len(up) /\ Tail(up)[i] = up[i + 1]
  BY <1>0, <2>5, HeadFits
<3>1. QueueSound(c.registered, c.guests, Tail(up))
  BY <1>0, <2>1, <2>5, QueueShifts DEF QueueInv
<3>2. \A h : Usable(h) => UsableIn(c.registered, c.guests, Tail(up), h, Len(Tail(up)))
<4>1. ASSUME NEW h, UsableIn(registered, guests, up, h, Len(up))
      PROVE  UsableIn(c.registered, c.guests, Tail(up), h, Len(up) - 1)
  BY <1>0, <2>5, <3>0, <4>1, UsableShifts
<4>2. QED
  BY <3>0, <4>1 DEF Usable
<3>3. \A h : Doomed(h) => DoomedIn(c.registered, Tail(up), h, Len(Tail(up)))
<4>1. ASSUME NEW h, DoomedIn(registered, up, h, Len(up))
      PROVE  DoomedIn(c.registered, Tail(up), h, Len(up) - 1)
  BY <1>0, <2>5, <3>0, <4>1, DoomedShifts
<4>2. QED
  BY <3>0, <4>1 DEF Doomed
<3>4. \A h \in c.registered : ~c.guests[h].attached => ~Busy(c.guests[h])
  BY <2>1, <2>5 DEF QueueInv, Moves
<3>5. QueueInv'
  BY <1>0, <2>1, <2>5, <3>1, <3>3, <3>4 DEF QueueInv, Doomed
<3>6. ElementInv'
<4>1. el.guest # 0 => c.registered = {el.guest}
<5>1. SUFFICES ASSUME el.guest # 0 PROVE el.guest \in c.registered
  BY <2>1, <2>5 DEF ElementInv, Moves
<5>2. registered = {el.guest}
  BY <2>1, <5>1 DEF ElementInv
<5>3. ~(Kills(Head(up)) /\ Head(up).guest = el.guest)
  BY <2>1, <3>0, <5>1 DEF ElementInv, Usable, UsableIn
<5>4. QED
  BY <2>5, <5>2, <5>3 DEF Moves
<4>2. el.attached /\ el.guest = 0 => c.registered = {} /\ c.down = <<>>
  BY <1>0, <2>1, <2>5 DEF ElementInv
<4>3. el.guest # 0 /\ el.bound = 0 =>
       /\ c.down = <<>> /\ ~c.guests[el.guest].attached
       /\ \A i \in 1..Len(Tail(up)) : Tail(up)[i].guest # el.guest
<5>1. SUFFICES ASSUME el.guest # 0, el.bound = 0
               PROVE  /\ c.down = <<>> /\ ~c.guests[el.guest].attached
                      /\ \A i \in 1..Len(Tail(up)) : Tail(up)[i].guest # el.guest
  OBVIOUS
<5>2. /\ registered = {el.guest} /\ down = <<>> /\ ~guests[el.guest].attached
      /\ \A i \in 1..Len(up) : up[i].guest # el.guest
  BY <2>1, <5>1 DEF ElementInv
<5>3. Head(up).guest \notin registered
  BY <3>0, <5>2
<5>4. c = Browser
  BY <2>5, <5>3
<5>5. QED
  BY <1>0, <3>0, <5>2, <5>4
<4>4. el.bound # 0 => UsableIn(c.registered, c.guests, Tail(up), el.bound, Len(Tail(up)))
  BY <2>1, <3>2 DEF ElementInv
<4>5. QED
  BY <1>0, <2>1, <2>5, <4>1, <4>2, <4>3, <4>4 DEF ElementInv, Usable
<3>7. QED
  BY <2>3, <3>5, <3>6
<2>6. QED
  BY <2>2, <2>4, <2>5
<1>3. QED
  BY <1>1, <1>2 DEF BrowserStep

\* What is left of a careful element and its queue after a turn that makes no
\* guest: the parts that every turn keeps in the same way.
LEMMA QueueAfterTurn ==
  ASSUME TypeInv, QueueInv, NEW t, RendererStep(t), ~t.made,
         \A k \in 1..Len(t.msgs) :
           /\ t.msgs[k].kind \notin {"Attach", "PluginDestroyed"}
                => /\ Usable(t.msgs[k].guest)
                   /\ \A i \in 1..(k - 1) : ~(Kills(t.msgs[i])
                                              /\ t.msgs[i].guest = t.msgs[k].guest)
           /\ t.msgs[k].kind = "PluginDestroyed" => k = 1 /\ Doomed(t.msgs[k].guest),
         \A g \in t.el.dying : g \in el.dying \/ Doomed(g)'
  PROVE  QueueInv'
<1>0. /\ up \in Seq(UpSet) /\ t.msgs \in Seq(UpSet) /\ up' = up \o t.msgs /\ el' = t.el
      /\ guests' = guests /\ registered' = registered
  BY DEF TypeInv, RendererStep, Sound, Turns
<1>1. QueueSound(registered, guests, up \o t.msgs)
  BY <1>0, QueueGrows DEF QueueInv, Usable, Doomed
<1>2. \A g : Doomed(g) => DoomedIn(registered, up \o t.msgs, g, Len(up \o t.msgs))
  BY <1>0, DoomedGrows DEF Doomed
<1>3. \A g \in el.dying : DoomedIn(registered', up', g, Len(up'))
  BY <1>0, <1>2 DEF QueueInv
<1>4. \A g \in t.el.dying : DoomedIn(registered', up', g, Len(up'))
  BY <1>3 DEF Doomed
<1>5. QED
  BY <1>0, <1>1, <1>4 DEF QueueInv, Doomed, Busy

\* A guest that no message of a turn ends stays usable.
LEMMA UsableAfterTurn ==
  ASSUME TypeInv, NEW t, RendererStep(t), ~t.made, NEW g, Usable(g),
         \A i \in 1..Len(t.msgs) : ~(Kills(t.msgs[i]) /\ t.msgs[i].guest = g)
  PROVE  UsableIn(registered', guests', up', g, Len(up'))
<1>0. /\ up \in Seq(UpSet) /\ t.msgs \in Seq(UpSet) /\ up' = up \o t.msgs
      /\ guests' = guests /\ registered' = registered
      /\ Len(up') = Len(up) + Len(t.msgs) /\ Len(t.msgs) \in 0..Len(t.msgs)
<2>1. /\ up \in Seq(UpSet) /\ t.msgs \in Seq(UpSet) /\ up' = up \o t.msgs
      /\ guests' = guests /\ registered' = registered
  BY DEF TypeInv, RendererStep, Sound, Turns
<2>2. Len(up \o t.msgs) = Len(up) + Len(t.msgs) /\ Len(t.msgs) \in Nat
  BY <2>1, JoinedList
<2>3. QED
  BY <2>1, <2>2
<1>1. UsableIn(registered, guests, up \o t.msgs, g, Len(up) + Len(t.msgs))
  BY <1>0, UsableGrows DEF Usable
<1>2. QED
  BY <1>0, <1>1

\* A careful page calls its element, or the element hears of its guest.
LEMMA SpeakingStaysCareful ==
  ASSUME TypeInv, ElementInv, QueueInv, NEW t, RendererStep(t), ~t.made, Stays(t.el),
         \A k \in 1..Len(t.msgs) :
           t.msgs[k].guest = el.guest /\ el.guest # 0 /\ t.msgs[k].kind \in Requests,
         el.guest # 0 /\ el.bound = 0 => t.msgs = <<>> /\ down' = <<>>,
         el.attached /\ el.guest = 0 => down' = <<>>
  PROVE  ElementInv' /\ QueueInv'
<1>0. /\ guests' = guests /\ registered' = registered /\ el' = t.el
      /\ up' = up \o t.msgs /\ up \in Seq(UpSet) /\ t.msgs \in Seq(UpSet)
  BY DEF RendererStep, TypeInv, Sound, Turns
<1>1. el.bound \in {0, el.guest}
  BY DEF ElementInv
<1>2. \A k \in 1..Len(t.msgs) : ~Kills(t.msgs[k]) /\ t.msgs[k].kind # "PluginDestroyed"
  BY DEF Requests, Kills
<1>3. \A k \in 1..Len(t.msgs) : Usable(t.msgs[k].guest)
<2>1. SUFFICES ASSUME NEW k \in 1..Len(t.msgs) PROVE Usable(el.guest)
  OBVIOUS
<2>2. t.msgs # <<>> /\ el.guest # 0
  BY <1>0, <2>1
<2>3. el.bound = el.guest
  BY <1>1, <2>2
<2>4. QED
  BY <2>2, <2>3 DEF ElementInv
<1>4. QueueInv'
<2>1. t.el.dying = el.dying
  BY DEF Stays
<2>2. QED
  BY <1>2, <1>3, <2>1, QueueAfterTurn
<1>5. ElementInv'
<2>1. el.bound # 0 => UsableIn(registered', guests', up', el.bound, Len(up'))
  BY <1>2, UsableAfterTurn DEF ElementInv
<2>2. el.guest # 0 /\ el.bound = 0 => up' = up
  BY <1>0
<2>3. QED
  BY <1>0, <2>1, <2>2 DEF ElementInv, Stays, Usable
<1>6. QED
  BY <1>4, <1>5

\* The element asks for a guest: the queue is empty and holds at most the
\* attachment of the new guest then.
LEMMA CreatingStaysCareful ==
  ASSUME BookInv, ElementInv, QueueInv, NEW t, RendererStep(t), t.made,
         Parsed(t, TRUE), registered = {}, down' = <<>>
  PROVE  ElementInv' /\ QueueInv'
<1> DEFINE g == lastId + 1
<1>0. /\ up = <<>> /\ up' = up \o t.msgs /\ el' = t.el /\ t.msgs \in Seq(UpSet)
      /\ lastId \in Nat /\ lastId < MaxGuests /\ CreateWebViewGuest(lastId + 1)
      /\ el.dying \subseteq Nat
  BY ElementIsAny DEF RendererStep, Sound, Turns, BookInv, AnyElement
<1>1. /\ registered' = {g} /\ ~guests'[g].attached
      /\ guests'[g].entries = <<>> /\ guests'[g].pending = None
  BY <1>0, GuestCreated DEF BookInv
<1>2. /\ t.el.attached = TRUE /\ t.el.plugin = el.plugin
      /\ el.guest = 0 /\ t.el.guest = g /\ t.el.first = FALSE
      /\ \/ ~el.plugin /\ t.el.bound = el.bound /\ t.el.dying = el.dying /\ t.msgs = <<>>
         \/ /\ el.plugin /\ t.el.bound = g
            /\ t.el.dying \subseteq el.dying \union ({el.bound} \ {0})
            /\ \E url \in Addresses :
                 t.msgs = IF el.bound = g THEN <<>> ELSE <<Message("Attach", g, url)>>
  BY DEF Parsed
<1>3. el.bound = 0
  BY <1>2 DEF ElementInv
<1>4. up' = t.msgs
  BY <1>0
<1>5. g # 0 /\ \A h \in el.dying : h <= lastId /\ h # g
  BY <1>0 DEF BookInv, IdsInv
<1>6. t.el.dying \subseteq el.dying
  BY <1>2, <1>3
<1> HIDE DEF g
<1>7. CASE ~el.plugin /\ t.el.bound = el.bound /\ t.msgs = <<>>
<2>1. QueueInv'
  BY <1>0, <1>1, <1>4, <1>5, <1>6, <1>7 DEF QueueInv, QueueSound, Doomed, DoomedIn, Busy
<2>2. ElementInv'
  BY <1>0, <1>1, <1>2, <1>3, <1>4, <1>5, <1>7 DEF ElementInv
<2>3. QED
  BY <2>1, <2>2
<1>8. CASE t.el.bound = g /\ \E url \in Addresses : t.msgs = <<Message("Attach", g, url)>>
<2>1. PICK url \in Addresses : t.msgs = <<Message("Attach", g, url)>>
  BY <1>8
<2>2. /\ Len(up') = 1 /\ up'[1].kind = "Attach" /\ up'[1].guest = g
      /\ \A i \in 1..Len(up') : i = 1
  BY <1>4, <2>1 DEF Message
<2>3. QueueInv'
  BY <1>0, <1>1, <1>5, <1>6, <2>2 DEF QueueInv, QueueSound, Doomed, DoomedIn, Busy
<2>4. UsableIn(registered', guests', up', g, 1)
  BY <1>1, <2>2 DEF UsableIn, Kills
<2>5. ElementInv'
  BY <1>0, <1>1, <1>2, <1>5, <1>6, <1>8, <2>2, <2>4 DEF ElementInv, Usable
<2>6. QED
  BY <2>3, <2>5
<1>9. QED
  BY <1>2, <1>3, <1>5, <1>7, <1>8

\* The renderer's steps, as long as the page is careful, keep the promises.
LEMMA RendererKeepsCareful ==
  ASSUME BookInv, CarefulInv, NEW t, RendererStep(t)
  PROVE  CarefulInv'
<1>0. /\ up \in Seq(UpSet) /\ t.msgs \in Seq(UpSet) /\ up' = up \o t.msgs /\ el' = t.el
      /\ Running /\ crashed' = crashed /\ embedder' = embedder
      /\ el.attached \in BOOLEAN /\ t.made \in BOOLEAN /\ TypeInv /\ IdsInv
      /\ careless \in BOOLEAN /\ registered \subseteq Ids
  BY ElementIsAny DEF BookInv, TypeInv, TypeOK, RendererStep, Sound, Turns, AnyElement
<1>1. SUFFICES ASSUME ~careless'
               PROVE  ElementInv' /\ QueueInv'
  BY <1>0 DEF CarefulInv, Running
<1>2. ~careless
  BY <1>0, <1>1 DEF RendererStep, Does
<1>3. ElementInv /\ QueueInv
  BY <1>0, <1>2 DEF CarefulInv
<1>4. ~t.made => guests' = guests /\ registered' = registered
  BY DEF RendererStep
\* The page puts the element into the document.
<1>5. CASE ~el.attached /\ Parsed(t, TRUE) /\ down' = down
           /\ registered = {} /\ down = <<>>
<2>1. CASE t.made
  BY <1>3, <1>5, <2>1, CreatingStaysCareful
<2>2. CASE ~t.made
<3>1. el.guest = 0 /\ el.bound = 0
  BY <1>3, <1>5 DEF ElementInv
<3>2. /\ t.msgs = <<>> /\ t.el.attached = TRUE /\ t.el.guest = 0 /\ t.el.bound = 0
      /\ t.el.dying = el.dying /\ t.el.first = el.first
  BY <1>5, <2>2, <3>1 DEF Parsed
<3>3. QueueInv'
  BY <1>0, <1>3, <2>2, <3>2, QueueAfterTurn
<3>4. ElementInv'
  BY <1>0, <1>3, <1>4, <1>5, <2>2, <3>1, <3>2 DEF ElementInv
<3>5. QED
  BY <3>3, <3>4
<2>3. QED
  BY <1>0, <2>1, <2>2
\* It sets or removes src.
<1>6. CASE Parsed(t, TRUE) /\ down' = down /\ el.attached /\ Ready
<2>1. CASE t.made
<3>1. el.guest = 0
  BY <1>6, <2>1 DEF Parsed
<3>2. registered = {} /\ down = <<>>
  BY <1>3, <1>6, <3>1 DEF ElementInv
<3>3. QED
  BY <1>3, <1>6, <2>1, <3>2, CreatingStaysCareful
<2>2. CASE ~t.made
<3>1. /\ t.el.attached = el.attached /\ t.el.plugin = el.plugin
      /\ t.el.guest = el.guest /\ t.el.bound = el.bound
      /\ t.el.dying = el.dying /\ t.el.first = el.first
      /\ \/ t.msgs = <<>>
         \/ el.guest # 0
            /\ \E url \in Addresses : t.msgs = <<Message("LoadUrl", el.guest, url)>>
  BY <1>6, <2>2 DEF Parsed
<3>2. Stays(t.el)
  BY <3>1 DEF Stays
<3>3. \A k \in 1..Len(t.msgs) :
         t.msgs[k].guest = el.guest /\ el.guest # 0 /\ t.msgs[k].kind \in Requests
<4>1. CASE t.msgs = <<>>
  BY <4>1
<4>2. CASE t.msgs # <<>>
<5>1. PICK url \in Addresses : t.msgs = <<Message("LoadUrl", el.guest, url)>>
  BY <3>1, <4>2
<5>2. /\ Message("LoadUrl", el.guest, url).guest = el.guest
      /\ Message("LoadUrl", el.guest, url).kind \in Requests
  BY DEF Message, Requests, Kinds
<5>3. QED
  BY <3>1, <4>2, <5>1, <5>2, OneMessage
<4>3. QED
  BY <4>1, <4>2
<3>4. ~(el.guest # 0 /\ el.bound = 0)
  BY <1>6 DEF Ready
<3>5. el.attached /\ el.guest = 0 => down' = <<>>
  BY <1>3, <1>6 DEF ElementInv
<3>6. QED
  BY <1>0, <1>3, <2>2, <3>2, <3>3, <3>4, <3>5, SpeakingStaysCareful
<2>3. QED
  BY <1>0, <2>1, <2>2
\* It takes the element out of the document.
<1>7. CASE LeavesDocument(t) /\ el.attached /\ Ready /\ down' = down
<2>1. /\ t.el.attached = FALSE /\ t.el.guest = 0 /\ t.el.bound = 0
      /\ t.el.plugin = FALSE /\ ~t.made
      /\ t.el.dying = el.dying \union ({el.bound} \ {0})
  BY <1>7 DEF LeavesDocument, LosesPlugin
<2>2. CASE el.guest = 0
<3>1. t.msgs = <<>> /\ t.el.first = el.first /\ el.bound = 0
  BY <1>3, <1>7, <2>2 DEF LeavesDocument, ElementInv
<3>2. QueueInv'
  BY <1>0, <1>3, <2>1, <3>1, QueueAfterTurn
<3>3. ElementInv'
  BY <1>0, <1>3, <2>1, <2>2, <3>1 DEF ElementInv
<3>4. QED
  BY <3>2, <3>3
<2>3. CASE el.guest # 0
<3> DEFINE m == Message("Destroy", el.guest, NoUrl)
<3>1. t.msgs = <<m>> /\ t.el.first = TRUE /\ el.bound = el.guest
  BY <1>7, <2>3 DEF LeavesDocument, Ready
<3>2. m.guest = el.guest /\ m.kind = "Destroy"
  BY DEF Message
<3> HIDE DEF m
<3>3. Usable(el.guest)
  BY <1>3, <2>3, <3>1 DEF ElementInv
<3>4. /\ Len(t.msgs) = 1 /\ t.msgs[1] = m
      /\ \A k \in 1..Len(t.msgs) : k = 1 /\ t.msgs[k] = m
  BY <3>1
<3>5. ASSUME NEW g, g = el.guest
      PROVE  Doomed(g)'
<4>1. Len(up) + 1 \in 1..Len(up') /\ up'[Len(up) + 1] = m
  BY <1>0, <3>4, JoinedList
<4>2. \E j \in 1..Len(up') : up'[j].kind = "Destroy" /\ up'[j].guest = g
  BY <3>2, <3>5, <4>1
<4>3. QED
  BY <4>2 DEF DoomedIn, Doomed
<3>6. \A g \in t.el.dying : g \in el.dying \/ Doomed(g)'
  BY <2>1, <3>1, <3>5
<3>7. QueueInv'
<4>1. \A k \in 1..Len(t.msgs) :
        /\ t.msgs[k].kind \notin {"Attach", "PluginDestroyed"}
             => /\ Usable(t.msgs[k].guest)
                /\ \A i \in 1..(k - 1) : ~(Kills(t.msgs[i])
                                           /\ t.msgs[i].guest = t.msgs[k].guest)
        /\ t.msgs[k].kind = "PluginDestroyed" => k = 1 /\ Doomed(t.msgs[k].guest)
  BY <3>2, <3>3, <3>4
<4>2. QED
  BY <1>0, <1>3, <2>1, <3>6, <4>1, QueueAfterTurn
<3>8. ElementInv'
  BY <1>0, <2>1, <3>1 DEF ElementInv
<3>9. QED
  BY <3>7, <3>8
<2>4. QED
  BY <2>2, <2>3
\* It calls a method, answers a dialog, or shows the element; or the element
\* hears of its guest.
<1>8. ASSUME Says(t) \/ AnswersOne(t) \/ HearsDialog(t),
             \/ down' = down /\ (Ready \/ t.msgs = <<>>)
             \/ down # <<>> /\ down' = Tail(down)
      PROVE  ElementInv' /\ QueueInv'
<2>1. Stays(t.el) /\ ~t.made
  BY <1>8 DEF Says, AnswersOne, HearsDialog
<2>2. \A k \in 1..Len(t.msgs) :
        t.msgs[k].guest = el.guest /\ el.guest # 0 /\ t.msgs[k].kind \in Requests
<3>1. CASE Says(t)
  BY <3>1 DEF Says, ToItsGuest
<3>2. CASE AnswersOne(t) \/ HearsDialog(t)
<4>1. PICK d : t.msgs = <<>> \/ (el.guest # 0
                                /\ t.msgs = <<Message("DialogClosed", el.guest, d)>>)
  BY <3>2 DEF AnswersOne, HearsDialog, Tells
<4> DEFINE m == Message("DialogClosed", el.guest, d)
<4>2. m.guest = el.guest /\ m.kind \in Requests
  BY DEF Message, Requests, Kinds
<4> HIDE DEF m
<4>3. CASE t.msgs = <<>>
  BY <4>3
<4>4. CASE t.msgs # <<>>
<5>1. el.guest # 0 /\ t.msgs = <<m>>
  BY <4>1, <4>4 DEF m
<5>2. \A k \in 1..Len(t.msgs) : t.msgs[k] = m
  BY <5>1, OneMessage
<5>3. QED
  BY <4>2, <5>1, <5>2
<4>5. QED
  BY <4>3, <4>4
<3>3. QED
  BY <1>8, <3>1, <3>2
<2>3. el.guest # 0 /\ el.bound = 0 => t.msgs = <<>> /\ down' = <<>>
  BY <1>3, <1>8 DEF ElementInv, Ready
<2>4. el.attached /\ el.guest = 0 => down' = <<>>
  BY <1>3, <1>8 DEF ElementInv
<2>5. QED
  BY <1>0, <1>3, <2>1, <2>2, <2>3, <2>4, SpeakingStaysCareful
\* The plugin is loaded.
<1>9. CASE GetsPlugin(t) /\ down' = down
<2>1. /\ el.attached /\ t.el.plugin /\ t.el.attached = el.attached
      /\ t.el.bound = el.bound /\ t.el.dying = el.dying
      /\ t.el.guest = el.guest /\ t.el.first = el.first
      /\ ~t.made /\ t.msgs = <<>>
  BY <1>9 DEF GetsPlugin
<2>2. QueueInv'
  BY <1>0, <1>3, <2>1, QueueAfterTurn
<2>3. /\ el.bound # 0 => UsableIn(registered', guests', up', el.bound, Len(up'))
      /\ up' = up
<3>1. el.bound # 0 => Usable(el.bound)
  BY <1>3 DEF ElementInv
<3>2. \A i \in 1..Len(t.msgs) : ~(Kills(t.msgs[i]) /\ t.msgs[i].guest = el.bound)
  BY <2>1
<3>3. QED
  BY <1>0, <2>1, <3>1, <3>2, UsableAfterTurn
<2>4. ElementInv'
  BY <1>0, <1>3, <1>4, <1>9, <2>1, <2>3 DEF ElementInv, Usable
<2>5. QED
  BY <2>2, <2>4
\* The timer attaches the guest that was made before the plugin was there.
<1>10. CASE BindsGuest(t) /\ down' = down
<2> DEFINE m == Message("Attach", el.guest, el.src)
<2>1. /\ el.plugin /\ el.guest # 0 /\ t.el.bound = el.guest
      /\ el.bound = 0
      /\ t.el.dying = el.dying
      /\ t.el.attached = el.attached /\ t.el.plugin = el.plugin
      /\ t.el.guest = el.guest /\ t.el.first = el.first
      /\ ~t.made /\ t.msgs = <<m>>
  BY <1>3, <1>10 DEF BindsGuest, ElementInv
<2>2. m.kind = "Attach" /\ m.guest = el.guest
  BY DEF Message
<2> HIDE DEF m
<2>3. registered = {el.guest} /\ \A i \in 1..Len(up) : up[i].guest # el.guest
  BY <1>3, <2>1 DEF ElementInv
<2>4. Len(t.msgs) = 1 /\ \A k \in 1..Len(t.msgs) : t.msgs[k] = m
  BY <2>1
<2>5. QueueInv'
<3>1. \A g \in t.el.dying : g \in el.dying \/ Doomed(g)'
  BY <2>1
<3>2. QED
  BY <1>0, <1>3, <2>1, <2>2, <2>4, <3>1, QueueAfterTurn
<2>6. UsableIn(registered', guests', up', el.guest, Len(up'))
<3>1. /\ Len(up) + 1 \in 1..Len(up') /\ up'[Len(up) + 1] = m
      /\ \A i \in 1..Len(up') : \/ /\ i \in 1..Len(up)
                                  /\ up'[i] = up[i]
                               \/ up'[i] = m
<4>1. /\ \A i \in 1..Len(up') : \/ /\ i \in 1..Len(up)
                                  /\ up'[i] = up[i]
                               \/ /\ i - Len(up) \in 1..Len(t.msgs)
                                  /\ up'[i] = t.msgs[i - Len(up)]
      /\ \A j \in 1..Len(t.msgs) : /\ Len(up) + j \in 1..Len(up')
                                   /\ up'[Len(up) + j] = t.msgs[j]
<5>1. up \in Seq(UpSet) /\ t.msgs \in Seq(UpSet) /\ up' = up \o t.msgs
  BY <1>0
<5>2. /\ \A i \in 1..Len(up') : \/ /\ i \in 1..Len(up)
                                  /\ up'[i] = up[i]
                               \/ /\ i > Len(up) /\ i - Len(up) \in 1..Len(t.msgs)
                                  /\ up'[i] = t.msgs[i - Len(up)]
      /\ \A j \in 1..Len(t.msgs) : /\ Len(up) + j \in 1..Len(up')
                                   /\ up'[Len(up) + j] = t.msgs[j]
  BY <5>1, JoinedList
<5>3. QED
  BY <5>2
<4>2. 1 \in 1..Len(t.msgs)
  BY <2>4
<4>3. /\ Len(up) + 1 \in 1..Len(up')
      /\ up'[Len(up) + 1] = m
  BY <2>4, <4>1, <4>2
<4>4. QED
  BY <2>4, <4>1, <4>3
<3>2. \A i \in 1..Len(up') : ~(Kills(up'[i]) /\ up'[i].guest = el.guest)
<4>1. ~Kills(m)
  BY <2>2 DEF Kills
<4>2. QED
  BY <2>3, <2>4, <3>1, <4>1
<3>3. up'[Len(up) + 1].kind = "Attach" /\ up'[Len(up) + 1].guest = el.guest
  BY <2>2, <2>4, <3>1
<3>4. el.guest \in registered'
  BY <1>4, <2>1, <2>3
<3>5. QED
  BY <3>1, <3>2, <3>3, <3>4 DEF UsableIn
<2>7. el.guest \notin el.dying
<3>1. el.guest \in el.dying => Doomed(el.guest)
  BY <1>3 DEF QueueInv
<3>2. QED
  BY <2>3, <3>1 DEF Doomed, DoomedIn
<2>8. ElementInv'
  BY <1>0, <1>3, <1>4, <2>1, <2>3, <2>6, <2>7 DEF ElementInv, Usable
<2>9. QED
  BY <2>5, <2>8
\* A plugin that is gone tells of its guest.
<1>11. CASE BuriesOne(t) /\ down' = down
<2>1. PICK g \in el.dying :
        /\ t.el.dying = el.dying \ {g}
        /\ t.msgs = <<Message("PluginDestroyed", g, NoUrl)>>
  BY <1>11 DEF BuriesOne
<2> DEFINE m == Message("PluginDestroyed", g, NoUrl)
<2>2. m.kind = "PluginDestroyed" /\ m.guest = g
  BY DEF Message
<2>3. t.msgs = <<m>>
  BY <2>1
<2> HIDE DEF m
<2>4. Len(t.msgs) = 1 /\ \A k \in 1..Len(t.msgs) : k = 1 /\ t.msgs[k] = m
  BY <2>3
<2>5. /\ t.el.attached = el.attached /\ t.el.plugin = el.plugin
      /\ t.el.bound = el.bound /\ t.el.guest = el.guest
      /\ t.el.first = el.first /\ ~t.made
  BY <1>11 DEF BuriesOne
<2>6. Doomed(g)
  BY <1>3 DEF QueueInv
<2>7. QueueInv'
<3>1. \A h \in t.el.dying : h \in el.dying \/ Doomed(h)'
  BY <2>1
<3>2. QED
  BY <1>0, <1>3, <2>2, <2>4, <2>5, <2>6, <3>1, QueueAfterTurn
<2>8. el.bound # 0 => UsableIn(registered', guests', up', el.bound, Len(up'))
<3>1. SUFFICES ASSUME el.bound # 0
               PROVE  UsableIn(registered', guests', up', el.bound, Len(up'))
  OBVIOUS
<3>2. Usable(el.bound) /\ el.bound # g
  BY <1>3, <2>1, <3>1 DEF ElementInv
<3>3. \A i \in 1..Len(t.msgs) : ~(Kills(t.msgs[i]) /\ t.msgs[i].guest = el.bound)
  BY <2>2, <2>4, <3>2
<3>4. QED
  BY <1>0, <2>5, <3>2, <3>3, UsableAfterTurn
<2>9. el.guest # 0 /\ el.bound = 0 => \A i \in 1..Len(up') : up'[i].guest # el.guest
<3>1. SUFFICES ASSUME el.guest # 0, el.bound = 0
               PROVE  \A i \in 1..Len(up') : up'[i].guest # el.guest
  OBVIOUS
<3>2. registered = {el.guest} /\ \A i \in 1..Len(up) : up[i].guest # el.guest
  BY <1>3, <3>1 DEF ElementInv
<3>3. g # el.guest
  BY <2>6, <3>2 DEF Doomed, DoomedIn
<3>4. \A i \in 1..Len(up') : \/ i \in 1..Len(up) /\ up'[i] = up[i]
                             \/ \E k \in 1..Len(t.msgs) : up'[i] = t.msgs[k]
  BY <1>0, JoinedList
<3>5. QED
  BY <2>2, <2>4, <3>2, <3>3, <3>4
<2>10. ElementInv'
  BY <1>0, <1>3, <1>4, <1>11, <2>1, <2>5, <2>8, <2>9 DEF ElementInv, Usable
<2>11. QED
  BY <2>7, <2>10
<1>12. \A a \in BOOLEAN : Parses(t, a) => Parsed(t, a)
  BY <1>0, ParsesFields
<1>13. QED
<2>1. \/ ~el.attached /\ Parsed(t, TRUE) /\ down' = down
         /\ registered = {} /\ down = <<>>
      \/ Parsed(t, TRUE) /\ down' = down /\ el.attached /\ Ready
      \/ LeavesDocument(t) /\ el.attached /\ Ready /\ down' = down
      \/ /\ Says(t) \/ AnswersOne(t) \/ HearsDialog(t)
         /\ \/ down' = down /\ (Ready \/ t.msgs = <<>>)
            \/ down # <<>> /\ down' = Tail(down)
      \/ GetsPlugin(t) /\ down' = down
      \/ BindsGuest(t) /\ down' = down
      \/ BuriesOne(t) /\ down' = down
  BY <1>0, <1>1, <1>12 DEF RendererStep, Does
<2>2. QED
  BY <1>5, <1>6, <1>7, <1>8, <1>9, <1>10, <1>11, <2>1

\* Nothing is promised at first,
LEMMA InitCareful ==
  ASSUME Init
  PROVE  CarefulInv
<1>1. /\ registered = {} /\ crashed = "no" /\ up = <<>> /\ down = <<>>
  BY DEF Init, GuestInit
<1>2. el.guest = 0 /\ el.bound = 0 /\ el.dying = {} /\ ~el.attached /\ ~el.plugin /\ el.first
  BY DEF Init, NewElement
<1>3. ElementInv
  BY <1>1, <1>2 DEF ElementInv
<1>4. QueueInv
  BY <1>1, <1>2 DEF QueueInv, QueueSound
<1>5. QED
  BY <1>1, <1>3, <1>4 DEF CarefulInv

\* and every step keeps the promises.
LEMMA NextCareful ==
  ASSUME BookInv, CarefulInv, [Next]_vars
  PROVE  CarefulInv'
<1>1. CASE Next
<2>1. CASE \E c \in BrowserStates : BrowserStep(c) /\ UNCHANGED <<el, turns, careless>>
  BY <2>1, BrowserKeepsCareful
<2>2. CASE \E t : RendererStep(t)
  BY <2>2, RendererKeepsCareful
<2>3. QED
  BY <1>1, <2>1, <2>2, EveryStep DEF BookInv
<1>2. CASE UNCHANGED vars
<2>1. ElementInv => ElementInv'
  BY <1>2 DEF ElementInv, Usable, UsableIn, vars, guestVars
<2>2. QueueInv => QueueInv'
  BY <1>2 DEF QueueInv, QueueSound, UsableIn, Doomed, DoomedIn, Busy, vars, guestVars
<2>3. QED
  BY <1>2, <2>1, <2>2 DEF CarefulInv, Running, vars, guestVars
<1>3. QED
  BY <1>1, <1>2

\* A page that uses its element only while it is in the document and its guest
\* in place never makes the browser use a guest that is gone or has no window,
\* for any number of guests, addresses, dialogs and turns, and however the
\* messages of the two processes, the plugin and the timer interleave.
THEOREM CarefulPagesAlwaysSafe == Spec => []CarefulPagesNeverCrash
<1>1. Init => CarefulInv
  BY InitCareful
<1>2. BookInv /\ CarefulInv /\ [Next]_vars => CarefulInv'
  BY NextCareful
<1>3. CarefulInv => CarefulPagesNeverCrash
  BY DEF CarefulInv, CarefulPagesNeverCrash
<1>4. QED
  BY <1>1, <1>2, <1>3, BooksHold, PTL DEF Spec

-----------------------------------------------------------------------------
(* Every script that writes src navigates. *)

\* A script on an element with a guest asks that guest for what it wrote, and
\* for the address it leaves last.
LEMMA ScriptLoads ==
  ASSUME TypeInv, NEW values \in Scripts, PageSetsSrc(values), el.guest # 0
  PROVE  /\ \A i \in (Len(up) + 1)..Len(up') :
              /\ up'[i].kind = "LoadUrl" /\ up'[i].guest = el.guest
              /\ up'[i].arg \in Range(values) \union {el.attr}
         /\ el'.attr # NoUrl
              => Len(up') > Len(up) /\ up'[Len(up')].arg = el'.attr
<1> DEFINE t == src_observer(Script(Turn, values))
           A == Range(values) \union {el.attr}
<1>1. /\ Sound(t)
      /\ Says(t) \/ (Founds(t) /\ el.guest = 0)
      /\ Drawn(t, A) /\ (el.guest # 0 /\ t.el.attr # NoUrl => Lasts(t))
  BY ScriptTurn
<1>2. up' = up \o t.msgs /\ el' = t.el
  BY DEF PageSetsSrc, PageActs, Runs
<1> HIDE DEF t, A
<1>3. Navigates(t.msgs, A)
  BY <1>1 DEF Drawn, Founds
<1>4. up \in Seq(UpSet) /\ t.msgs \in Seq(UpSet)
  BY <1>1 DEF TypeInv, Sound, Turns
<1>5. /\ Len(up') = Len(up) + Len(t.msgs)
      /\ Len(up) \in Nat /\ Len(t.msgs) \in Nat
      /\ \A i \in 1..Len(up') : \/ i \in 1..Len(up)
                                \/ /\ i - Len(up) \in 1..Len(t.msgs)
                                   /\ up'[i] = t.msgs[i - Len(up)]
<2>1. LET s == up \o t.msgs
      IN  /\ Len(s) = Len(up) + Len(t.msgs)
          /\ Len(up) \in Nat /\ Len(t.msgs) \in Nat
          /\ \A i \in 1..Len(s) : \/ i \in 1..Len(up)
                                  \/ /\ i - Len(up) \in 1..Len(t.msgs)
                                     /\ s[i] = t.msgs[i - Len(up)]
  BY <1>4, JoinedList
<2>2. QED
  BY <1>2, <2>1
<1>6. ASSUME NEW i \in (Len(up) + 1)..Len(up')
      PROVE  /\ up'[i].kind = "LoadUrl" /\ up'[i].guest = el.guest
             /\ up'[i].arg \in A
<2>1. i \in 1..Len(up') /\ i \notin 1..Len(up)
  BY <1>5
<2>2. i - Len(up) \in 1..Len(t.msgs) /\ up'[i] = t.msgs[i - Len(up)]
  BY <1>5, <2>1
<2>3. QED
  BY <1>3, <2>2 DEF Navigates
<1>7. ASSUME el'.attr # NoUrl
      PROVE  Len(up') > Len(up) /\ up'[Len(up')].arg = el'.attr
<2>1. Len(t.msgs) > 0 /\ t.msgs[Len(t.msgs)].arg = el'.attr
  BY <1>1, <1>2, <1>7 DEF Lasts
<2>2. /\ Len(up') > Len(up) /\ Len(up') \in 1..Len(up')
      /\ Len(up') \notin 1..Len(up) /\ Len(up') - Len(up) = Len(t.msgs)
  BY <1>5, <2>1
<2>3. up'[Len(up')] = t.msgs[Len(t.msgs)]
  BY <1>5, <2>2
<2>4. QED
  BY <2>1, <2>2, <2>3
<1>8. QED
  BY <1>6, <1>7 DEF A

\* A single write asks once at most.
LEMMA OneWriteLoadsOnce ==
  ASSUME TypeInv, NEW values \in Scripts, Len(values) = 1, PageSetsSrc(values),
         el.guest # 0
  PROVE  Len(up') <= Len(up) + 1
<1> DEFINE t == src_observer(Script(Turn, values))
<1>1. (Says(t) /\ t.msgs = <<>>) \/ Parses(t, el.attached)
  BY OneWriteTurn
<1>2. Sound(t)
  BY ScriptTurn
<1>3. up' = up \o t.msgs
  BY DEF PageSetsSrc, PageActs, Runs
<1> HIDE DEF t
<1>4. t.msgs = <<>> \/ \E m : t.msgs = <<m>>
<2>1. Parses(t, el.attached) => Parsed(t, el.attached)
<3>1. el.attached \in BOOLEAN
  BY ElementIsAny DEF AnyElement
<3>2. QED
  BY <3>1, ParsesFields
<2>2. QED
  BY <1>1, <2>1 DEF Parsed
<1>5. up \in Seq(UpSet) /\ t.msgs \in Seq(UpSet)
  BY <1>2 DEF TypeInv, Sound, Turns
<1>6. Len(t.msgs) <= 1 /\ Len(t.msgs) \in Nat /\ Len(up) \in Nat
<2>1. CASE t.msgs = <<>>
  BY <1>5, <2>1
<2>2. ASSUME NEW m, t.msgs = <<m>> PROVE Len(t.msgs) <= 1
<3>1. Len(<<m>>) = 1
  OBVIOUS
<3>2. QED
  BY <2>2, <3>1
<2>3. QED
  BY <1>4, <1>5, <2>1, <2>2
<1>7. Len(up') = Len(up) + Len(t.msgs)
  BY <1>3, <1>5, JoinedList
<1>8. QED
  BY <1>6, <1>7

\* A navigation of the guest itself sends none.
LEMMA CommitsAreQuiet ==
  ASSUME TypeInv, HandleEvent, Head(down).kind = "did-commit"
  PROVE  Len(up') = Len(up)
<1>1. down # <<>> /\ \E kept \in BOOLEAN : Runs(event_handler(Turn, Head(down), kept))
  BY DEF HandleEvent
<1>2. PICK kept \in BOOLEAN : Runs(event_handler(Turn, Head(down), kept))
  BY <1>1
<1> DEFINE t == src_observer(event_handler(Turn, Head(down), kept))
<1>3. up' = up \o t.msgs
  BY <1>2 DEF Runs
<1>4. t.msgs = <<>>
  BY <1>1, EventTurns
<1> HIDE DEF t
<1>5. up \in Seq(UpSet)
  BY DEF TypeInv
<1>6. QED
  BY <1>3, <1>4, <1>5

\* Whatever the page and the guest did before, a script that writes src of an
\* element with a guest, any number of times, has the guest asked for what it
\* wrote and, last of all, for the address it leaves, also when the address
\* did not change and the mutation observer has to notice; a single write asks
\* once, and an address the guest went to by itself is not asked for again.
THEOREM AssignmentsAlwaysNavigate == Spec => AssignmentsNavigate
<1> DEFINE Right ==
             /\ \A values \in Scripts :
                  PageSetsSrc(values) /\ el.guest # 0
                    => /\ \A i \in (Len(up) + 1)..Len(up') :
                            /\ up'[i].kind = "LoadUrl" /\ up'[i].guest = el.guest
                            /\ up'[i].arg \in Range(values) \union {el.attr}
                       /\ el'.attr # NoUrl
                            => Len(up') > Len(up) /\ up'[Len(up')].arg = el'.attr
                       /\ Len(values) = 1 => Len(up') <= Len(up) + 1
             /\ HandleEvent /\ Head(down).kind = "did-commit"
                  => Len(up') = Len(up)
<1>1. TypeInv => Right
  BY ScriptLoads, OneWriteLoadsOnce, CommitsAreQuiet
<1>2. TypeInv /\ [Next]_vars => [Right]_vars
  BY <1>1
<1>3. QED
  BY <1>2, TypesHold, PTL DEF Spec, AssignmentsNavigate
=============================================================================
