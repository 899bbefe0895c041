---------------------------- MODULE APIContract ----------------------------
(***************************************************************************)
(* What the Thrust shell promises to the program that drives it over       *)
(* standard input and output.  Only what the two ends can see is here: the *)
(* actions written by the client and the messages written by the shell.    *)
(* APIServer is shown to implement this specification.                     *)
(*                                                                         *)
(* The promise:                                                            *)
(*   - actions are answered in the order they were written, each at most   *)
(*     once; but one call on a menu at a time may be answered later than   *)
(*     actions written after it (while the menu is open);                  *)
(*   - a create is answered with a target that no earlier create was given *)
(*     (0 when there is no such type);                                     *)
(*   - the shell names a target in an event or an invocation only after    *)
(*     the client was told of it, and never after it has acknowledged its  *)
(*     deletion;                                                           *)
(*   - events and invocations carry consecutive identifiers, so that an    *)
(*     identifier names one invocation only.                               *)
(***************************************************************************)
EXTENDS Naturals, Sequences

CONSTANTS
  Types,          \* the types a binding factory is installed for
  UnknownType,    \* stands for every other type name
  SessionType,    \* the type of the objects that may invoke remote methods
  MenuType        \* the type of the objects that may let a call wait

VARIABLES
  sent,           \* actions written by the client, oldest first
  out             \* messages written by the shell, oldest first

(***************************************************************************)
(* The position of an action in `sent' is its _id: client libraries number *)
(* their actions.  In a "create", target is the session the new window is  *)
(* to use (0: the default one); in a "reply", it is the invocation's id.   *)
(***************************************************************************)
NoType == ""

Action == [action : {"create", "call", "delete", "reply"},
           type   : Types \union {UnknownType, NoType},
           target : Nat]

Message == [kind : {"reply", "event", "invoke"}, id : Nat, target : Nat]

Expected == {"create", "call", "delete"}

IsReply(m) == m.kind = "reply"

Created(t) == \E j \in DOMAIN out : IsReply(out[j]) /\ out[j].target = t

Deleted(t) ==
  \E j \in DOMAIN out : /\ IsReply(out[j])
                        /\ sent[out[j].id].action = "delete"
                        /\ sent[out[j].id].target = t

Answered(i) == \E j \in DOMAIN out : IsReply(out[j]) /\ out[j].id = i

(* The type the target t was asked for. *)
OfType(t, ty) ==
  \E j \in DOMAIN out : /\ IsReply(out[j]) /\ out[j].target = t
                        /\ sent[out[j].id].type = ty

(* An answer comes in its turn, or after answers to later actions if it is *)
(* that of a call on a menu; those then came in their turn, all of them    *)
(* since the first: there is one such call at a time.                      *)
Overtakes(j, i) == IsReply(out[j]) /\ out[j].id > i

MayWait(a) == a.action = "call" /\ OfType(a.target, MenuType)

InTurn(i) ==
  /\ (\E j \in DOMAIN out : Overtakes(j, i)) => MayWait(sent[i])
  /\ \A j, k \in DOMAIN out :
       Overtakes(j, i) /\ j < k /\ IsReply(out[k]) => out[j].id < out[k].id

(* The identifiers of events and invocations are 1, 2, 3, ... *)
FollowsPushes(id) ==
  LET Used == {out[j].id : j \in {k \in DOMAIN out : ~IsReply(out[k])}}
  IN  /\ \A i \in Used : i < id
      /\ id = 1 \/ \E i \in Used : id = i + 1

(* A client names only what it was told of. *)
WellFormed(a) ==
  CASE a.action = "create" -> a.target = 0 \/ Created(a.target)
    [] a.action \in {"call", "delete"} -> a.type = NoType /\ Created(a.target)
    [] a.action = "reply" ->
         /\ a.type = NoType
         /\ \E j \in DOMAIN out : out[j].kind = "invoke" /\ out[j].id = a.target

Init == sent = <<>> /\ out = <<>>

(***************************************************************************)
(* The three steps.  The new element is the last of the longer sequence,   *)
(* which leaves the steps free of quantifiers over infinite sets.          *)
(***************************************************************************)
Extends(s, t) == Len(t) = Len(s) + 1 /\ t = Append(s, t[Len(t)])

Write ==
  LET a == sent'[Len(sent')]
  IN  /\ Extends(sent, sent')
      /\ a \in Action /\ WellFormed(a)
      /\ UNCHANGED out

Answer ==
  LET m == out'[Len(out')]
  IN  /\ Extends(out, out')
      /\ IsReply(m) /\ m.id \in DOMAIN sent
      /\ sent[m.id].action \in Expected
      /\ ~Answered(m.id) /\ InTurn(m.id)
      /\ m.target # 0 => sent[m.id].action = "create" /\ ~Created(m.target)
      /\ UNCHANGED sent

Push ==
  LET m == out'[Len(out')]
  IN  /\ Extends(out, out')
      /\ ~IsReply(m) /\ FollowsPushes(m.id)
      /\ m.target # 0 /\ Created(m.target) /\ ~Deleted(m.target)
      /\ UNCHANGED sent

Next == Write \/ Answer \/ Push

Spec == Init /\ [][Next]_<<sent, out>>
=============================================================================
