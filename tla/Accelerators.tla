---------------------------- MODULE Accelerators ----------------------------
(***************************************************************************)
(* accelerator_util: the text of an accelerator, cut at its plus signs     *)
(* into tokens of lower case, becomes a key with modifiers or nothing.     *)
(* A token is a record; one of a single character is the key it names and  *)
(* whether the character is the shifted one of that key.                   *)
(***************************************************************************)
EXTENDS Integers, Sequences, FiniteSets

CONSTANTS
  Mac,        \* whether this is the build for OS X
  Tokens,     \* the tokens a text may have
  MaxTokens   \* bound: how many of them

\* Key codes.
VKEY_UNKNOWN == 0
VKEY_F1 == 112
VKEY_1 == 49
VKEY_A == 65
VKEY_TAB == 9

NoAccelerator == [ok |-> FALSE]

\* KeyboardCodeFromCharCode: a letter, a digit, the character shift gives on
\* the key of that digit, and a character without a key.
Char(c) ==
  CASE c = "a" -> [kind |-> "key", key |-> VKEY_A, shifted |-> FALSE]
    [] c = "1" -> [kind |-> "key", key |-> VKEY_1, shifted |-> FALSE]
    [] c = "!" -> [kind |-> "key", key |-> VKEY_1, shifted |-> TRUE]
    [] OTHER -> [kind |-> "key", key |-> VKEY_UNKNOWN, shifted |-> FALSE]

Named(key) == [kind |-> "key", key |-> key, shifted |-> FALSE]
Modifier(name) == [kind |-> "modifier", name |-> name]
FunctionKey(n) == [kind |-> "function", n |-> n]
Invalid == [kind |-> "invalid"]

ModifierNames == {"ctrl", "control", "cmd", "command", "commandorcontrol",
                  "cmdorctrl", "alt", "shift"}

\* Nothing limits the number after an f to the twenty-four keys there are.
AllTokens ==
  [kind : {"key"}, key : Nat, shifted : BOOLEAN]
    \union [kind : {"modifier"}, name : ModifierNames]
    \union [kind : {"function"}, n : Int]
    \union {Invalid}

ASSUME AcceleratorsAssumption ==
  Mac \in BOOLEAN /\ MaxTokens \in Nat /\ Tokens \subseteq AllTokens

EF(name) ==
  CASE name \in {"ctrl", "control"} -> {"CONTROL"}
    [] name \in {"cmd", "command"} -> {"COMMAND"}
    [] name \in {"commandorcontrol", "cmdorctrl"} ->
         IF Mac THEN {"COMMAND"} ELSE {"CONTROL"}
    [] name = "alt" -> {"ALT"}
    [] name = "shift" -> {"SHIFT"}

\* One turn of the loop over the tokens.
Token_KeyResets(a, t) ==
  IF ~a.ok THEN a
  ELSE CASE t.kind = "key" -> [a EXCEPT !.key = t.key,
                !.modifiers = IF t.shifted THEN {"SHIFT"} ELSE @]
         [] t.kind = "modifier" -> [a EXCEPT !.modifiers = @ \cup EF(t.name)]
         [] t.kind = "function" -> [a EXCEPT !.key = VKEY_F1 + t.n - 1]
         [] OTHER -> NoAccelerator

Token(a, t) ==
  IF ~a.ok THEN a
  ELSE CASE t.kind = "key" -> [a EXCEPT !.key = t.key,
                !.modifiers = IF t.shifted THEN @ \cup {"SHIFT"} ELSE @]
         [] t.kind = "modifier" -> [a EXCEPT !.modifiers = @ \cup EF(t.name)]
         [] t.kind = "function" -> [a EXCEPT !.key = VKEY_F1 + t.n - 1]
         [] OTHER -> NoAccelerator

StringToAccelerator(tokens) ==
  LET f[i \in 0..Len(tokens)] ==
        IF i = 0 THEN [ok |-> TRUE, key |-> VKEY_UNKNOWN, modifiers |-> {}]
        ELSE Token(f[i - 1], tokens[i])
      a == f[Len(tokens)]
  IN  IF a.ok /\ a.key = VKEY_UNKNOWN THEN NoAccelerator ELSE a

-----------------------------------------------------------------------------

IsKey(t) == t.kind \in {"key", "function"}

TokensOf(s) == {s[i] : i \in DOMAIN s}

\* What a text means does not depend on the order of its parts: of two texts
\* with the same tokens, one key among them, in whatever order, the two are
\* the same accelerator, or neither is one.
OrderIsNothing ==
  \A s, t \in UNION {[1..n -> Tokens] : n \in 1..MaxTokens} :
    /\ TokensOf(s) = TokensOf(t)
    /\ Cardinality({k \in TokensOf(s) : IsKey(k)}) = 1
    => StringToAccelerator(s) = StringToAccelerator(t)

\* A shifted character says what shift and its key say.
ShiftedIsShift ==
  \A m \in {x \in Tokens : x.kind = "modifier"} :
    StringToAccelerator(<<m, Char("!")>>) =
      StringToAccelerator(<<m, Modifier("shift"), Char("1")>>)
=============================================================================
