------------------------------ MODULE JsonText ------------------------------
(***************************************************************************)
(* json.c: the values of the control interface, the text they are written  *)
(* as, and the parser that reads it.                                       *)
(*                                                                         *)
(* A value is a record with its type in t.  An object is the sequence of   *)
(* its pairs; KeyOrder lists the names in the order of strcmp.  A number   *)
(* is counted in tenths, for the fractions that formatting drops.  A text  *)
(* is a sequence of characters and of words (numbers, the three literals)  *)
(* that neither side takes apart; the blanks and line ends between them,   *)
(* which the parser skips wherever the formatting puts one, are left out.  *)
(***************************************************************************)
EXTENDS Integers, Sequences, SequencesExt, TLC

CONSTANTS KeyOrder,      \* all names, as keys are ordered
          MaxNumber      \* bound on the numbers that occur

json_null == [t |-> "null"]
json_bool(b) == [t |-> "bool", b |-> b]
json_number(tenths) == [t |-> "number", n |-> tenths]
json_integer(n) == json_number(10 * n)
json_string(s) == [t |-> "string", s |-> s]
json_array(a) == [t |-> "array", a |-> a]
json_new_object == [t |-> "object", o |-> << >>]

-----------------------------------------------------------------------------
(***************************************************************************)
(* Objects.                                                                *)
(***************************************************************************)
Rank == [name \in Range(KeyOrder) |-> CHOOSE i \in DOMAIN KeyOrder : KeyOrder[i] = name]

strcmp(j, k) == Rank[j] - Rank[k]

(***************************************************************************)
(* The binary search of json_object_lookup_or_install among count pairs    *)
(* from the one at l: where the key is, or 0 with the place where the      *)
(* search ended.                                                           *)
(***************************************************************************)
Search(o, name) ==
    LET Narrow[count \in 1 .. Len(o), l \in 1 .. Len(o)] ==
          LET n == count \div 2
              c == strcmp(o[l + n].k, name)
          IN  CASE c = 0 -> [found |-> l + n, l |-> l]
                [] c # 0 /\ n = 0 -> [found |-> 0, l |-> l]
                [] c < 0 /\ n # 0 -> Narrow[count - n, l + n]
                [] OTHER -> Narrow[n, l]
    IN  CASE o = << >> -> [found |-> 0, l |-> 0]
          [] o # << >> /\ strcmp(Head(o).k, name) > 0 -> [found |-> 0, l |-> 0]
          [] o # << >> /\ strcmp(Last(o).k, name) < 0 -> [found |-> 0, l |-> Len(o)]
          [] OTHER -> Narrow[Len(o), 1]

\* The last pair from l on whose key precedes the name.
InsertAfter(o, l, name) ==
    IF l = 0 THEN 0
    ELSE CHOOSE i \in l .. Len(o) :
            /\ \A j \in l + 1 .. i : strcmp(o[j].k, name) < 0
            /\ i < Len(o) => strcmp(o[i + 1].k, name) >= 0

json_object_set(obj, name, val) ==
    LET s == Search(obj.o, name)
        pair == [k |-> name, v |-> val]
    IN  [obj EXCEPT !.o = IF s.found # 0 THEN ReplaceAt(@, s.found, pair)
                          ELSE InsertAt(@, InsertAfter(@, s.l, name) + 1, pair)]

\* A name that is not there has no value.
json_object_get(obj, name) ==
    LET s == Search(obj.o, name)
    IN  IF s.found = 0 THEN [found |-> FALSE]
        ELSE [found |-> TRUE, v |-> obj.o[s.found].v]

\* An object with several pairs, set one after the other.
Object(pairs) ==
    LET First[i \in 0 .. Len(pairs)] ==
          IF i = 0 THEN json_new_object
          ELSE json_object_set(First[i - 1], pairs[i][1], pairs[i][2])
    IN  First[Len(pairs)]

-----------------------------------------------------------------------------
(***************************************************************************)
(* The characters that are written with a backslash.  Backspace, form feed *)
(* and carriage return are left out: get_line admits none of them in the   *)
(* text of a request.                                                      *)
(***************************************************************************)
Escapes == << << "\"", "\"" >>, << "\\", "\\" >>, << "LF", "n" >>, << "TAB", "t" >> >>

QuoteForgotten(c) == IF c = "\\" THEN "\\" ELSE "none"     \* mutant

escape(c) == LET at == {i \in DOMAIN Escapes : Escapes[i][1] = c}
             IN  IF at = {} THEN "none" ELSE Escapes[CHOOSE i \in at : TRUE][2]

unescape(c) == LET at == {i \in DOMAIN Escapes : Escapes[i][2] = c}
               IN  IF at = {} THEN "none" ELSE Escapes[CHOOSE i \in at : TRUE][1]

json_format_escape(s) ==
    << "\"" >>
    \o FlattenSeq([i \in DOMAIN s |-> IF escape(s[i]) = "none" THEN << s[i] >>
                                      ELSE << "\\", escape(s[i]) >>])
    \o << "\"" >>

\* "%.0f": to the nearest integer, halves to the even one.
Rounded(tenths) ==
    LET q == tenths \div 10
        r == tenths % 10
    IN  IF r > 5 \/ (r = 5 /\ q % 2 = 1) THEN q + 1 ELSE q

\* The items of an array or an object, each already written.
Enclosed(open, items, close) ==
    << open >> \o FlattenSeq([i \in DOMAIN items |-> IF i = 1 THEN items[i] ELSE << "," >> \o items[i]])
    \o << close >>

\* A pair of an object whose value is already written.
json_format_pair(k, text) == json_format_escape(<< k >>) \o << ":" >> \o text

RECURSIVE json_value_format(_)
json_value_format(v) ==
    LET Pair(p) == json_format_pair(p.k, json_value_format(p.v))
    IN  CASE v.t = "null"   -> << "null" >>
          [] v.t = "bool"   -> << IF v.b THEN "true" ELSE "false" >>
          [] v.t = "number" -> << ToString(Rounded(v.n)) >>
          [] v.t = "string" -> json_format_escape(v.s)
          [] v.t = "array"  ->
                Enclosed("[", [i \in DOMAIN v.a |-> json_value_format(v.a[i])], "]")
          [] v.t = "object" -> Enclosed("{", [i \in DOMAIN v.o |-> Pair(v.o[i])], "}")

-----------------------------------------------------------------------------
(***************************************************************************)
(* json_parse_string, one turn of its loop at a time: the input that is    *)
(* left, the stack of objects and arrays that are open, the result.        *)
(***************************************************************************)
\* The character at place i; past the end there is the final zero.
CharAt(s, i) == IF i <= Len(s) THEN s[i] ELSE "NUL"

\* j_get_text: s begins with a quote.
j_get_text(s) ==
    LET Scan[i \in 2 .. Len(s) + 1] ==
          CASE CharAt(s, i) = "NUL" -> [ok |-> FALSE]
            [] CharAt(s, i) = "\"" -> [ok |-> TRUE, text |-> << >>,
                                       rest |-> SubSeq(s, i + 1, Len(s))]
            [] CharAt(s, i) = "\\" /\ i >= Len(s) -> [ok |-> FALSE]
            [] CharAt(s, i) = "\\" /\ i < Len(s) ->
                 LET c == unescape(s[i + 1])
                     r == Scan[i + 2]
                 IN  IF ~r.ok THEN r
                     ELSE [r EXCEPT !.text =
                             << IF c = "none" THEN s[i + 1] ELSE c >> \o @]
            [] OTHER -> LET r == Scan[i + 1]
                        IN  IF r.ok THEN [r EXCEPT !.text = << s[i] >> \o @] ELSE r
    IN  Scan[2]

NoKey == << >>

j_context_push(p, obj) ==
    [p EXCEPT !.in = Tail(@), !.ctx = Append(@, [obj |-> obj, key |-> NoKey])]

j_context_type(p) == IF p.ctx = << >> THEN "null" ELSE Last(p.ctx).obj.t

Fails(p, code) == [p EXCEPT !.res = code]

\* What the loop expects after a value that belongs to an open one.
Delimiter(p) ==
    CASE CharAt(p.in, 1) = "," -> [p EXCEPT !.in = Tail(@)]
      [] CharAt(p.in, 1) \in {"]", "}"} -> p
      [] OTHER -> Fails(p, "BADDELIM")

\* A value has been read: it is the result, or the next member of the
\* innermost array or object.
Place(p, v) ==
    LET top == Last(p.ctx)
        With(obj) == Delimiter([p EXCEPT !.ctx =
                        Append(Front(@), [obj |-> obj, key |-> NoKey])])
    IN  CASE p.ctx = << >> -> [p EXCEPT !.res = "NOERR", !.val = v]
          [] p.ctx # << >> /\ top.obj.t = "array" ->
                With([top.obj EXCEPT !.a = Append(@, v)])
          [] p.ctx # << >> /\ top.obj.t = "object" /\ top.key = NoKey ->
                Fails(p, "BADTOK")
          [] OTHER -> With(json_object_set(top.obj, top.key[1], v))

\* A string is a key when it is the first in its pair.
TextRead(p, g) ==
    LET q == [p EXCEPT !.in = g.rest]
    IN  CASE ~g.ok -> Fails(p, "BADSTRING")
          [] g.ok /\ j_context_type(p) = "object" /\ Last(p.ctx).key = NoKey ->
                IF CharAt(q.in, 1) # ":" THEN Fails(q, "BADDELIM")
                ELSE [q EXCEPT !.in = Tail(@),
                               !.ctx[Len(p.ctx)].key = g.text]
          [] OTHER -> Place(q, json_string(g.text))

Numbers == [s \in {ToString(n) : n \in 0 .. MaxNumber} |->
              CHOOSE n \in 0 .. MaxNumber : ToString(n) = s]

Turn(p) ==
    LET c == CharAt(p.in, 1)
        rest == [p EXCEPT !.in = Tail(@)]
        Pop(q) == [q EXCEPT !.ctx = Front(@)]
        Closed(type) == IF j_context_type(p) # type THEN Fails(p, "BADTOK")
                        ELSE Place(Pop(rest), Last(p.ctx).obj)
    IN  CASE c = "[" -> j_context_push(p, json_array(<< >>))
          [] c = "{" -> j_context_push(p, json_new_object)
          [] c = "]" -> Closed("array")
          [] c = "}" -> Closed("object")
          [] c = "\"" -> TextRead(p, j_get_text(p.in))
          [] c \in DOMAIN Numbers -> Place(rest, json_integer(Numbers[c]))
          [] c = "null"  -> Place(rest, json_null)
          [] c = "true"  -> Place(rest, json_bool(TRUE))
          [] c = "false" -> Place(rest, json_bool(FALSE))
          [] OTHER -> Fails(p, "BADTOK")

json_parse_string(s) ==
    LET RECURSIVE Run(_)
        Run(p) == IF p.res = "none" THEN Run(Turn(p)) ELSE p
    IN  Run([in |-> s, ctx |-> << >>, res |-> "none", val |-> json_null])

-----------------------------------------------------------------------------
\* The value as a reader of the text sees it: numbers without fractions.
RECURSIVE Shown(_)
Shown(v) ==
    CASE v.t = "number" -> json_integer(Rounded(v.n))
      [] v.t = "array"  -> [v EXCEPT !.a = [i \in DOMAIN @ |-> Shown(@[i])]]
      [] v.t = "object" -> [v EXCEPT !.o = [i \in DOMAIN @ |->
                                              [@[i] EXCEPT !.v = Shown(@)]]]
      [] OTHER -> v
=============================================================================
