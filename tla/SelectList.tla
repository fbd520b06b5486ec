------------------------------ MODULE SelectList ------------------------------
(***************************************************************************)
(* What regress-scraper reads off a SELECT and the probe it makes of it    *)
(* (parse.rs, preprocess.rs).  A statement is the sequence of what follows *)
(* the word SELECT; quotes are characters of it, so that brackets, commas  *)
(* and names also occur inside literals.  Blanks are left out; so are line *)
(* breaks, but for the LF that ends a line comment.                        *)
(*   st_f     a function of the catalog                                    *)
(*   st_parse a function of the catalog that parses WKT                    *)
(*   WKT      POINT(1 2), what looks_like_wkt accepts as a literal body    *)
(*   ::text   a cast that is there already                                 *)
(*   wide     a character outside ASCII, of two bytes                      *)
(***************************************************************************)
EXTENDS Naturals, Sequences, SequencesExt, Selection

CONSTANT NoLabel    \* a statement without a label

OfInterest == {"st_f", "st_parse"}

\* The words extract_top_calls stops at.  ORDER BY, GROUP BY, HAVING, LIMIT
\* and UNION are none of them.
Stops == {"FROM"}

\* Bytes pushed `as char`: of each one outside ASCII a character is made.
AsChars(s) ==
    FlattenSeq([i \in DOMAIN s |->
        IF s[i] = "wide" THEN <<"wide", "wide">> ELSE <<s[i]>>])

QuotesBefore(s, i) == Cardinality({k \in 1..(i - 1) : s[k] = "'"})

\* Positions outside literals.  A doubled quote closes and opens again.
Bare(s) == {i \in DOMAIN s : s[i] # "'" /\ QuotesBefore(s, i) % 2 = 0}

\* Opening and closing brackets before i balance.
Outermost(s, i) ==
    LET before(bracket) ==
          Cardinality({k \in Bare(s) : k < i /\ s[k] = bracket})
    IN  before("(") = before(")")

\* extract_top_calls: calls outside all brackets, up to the first stop.
TopCalls(s) ==
    InOrder({i \in Bare(s) :
                /\ s[i] \in OfInterest
                /\ i + 1 \in Bare(s) /\ s[i + 1] = "("
                /\ Outermost(s, i)
                /\ \A k \in Bare(s) :
                      k < i /\ s[k] \in Stops => ~Outermost(s, k)})

Functions(s) == LET calls == TopCalls(s) IN [n \in DOMAIN calls |-> s[calls[n]]]

\* The closing quote of the literal that opens at i, 0 when there is none.
ClosingQuote(s, i) ==
    LET closing == {j \in (i + 1)..Len(s) :
                       /\ s[j] = "'" /\ QuotesBefore(s, j) % 2 = 1
                       /\ j < Len(s) => s[j + 1] # "'"}
    IN  IF closing = {} THEN 0 ELSE Min(closing)

Labelled(s) ==
    /\ s # << >> /\ s[1] = "'" /\ ClosingQuote(s, 1) \notin {0, Len(s)}
    /\ s[ClosingQuote(s, 1) + 1] = ","

ExtractLabel(s) ==
    IF Labelled(s) THEN AsChars(SubSeq(s, 2, ClosingQuote(s, 1) - 1))
    ELSE NoLabel

StripLeadingLabel(s) ==
    IF Labelled(s) THEN SubSeq(s, ClosingQuote(s, 1) + 2, Len(s)) ELSE s

-----------------------------------------------------------------------------
(* inject_geometry_casts reads a row once, with a scanner of its own.      *)

\* No name, or nothing read of a literal yet.
Nameless == ""

\* What is known in front of a token: what it stands in ("quote": behind a
\* quote that ends a literal unless another follows), the first token of the
\* last literal, the name just read, the names in front of the open brackets.
AtStart == [in |-> "code", body |-> Nameless, ident |-> Nameless, open |-> << >>]

PastLiteral(st, token) ==
    [st EXCEPT !.in = IF token = "'" THEN "quote" ELSE "literal",
               !.body = IF @ = Nameless THEN token ELSE @]

\* Only a name, and blanks, may stand between a bracket and the name of the
\* function called.  A closing bracket too many pops nothing.
PastCode(st, token) ==
    [in |-> CASE token = "'" -> "literal"
              [] token = "--" -> "line"
              [] token = "/*" -> "block"
              [] OTHER -> "code",
     body |-> IF token = "'" THEN Nameless ELSE st.body,
     ident |-> IF token \in OfInterest THEN token ELSE Nameless,
     open |-> CASE token = "(" -> Append(st.open, st.ident)
                [] token = ")" /\ st.open # << >> -> Front(st.open)
                [] OTHER -> st.open]

Past(st, token) ==
    CASE st.in = "literal" -> PastLiteral(st, token)
      [] st.in = "quote" /\ token = "'" -> [st EXCEPT !.in = "literal"]
      [] st.in = "line" -> [st EXCEPT !.in = IF token = "LF" THEN "code" ELSE @]
      [] st.in = "block" -> [st EXCEPT !.in = IF token = "*/" THEN "code" ELSE @]
      [] OTHER -> PastCode(st, token)

StateAt(s, i) ==
    LET after[k \in 0..(i - 1)] ==
          IF k = 0 THEN AtStart ELSE Past(after[k - 1], s[k])
    IN  after[i - 1]

InParser(st) == st.open # << >> /\ Last(st.open) = "st_parse"

Casts == {"::text", "::GEOMETRY"}

\* The quote at j closes a literal whose body starts as WKT.
ClosesWkt(s, j) ==
    /\ s[j] = "'" /\ StateAt(s, j).in = "literal" /\ StateAt(s, j).body = "WKT"
    /\ j < Len(s) => s[j + 1] # "'"

\* Mutant of WantsCast: a cast that is there is not seen.
WantsCastAgain(s, j) == ClosesWkt(s, j) /\ ~InParser(StateAt(s, j))

\* No cast follows, and the innermost open bracket is no parser's.
WantsCast(s, j) ==
    /\ ClosesWkt(s, j) /\ ~InParser(StateAt(s, j))
    /\ j < Len(s) => s[j + 1] \notin Casts

\* Literals are copied, everything else is pushed byte by byte.
InjectGeometryCasts(s) ==
    FlattenSeq([j \in DOMAIN s |->
        CASE WantsCast(s, j) -> <<s[j], "::GEOMETRY">>
          [] s[j] = "wide" /\ StateAt(s, j).in # "literal" -> <<"wide", "wide">>
          [] OTHER -> <<s[j]>>])

\* Mutant of ProbeSql: casts first.
ProbeSqlCastFirst(s) == StripLeadingLabel(InjectGeometryCasts(s))

ProbeSql(s) == InjectGeometryCasts(StripLeadingLabel(s))

-----------------------------------------------------------------------------

\* The columns of the row a SELECT returns.
Columns(s) ==
    1 + Cardinality({i \in Bare(s) :
            /\ s[i] = "," /\ Outermost(s, i)
            /\ \A k \in Bare(s) :
                  k < i /\ s[k] \in Stops \cup {"ORDER BY"} => ~Outermost(s, k)})

(***************************************************************************)
(* The probe of a case calls the functions the case was filed under, in    *)
(* their order, and its row has the columns PostGIS expects: all of the    *)
(* statement's but the label, which build_label_index has cut off.         *)
(* The label is read by one function and cut by another, and a label that  *)
(* is WKT must be gone before casts are put in.                            *)
(* (main.rs:384-396, parse.rs:380-461, preprocess.rs:120-250)              *)
(***************************************************************************)
ProbeFitsItsCase(s) ==
    /\ Functions(ProbeSql(s)) = Functions(s)
    /\ Columns(ProbeSql(s)) =
          Columns(s) - (IF ExtractLabel(s) = NoLabel THEN 0 ELSE 1)

\* Nothing outside ASCII outside literals.
PlainCode(s) ==
    \A i \in DOMAIN s : s[i] = "wide" => StateAt(s, i).in = "literal"

\* The list without its characters outside ASCII.
Narrow(s) == Selected(s, {i \in DOMAIN s : s[i] # "wide"})

(***************************************************************************)
(* Casting again adds no cast, and changes nothing in a row in ASCII but   *)
(* for its literals: "the preprocess helper is also called on migrated     *)
(* rows in-place, where comments may survive", and which may have their    *)
(* casts already.  (preprocess.rs:120-250, 306-312)                        *)
(***************************************************************************)
CastingAgainIsNoChange(s) ==
    LET once == InjectGeometryCasts(s)
        again == InjectGeometryCasts(once)
    IN  /\ Narrow(again) = Narrow(once)
        /\ PlainCode(s) => again = once
=============================================================================
