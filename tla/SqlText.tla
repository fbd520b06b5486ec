------------------------------- MODULE SqlText -------------------------------
(***************************************************************************)
(* The two passes of regress-scraper over a regress script (parse.rs):     *)
(* strip_comments, then split_statements on what is left, each with a      *)
(* scanner of its own for '...' and $tag$...$tag$.  A script is a sequence *)
(* of bytes, "high" one above 0x7F, of which characters outside ASCII are  *)
(* made; a doubled quote inside a literal is two literals that touch,      *)
(* which every scanner here treats alike.                                  *)
(***************************************************************************)
EXTENDS Naturals, Sequences, SequencesExt, Selection

At(t, i, word) ==
    i + Len(word) <= Len(t) + 1 /\ SubSeq(t, i, i + Len(word) - 1) = word

\* The least of a set of positions, or what stands for none.
FirstOr(none, positions) == IF positions = {} THEN none ELSE Min(positions)

\* A `$`, a tag of word characters, a `$`: the end of the opener that starts
\* at i, if one does.
OpenerEnds(t, i) ==
    {j \in (i + 1)..Len(t) :
        t[i] = "$" /\ t[j] = "$" /\ \A k \in (i + 1)..(j - 1) : t[k] = "a"}

\* The first position behind the literal that starts at i; i if none does.
\* An unterminated literal takes the rest of the text.
LiteralEnd(t, i) ==
    LET quotes == {j \in (i + 1)..Len(t) : t[j] = "'"}
        opener == SubSeq(t, i, Min(OpenerEnds(t, i)))
        closers == {j \in (i + Len(opener))..Len(t) : At(t, j, opener)}
    IN  CASE t[i] = "'" -> 1 + FirstOr(Len(t), quotes)
          [] OpenerEnds(t, i) # {} ->
                IF closers = {} THEN Len(t) + 1 ELSE Min(closers) + Len(opener)
          [] OTHER -> i

\* A line comment ends before its newline.  An unterminated block comment
\* leaves the last character of the text outside.
CommentEnd(t, i) ==
    CASE At(t, i, <<"-", "-">>) ->
            FirstOr(Len(t) + 1, {j \in i..Len(t) : t[j] = "LF"})
      [] At(t, i, <<"/", "*">>) ->
            LET closers == {j \in (i + 2)..Len(t) : At(t, j, <<"*", "/">>)}
            IN  IF closers = {} THEN Max({i + 2, Len(t)}) ELSE Min(closers) + 2
      [] OTHER -> i

\* What a scanner that knows literals, and comments where asked, makes of a
\* text: stretches of characters with the first position and the next one.
Scan(t, comments) ==
    LET After(i) == IF LiteralEnd(t, i) = i /\ comments THEN CommentEnd(t, i)
                    ELSE LiteralEnd(t, i)
        Kind(i) == IF LiteralEnd(t, i) > i THEN "literal" ELSE "comment"
        from[i \in 1..(Len(t) + 1)] ==
          CASE i > Len(t) -> << >>
            [] i <= Len(t) /\ After(i) > i ->
                  <<[kind |-> Kind(i), first |-> i, next |-> After(i)]>>
                      \o from[After(i)]
            [] OTHER -> <<[kind |-> "code", first |-> i, next |-> i + 1]>>
                            \o from[i + 1]
    IN  from[1]

\* The positions in the stretches of a kind.
Within(t, comments, kind) ==
    UNION {stretch.first..(stretch.next - 1) :
              stretch \in {s \in ToSet(Scan(t, comments)) : s.kind = kind}}

\* The newlines of a text.
Newlines(t) == Selected(t, {i \in DOMAIN t : t[i] = "LF"})

\* A byte pushed `as char` is a character of its own: one above 0x7F becomes
\* one of Latin-1.
AsChar(b) == IF b = "high" THEN "latin" ELSE b

Latin1(t) == [i \in DOMAIN t |-> AsChar(t[i])]

\* Mutant of StripComments: a comment leaves no newline behind.
StripCommentsWithLines(t) ==
    LET Left(stretch) ==
          IF stretch.kind = "comment" THEN << >>
          ELSE SubSeq(t, stretch.first, stretch.next - 1)
        scan == Scan(t, TRUE)
    IN  Latin1(FlattenSeq([k \in DOMAIN scan |-> Left(scan[k])]))

\* Comments go and their newlines stay.
WithoutComments(t) ==
    LET Text(stretch) == SubSeq(t, stretch.first, stretch.next - 1)
        Left(stretch) ==
          IF stretch.kind = "comment" THEN Newlines(Text(stretch))
          ELSE Text(stretch)
        scan == Scan(t, TRUE)
    IN  FlattenSeq([k \in DOMAIN scan |-> Left(scan[k])])

\* What stays is written byte by byte, literals and code alike.
StripComments(t) == Latin1(WithoutComments(t))

\* What trim takes to be blank.  It takes two of the Latin-1 characters as well
\* (0x85, 0xA0); that only shortens texts that are not plain.
Inked(t) == {i \in DOMAIN t : t[i] # "LF"}

Trim(t) ==
    IF Inked(t) = {} THEN << >> ELSE SubSeq(t, Min(Inked(t)), Max(Inked(t)))

LineOf(t, i) == 1 + Cardinality({k \in 1..(i - 1) : t[k] = "LF"})

WithText(stmts) == Selected(stmts, {k \in DOMAIN stmts : stmts[k].text # << >>})

\* The line of a statement is that of its first character that is not blank,
\* but for the first one, whose line is 1.
SplitStatements(t) ==
    LET cuts == {i \in DOMAIN t : t[i] = ";" /\ i \notin Within(t, FALSE, "literal")}
        starts == InOrder({1} \cup {i + 1 : i \in cuts})
        Stmt(s) ==
          [startLine |->
              IF s = 1 THEN 1
              ELSE LineOf(t, FirstOr(Len(t) + 1, {i \in Inked(t) : i >= s})),
           text |->
              Trim(SubSeq(t, s, FirstOr(Len(t) + 1, {i \in cuts : i >= s}) - 1))]
    IN  WithText([k \in DOMAIN starts |-> Stmt(starts[k])])

Statements(t) == SplitStatements(StripComments(t))

-----------------------------------------------------------------------------
(* The reference: one scanner, positions of the original.                  *)

\* The characters of comments, their newlines excepted.
InComments(t) == {i \in Within(t, TRUE, "comment") : t[i] # "LF"}

\* Each maximal stretch between semicolons of the code, without its comments,
\* with the line of its first character in the file; leads: no semicolon
\* comes before it.
FileStatements(t) ==
    LET kept == DOMAIN t \ InComments(t)
        cuts == {i \in kept \ Within(t, TRUE, "literal") : t[i] = ";"}
        starts == InOrder({1} \cup {i + 1 : i \in cuts})
        Own(s) == {i \in kept : i >= s /\ \A c \in cuts : c >= s => i < c}
        Stmt(s) ==
          [leads |-> s = 1,
           startLine |-> LineOf(t, FirstOr(Len(t) + 1, Own(s) \cap Inked(t))),
           text |-> Trim(Selected(t, Own(s)))]
    IN  WithText([k \in DOMAIN starts |-> Stmt(starts[k])])

\* A `$` outside literals may find a partner when a comment between them goes.
NoStrayDollar(t) ==
    \A i \in DOMAIN t : t[i] = "$" => i \in Within(t, TRUE, "literal") \cup InComments(t)

\* A text in ASCII.
Plain(t) == \A i \in DOMAIN t : t[i] # "high"

(***************************************************************************)
(* The two passes find the statements that one scanner finds in the file,  *)
(* those in ASCII with their texts, and those behind a semicolon with the  *)
(* lines they have in the file: what looks like a comment inside a         *)
(* literal, like a literal inside a comment, or like an end of either, is  *)
(* judged alike by both.  (parse.rs:34-136 and 141-245)                    *)
(***************************************************************************)
PassesAgree(t) ==
    NoStrayDollar(t) =>
        LET two == Statements(t)  one == FileStatements(t)
        IN  /\ Len(two) = Len(one)
            /\ \A k \in DOMAIN one :
                  /\ Plain(one[k].text) => two[k].text = one[k].text
                  /\ ~one[k].leads => two[k].startLine = one[k].startLine
=============================================================================
