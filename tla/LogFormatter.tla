----------------------------- MODULE LogFormatter -----------------------------
(***************************************************************************)
(* LogFormatter of src/src/log.cpp: the pattern of a log line and what     *)
(* init() makes of it. A pattern is a sequence of characters.              *)
(***************************************************************************)
EXTENDS Naturals, Sequences, FiniteSetsExt, SequencesExt

(* s_format_items and the item of "%d".                                    *)
FormatItems == {"m", "p", "c", "r", "f", "l", "t", "F", "N", "%", "T", "n"}

Text(s) == [kind |-> "text", of |-> s]
Item(c) == [kind |-> "item", of |-> c]
Date(f) == [kind |-> "date", of |-> f]

-----------------------------------------------------------------------------
(* The loop of init() over the characters: mode says whether it reads text,*)
(* the character after a %, what follows a %d, or what is in its braces.   *)
Start == [mode |-> "text", tmp |-> <<>>, patterns |-> <<>>, dateformat |-> <<>>]

flush(st) == IF st.tmp = <<>> THEN st.patterns ELSE Append(st.patterns, Text(st.tmp))

readText(st, c) ==
    IF c = "%" THEN [st EXCEPT !.mode = "item", !.patterns = flush(st), !.tmp = <<>>]
               ELSE [st EXCEPT !.mode = "text", !.tmp = Append(@, c)]

(* Mutation: a brace after any item opens a format.                        *)
afterItem_Any(c) == "afterD"

afterItem(c) == IF c = "d" THEN "afterD" ELSE "text"

readItem(st, c) ==
    [st EXCEPT !.mode = afterItem(c), !.patterns = Append(@, Item(c))]

(* The braces of a date's format.                                          *)
LBrace == "{"
RBrace == "}"

readDate(st, c) ==
    IF c = RBrace THEN [st EXCEPT !.mode = "text"]
               ELSE [st EXCEPT !.dateformat = Append(@, c)]

readChar(st, c) ==
    CASE st.mode = "item" -> readItem(st, c)
      [] st.mode = "date" -> readDate(st, c)
      [] st.mode = "afterD" /\ c = LBrace -> [st EXCEPT !.mode = "date"]
      [] OTHER -> readText(st, c)

(* What has been read of the pattern when the loop ends.                   *)
read(pattern) ==
    LET state[i \in 0..Len(pattern)] ==
            IF i = 0 THEN Start ELSE readChar(state[i - 1], pattern[i])
    IN  state[Len(pattern)]

(* init(): the items up to the first unknown one, and m_error. All dates   *)
(* share one format; braces that are not closed leave no items, and so does*)
(* a %d at the end, if what is read behind the pattern is not a brace (no  *)
(* layout ends so); a % at the end leaves no item for itself.              *)
init(pattern) ==
    LET st       == read(pattern)
        closed   == st.mode \notin {"afterD", "date"}
        patterns == IF closed THEN flush(st) ELSE <<>>
        unknown  == {i \in DOMAIN patterns : patterns[i].kind = "item"
                                             /\ patterns[i].of \notin FormatItems \cup {"d"}}
        known    == Min(unknown \cup {Len(patterns) + 1}) - 1
    IN  [m_items |-> [i \in 1..known |->
                        IF patterns[i] = Item("d") THEN Date(st.dateformat) ELSE patterns[i]],
         m_error |-> ~closed \/ unknown # {}]

-----------------------------------------------------------------------------
(* What a pattern means (log.h:245-263): it is written as a sequence of    *)
(* texts, items %c and dates %d or %d{format}.                             *)
Written(item) ==
    CASE item.kind = "text" -> item.of
      [] item.kind = "item" -> <<"%", item.of>>
      [] item.kind = "date" -> IF item.of = <<>> THEN <<"%", "d">>
                                               ELSE <<"%", "d", LBrace>> \o item.of \o <<RBrace>>

PatternOf(layout) == FlattenSeq([i \in DOMAIN layout |-> Written(layout[i])])

(* The characters that end a part of a layout are not in it.               *)
Parts ==
    [kind : {"text"}, of : Seq(STRING \ {"%"}) \ {<<>>}]
        \cup [kind : {"item"}, of : STRING \ {"d"}]
        \cup [kind : {"date"}, of : Seq(STRING \ {RBrace})]

(* One way to write it only, and one date at most; a date without a format *)
(* is not the last item.                                                   *)
IsLayout(layout) ==
    /\ layout \in Seq(Parts)
    /\ \A i \in 2..Len(layout) :
          layout[i].kind = "text" =>
             /\ layout[i - 1].kind # "text"
             /\ layout[i - 1] = Date(<<>>) => layout[i].of[1] # LBrace
    /\ \A i, j \in DOMAIN layout :
          layout[i].kind = "date" /\ layout[j].kind = "date" => i = j
    /\ \A i \in DOMAIN layout : layout[i] = Date(<<>>) => i # Len(layout)

KnownItems(layout) ==
    \A i \in DOMAIN layout : layout[i].kind = "item" => layout[i].of \in FormatItems

(* A formatter that does what its pattern says, and reports an error       *)
(* exactly if there is an unknown item in it.                              *)
ReadAsMeant(layout, formatter) ==
    /\ formatter.m_error = ~KnownItems(layout)
    /\ ~formatter.m_error => formatter.m_items = layout
=============================================================================
