------------------------------- MODULE WebText -------------------------------
(***************************************************************************)
(* WebText: the paragraph and list tags that the two product pages put     *)
(* into a description, and getFirstParagraph(), which views/home.php calls *)
(* for its list of products.  No controller loads that view: the default   *)
(* page is the static views/index-be-store.php.                            *)
(*                                                                         *)
(* A text is a sequence of tokens: the characters the methods look for,    *)
(* and one token for each stretch of other text.  Descriptions are stored  *)
(* as they were typed; one that has HTML tags of its own is left out.      *)
(***************************************************************************)
EXTENDS Integers, Sequences, SequencesExt

CONSTANTS
    Words,      \* stretches of text without the characters below
    MaxTokens   \* bound: tokens of a description

CR    == "\r"
LF    == "\n"
Space == " "
Star  == "*"

Characters == Words \cup {CR, LF, Space, Star}
Tags       == {"<p>", "</p>", "<ul>", "</ul>", "<li>", "</li>"}

ASSUME WebTextAssumption ==
    /\ MaxTokens \in Nat
    /\ Words \cap ({CR, LF, Space, Star} \cup Tags) = {}

VARIABLES
    stage,      \* the next statement
    given,      \* the description
    text,       \* what it has become so far
    paragraphs, \* what the loop has still to tag
    tagged,     \* $text
    first       \* what getFirstParagraph() returns

textVars == <<stage, given, text, paragraphs, tagged, first>>

TextInit ==
    /\ stage = "windows"
    /\ given \in BoundedSeq(Characters, MaxTokens)
    /\ text = given
    /\ paragraphs = <<>>
    /\ tagged = <<>>
    /\ first = <<>>
-----------------------------------------------------------------------------
(* addTags().                                                              *)

\* Mutant of ReplaceWindows: Mac line ends come first, so that a CR LF becomes
\* two line ends.
ReplaceMacFirst ==
    /\ stage = "windows"
    /\ text' = ReplaceAll(text, CR, LF)
    /\ stage' = "mac"
    /\ UNCHANGED <<given, paragraphs, tagged, first>>

\* The CR of every CR LF goes.
UnixEnds(s) ==
    LET Kept(i) == ~ (s[i] = CR /\ i < Len(s) /\ s[i + 1] = LF)
    IN FoldLeftDomain(LAMBDA u, i : IF Kept(i) THEN Append(u, s[i]) ELSE u, <<>>, s)

\* str_replace("\r\n", "\n")
ReplaceWindows ==
    /\ stage = "windows"
    /\ text' = UnixEnds(text)
    /\ stage' = "mac"
    /\ UNCHANGED <<given, paragraphs, tagged, first>>

\* str_replace("\r", "\n").
ReplaceMac ==
    /\ stage = "mac"
    /\ text' = ReplaceAll(text, CR, LF)
    /\ stage' = "explode"
    /\ UNCHANGED <<given, paragraphs, tagged, first>>

\* explode() on two LFs, found from the left.
Split(s) ==
    FoldLeft(LAMBDA parts, c :
                IF c = LF /\ Last(parts) # <<>> /\ Last(Last(parts)) = LF
                THEN Front(parts) \o <<Front(Last(parts)), <<>>>>
                ELSE Append(Front(parts), Append(Last(parts), c)),
             <<<<>>>>, s)

Explode ==
    /\ stage = "explode"
    /\ paragraphs' = Split(text)
    /\ stage' = "loop"
    /\ UNCHANGED <<given, text, tagged, first>>

\* Mutant of LTrim: the first character goes, whatever it is.
LTrimBlindly(s) == IF s = <<>> THEN s ELSE Tail(s)

\* ltrim()
LTrim(s) ==
    LET i == SelectInSeq(s, LAMBDA c : c \notin {Space, LF})
    IN IF i = 0 THEN <<>> ELSE SubSeq(s, i, Len(s))

\* Mutant of ListTags: nothing ends the last item.
ListTagsOpen(p) ==
    ReplaceAll(ReplaceAll(<<"<ul>">> \o p \o <<"</ul>">>, Star, "<li>"), LF, "</li>")

ListTags(p) ==
    ReplaceAll(ReplaceAll(<<"<ul>">> \o p \o <<"</li>", "</ul>">>, Star, "<li>"),
               LF, "</li>")

IsList(p) == p # <<>> /\ p[1] = Star

Tagged(p) == IF IsList(p) THEN ListTags(p) ELSE <<"<p>">> \o p \o <<"</p>">>

\* Once round the loop.
AddTags ==
    /\ stage = "loop"
    /\ paragraphs # <<>>
    /\ tagged' = tagged \o Tagged(LTrim(Head(paragraphs)))
    /\ paragraphs' = Tail(paragraphs)
    /\ UNCHANGED <<stage, given, text, first>>

EndOfLoop ==
    /\ stage = "loop"
    /\ paragraphs = <<>>
    /\ stage' = "cut"
    /\ UNCHANGED <<given, text, paragraphs, tagged, first>>
-----------------------------------------------------------------------------
(* getFirstParagraph().                                                    *)

\* substr($s, 3): three characters are a <p>, and all of a <ul> but its last.
FromFourth(s) == IF s[1] = "<ul>" THEN <<">">> \o Tail(s) ELSE Tail(s)

\* strpos() finds the first </p>; when there is none its FALSE counts as 0, and
\* the length -3 leaves out the last three characters, of a </ul>.
FirstParagraph(s) ==
    LET i == SelectInSeq(s, LAMBDA c : c = "</p>")
    IN IF i = 0 THEN FromFourth(Front(s)) \o <<"</">>
       ELSE FromFourth(SubSeq(s, 1, i - 1))

GetFirstParagraph ==
    /\ stage = "cut"
    /\ first' = FirstParagraph(tagged)
    /\ stage' = "done"
    /\ UNCHANGED <<given, text, paragraphs, tagged>>

Done == stage = "done" /\ UNCHANGED textVars

TextNext ==
    \/ ReplaceWindows
    \/ ReplaceMac
    \/ Explode
    \/ AddTags
    \/ EndOfLoop
    \/ GetFirstParagraph
    \/ Done

TextSpec == TextInit /\ [][TextNext]_textVars
-----------------------------------------------------------------------------
(* Correctness.                                                            *)

\* How deep each prefix of a tagged text is nested, "bad" where a tag stands
\* where HTML does not allow it.
Nest(where, c) ==
    CASE where = "top" /\ c = "<p>"    -> "p"
      [] where = "p"   /\ c = "</p>"   -> "top"
      [] where = "top" /\ c = "<ul>"   -> "ul"
      [] where = "ul"  /\ c = "</ul>"  -> "top"
      [] where = "ul"  /\ c = "<li>"   -> "li"
      [] where = "li"  /\ c = "</li>"  -> "ul"
      [] where \in {"p", "li"} /\ c \notin Tags -> where
      [] OTHER -> "bad"

\* The paragraphs of the text as a reader counts them, and lists whose every
\* line is one item.
Blocks == {p \in Range(Split(ReplaceAll(text, CR, LF))) : LTrim(p) # <<>>}

Itemised(p) ==
    \A i \in 1 .. Len(p) : p[i] = Star <=> i = 1 \/ p[i - 1] = LF

Regular == \A p \in Blocks : IsList(LTrim(p)) =>
              Itemised(LTrim(p)) /\ Last(p) # LF

WordsOf(s) ==
    FoldLeft(LAMBDA found, c : IF c \in Words THEN Append(found, c) ELSE found, <<>>, s)

\* Whatever the text, no word of it is lost, doubled or moved by tagging.
WordsKept ==
    /\ stage \in {"cut", "done"} => WordsOf(tagged) = WordsOf(given)
    /\ WordsOf(text) = WordsOf(given)

\* After every paragraph the tags so far are well nested, if each line of each
\* list is one item and no list ends in an empty line.
WellNested ==
    stage \in {"loop", "cut", "done"} /\ Regular =>
        FoldLeft(Nest, "top", tagged) = "top"

\* Two texts that differ only in how their lines end are tagged alike: both
\* replacements together leave LFs where the text had line ends, no more and
\* no fewer.
LineEnds(s) ==
    Cardinality({i \in 1 .. Len(s) :
                    s[i] = LF \/ (s[i] = CR /\ (i = Len(s) \/ s[i + 1] # LF))})

LinesKept ==
    stage \notin {"windows", "mac"} =>
        /\ CR \notin Range(text)
        /\ LineEnds(text) = LineEnds(given)

\* What the comment of getFirstParagraph() promises of any description, one that
\* starts with a list too: it returns the first paragraph, and that alone, with
\* the tags that addTags() gives it or, as views/home.php wants it, without the
\* two around it.
FirstParagraphReturned ==
    stage = "done" =>
        LET p == Tagged(LTrim(Split(text)[1]))
        IN first = p \/ first = Tail(Front(p))
=============================================================================
