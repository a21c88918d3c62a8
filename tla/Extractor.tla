----------------------------- MODULE Extractor -----------------------------
(***************************************************************************)
(* How the object pageData is cut out of the HTML of an auction's page     *)
(* (app/providers/yahoo/extractor.py).  A text is a sequence of the tokens *)
(* that the extractor tells apart; "other" is any other character.         *)
(***************************************************************************)
EXTENDS Values, Integers, Sequences, FiniteSetsExt

CONSTANTS Window,      \* how far behind a marker the object may begin (200)
          MaxLength    \* MAX_OBJECT_LEN

Markers == <<"pageData", "PageData">>

Tokens == {"pageData", "PageData", "{", "}", "quote", "backslash", "other"}

-----------------------------------------------------------------------------
\* The scanner's state: how many braces are open, and whether it is in a string
\* (in_string), there behind a backslash (escaped), or in neither.
Code(d)   == [depth |-> d, mode |-> "code"]
Str(d)    == [depth |-> d, mode |-> "string"]
Escape(d) == [depth |-> d, mode |-> "escape"]

\* Mutated form of Read: a backslash does not protect a quote.
ReadUnescaped(s, token) ==
    CASE s.mode = "code" /\ token = "quote"       -> Str(s.depth)
      [] s.mode = "code" /\ token = "{"           -> Code(s.depth + 1)
      [] s.mode = "code" /\ token = "}"           -> Code(s.depth - 1)
      [] s.mode = "string" /\ token = "quote"     -> Code(s.depth)
      [] OTHER                                    -> s

\* One step of the scanner: within a string braces do not count, and a backslash
\* protects the next character, whatever it is.
Read(s, token) ==
    CASE s.mode = "code" /\ token = "quote"       -> Str(s.depth)
      [] s.mode = "code" /\ token = "{"           -> Code(s.depth + 1)
      [] s.mode = "code" /\ token = "}"           -> Code(s.depth - 1)
      [] s.mode = "string" /\ token = "quote"     -> Code(s.depth)
      [] s.mode = "string" /\ token = "backslash" -> Escape(s.depth)
      [] s.mode = "escape"                        -> Str(s.depth)
      [] OTHER                                    -> s

\* Its state behind each token of a text.
Scan(text) ==
    LET S[i \in 0..Len(text)] == IF i = 0 THEN Code(0) ELSE Read(S[i - 1], text[i])
    IN  S

\* _extract_balanced_object: from the brace at start to the one that closes it.
BalancedObject(text, start) ==
    LET rest    == SubSeq(text, start, Len(text))
        scanned == Scan(rest)
        closing == {i \in 1..Len(rest) : scanned[i].depth = 0}
    IN  IF closing = {} \/ Min(closing) - 1 > MaxLength THEN None
        ELSE SubSeq(rest, 1, Min(closing))

\* Where an object may begin after the marker at position at.
Braces(text, at) ==
    {i \in at..Len(text) : text[i] = "{" /\ i < at + Window}

\* _iter_candidates: the object at the first brace behind the marker.
Candidate(text, at) == BalancedObject(text, Min(Braces(text, at)))

\* The occurrences of a marker whose candidate is a JSON object, as json.loads
\* decides: here, by membership in a set of objects.
Found(text, marker, objects) ==
    {at \in 1..Len(text) : /\ text[at] = marker /\ Braces(text, at) # {}
                           /\ Candidate(text, at) \in objects}

\* extract: the first of them, one marker's occurrences after the other's; None
\* stands for the error.
Extract(text, objects) ==
    LET found == {m \in DOMAIN Markers : Found(text, Markers[m], objects) # {}}
    IN  IF found = {} THEN None
        ELSE Candidate(text, Min(Found(text, Markers[Min(found)], objects)))
=============================================================================
