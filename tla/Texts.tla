------------------------------- MODULE Texts --------------------------------
(***************************************************************************)
(* Texts that the library reads: the pattern of a route (PathParser), a    *)
(* media type (MediaType), and Base64.  A text grows piece by piece, and   *)
(* is compared with what its grammar says of it.                           *)
(***************************************************************************)
EXTENDS PathParser, MediaType, Base64

CONSTANTS Starts,  \* the beginnings of the texts of a reader
          Pieces,  \* what a text grows by
          Room     \* bound: how much longer than its beginning a text gets

VARIABLES reader,  \* "pattern", "media" or "base64"
          text,    \* what it was given
          size,    \* the size of the beginning
          machine  \* the parser of the pattern, or the decoder, behind the text

textVars == <<reader, text, size, machine>>

\* What the reader makes of more of a text.
Fed(r, m, piece) ==
  CASE r = "pattern" -> FoldLeft(LAMBDA p, c : OnRoot(p, c, TRUE), m, piece)
    [] r = "base64" -> FoldLeft(DecodeNext, m, piece)
    [] r = "media" -> m
GivenUp == \/ reader = "pattern" /\ machine.bad
           \/ reader = "base64" /\ IsError(machine)

Unfed(r) == CASE r = "pattern" -> Start [] r = "base64" -> Fresh [] r = "media" -> NoMedia

TextInit == /\ reader \in DOMAIN Starts
            /\ text \in Starts[reader]
            /\ size = Len(text)
            /\ machine = Fed(reader, Unfed(reader), text)

\* A reader that has given up looks at nothing behind.
Grow(piece) == /\ ~GivenUp /\ Len(text) + Len(piece) <= size + Room[reader]
               /\ text' = text \o piece
               /\ machine' = Fed(reader, machine, piece)
               /\ UNCHANGED <<reader, size>>

TextNext == \E piece \in Pieces[reader] : Grow(piece)

TextSpec == TextInit /\ [][TextNext]_textVars
-----------------------------------------------------------------------------
(* What a pattern is: segments between slashes, of characters or, but for  *)
(* the first, a name in braces; at the end there may be "#" and a name.    *)
Positions(s, c) == {k \in DOMAIN s : s[k] = c}
Encodable(s) ==
  /\ ToSet(s) \subseteq Plain \cup {"%"}
  /\ \A k \in Positions(s, "%") : k + 2 <= Len(s) /\ s[k + 1] \in Hex /\ s[k + 2] \in Hex
IsName(s) == s # << >> /\ Encodable(s)

UpTo(s, set) == SubSeq(s, 1, Min(set \cup {Len(s) + 1}) - 1)
After(s, set) == SubSeq(s, Min(set \cup {Len(s)}) + 1, Len(s))
\* What is between the positions, before the first and behind the last.
Between(s, positions) ==
  LET at == SelectSeq([k \in DOMAIN s |-> k], LAMBDA k : k \in positions)
      ends == <<0>> \o at \o <<Len(s) + 1>>
  IN [k \in 1..(Len(ends) - 1) |-> SubSeq(s, ends[k] + 1, ends[k + 1] - 1)]

Braced(s) == Len(s) > 2 /\ Head(s) = "{" /\ Last(s) = "}"
NameOf(s) == SubSeq(s, 2, Len(s) - 1)

\* The names of a pattern in order; a wildcard may not be called like a text
\* without a slash before it either.
Names(segments, wildcard) ==
  LET named == SelectSeq(segments, Braced)
  IN [k \in DOMAIN named |-> NameOf(named[k])] \o wildcard

IsPattern(s) ==
  LET hash == Positions(s, "#")
      before == UpTo(s, hash)
      segments == Between(before, Positions(before, "/"))
      wildcard == IF hash = {} THEN << >> ELSE <<After(s, hash)>>
  IN /\ \A k \in DOMAIN segments :
          \/ Encodable(segments[k])
          \/ k > 1 /\ Braced(segments[k]) /\ IsName(NameOf(segments[k]))
     /\ \A k \in DOMAIN wildcard : IsName(wildcard[k]) /\ ~Braced(Last(segments))
     /\ IsInjective(Names(segments, wildcard))
     /\ wildcard # << >> /\ Len(segments) = 1 => segments[1] # wildcard[1]

\* What could make a pattern of a text that is not one yet.
Ways == {"/", "}"} \cup Plain
Endings == {<< >>} \cup {<<a>> : a \in Ways} \cup {<<a, b>> : a, b \in Ways}
             \cup {<<a, b, c>> : a, b, c \in Ways}

NamesIn(tokens) == {tokens[k].text : k \in {k \in DOMAIN tokens : tokens[k].kind # "static"}}

\* The pattern of a scope and of a route in it, which begins with a slash, are
\* one pattern unless they have a name in common.
PutTogether(scope, route) ==
  LET outer == Parsed(scope, FALSE)
      inner == Parsed(route, TRUE)
  IN route # << >> /\ Head(route) = "/" /\ ~outer.bad /\ ~inner.bad =>
       (Parsed(scope \o route, TRUE).bad <=> NamesIn(outer.tokens) \cap NamesIn(inner.tokens) # {})

\* A pattern is accepted if it is one, and its tokens are what was read
\* (path_parser.hpp:74-149); as a scope's it is accepted if it has no wildcard
\* besides, and it may be put before a route's (route.hpp:42, scope.hpp:136).  The
\* parser gives up only on what nothing can make a pattern.
PatternsAreParsed ==
  reader = "pattern" =>
    LET parsed == OnLast(machine)
    IN /\ ~parsed.bad <=> IsPattern(text)
       /\ ~parsed.bad => Written(parsed.tokens) = text
       /\ ~Parsed(text, FALSE).bad <=> IsPattern(text) /\ Positions(text, "#") = {}
       /\ \A k \in DOMAIN text : PutTogether(SubSeq(text, 1, k), SubSeq(text, k + 1, Len(text)))
       /\ machine.bad => \A ending \in Endings : ~IsPattern(text \o ending)
-----------------------------------------------------------------------------
(* What a media type is: names, and between them "/", perhaps one "+", and  *)
(* any number of times ";" and "=", with blanks around each.                *)
Marks == {"/", "+", ";", "="}
MarksOf(s) == SelectSeq(s, LAMBDA c : c \in Marks)
PartsOf(s) == LET parts == Between(s, {k \in DOMAIN s : s[k] \in Marks})
              IN [k \in DOMAIN parts |-> Trim(parts[k])]
\* How many marks come before the parameters, 0 if the first is no slash.
Primary(marks) == CASE marks = << >> \/ Head(marks) # "/" -> 0
                    [] Len(marks) > 1 /\ Head(marks) = "/" /\ marks[2] = "+" -> 2
                    [] OTHER -> 1
IsMediaType(s) ==
  LET marks == MarksOf(s)
      n == Primary(marks)
  IN /\ n > 0 /\ (Len(marks) - n) % 2 = 0
     /\ \A k \in (n + 1)..Len(marks) : marks[k] = IF (k - n) % 2 = 1 THEN ";" ELSE "="
     /\ \A k \in DOMAIN PartsOf(s) : IsValidName(PartsOf(s)[k])

\* A media type is accepted if it is one, and its names are those between the
\* marks; the last value of a parameter counts (mime_view.hpp:167-200, 286-333).
MediaTypesAreParsed ==
  reader = "media" =>
    LET media == ParseMedia(text)
        parts == PartsOf(text)
        n == Primary(MarksOf(text))
        named(j) == Folded(parts[j])
        params == {j \in DOMAIN parts : j > n + 1 /\ (j - n) % 2 = 0}
    IN /\ media.ok <=> IsMediaType(text)
       /\ media.ok =>
            /\ SelectSeq(media.essence, LAMBDA c : c # Space) =
                 media.primary.type \o <<"/">> \o media.primary.subtype
                   \o FlattenSeq([k \in DOMAIN media.primary.suffix |->
                                   <<"+">> \o media.primary.suffix[k]])
            /\ <<media.primary.type, media.primary.subtype>> \o media.primary.suffix
                 = SubSeq(parts, 1, n + 1)
            /\ DOMAIN media.params = {named(j) : j \in params}
            /\ \A j \in params : (\A i \in params : i > j => named(i) # named(j)) =>
                 media.params[named(j)] = parts[j + 1]
-----------------------------------------------------------------------------
Bit(n, k, width) == (n \div 2 ^ (width - 1 - k)) % 2
\* The k-th bit of a sequence of numbers of that many bits.
BitOf(numbers, k, width) == Bit(numbers[(k \div width) + 1], k % width, width)

\* Characters of the alphabet, and then padding where two or three are left over.
Digits(s) == SelectSeq(s, LAMBDA c : c < Pad)
IsBase64(s) ==
  LET n == Len(Digits(s))
      pads == Len(s) - n
  IN /\ \A k \in DOMAIN s : s[k] = IF k > n THEN Pad ELSE Digits(s)[k]
     /\ pads > 0 => n % 4 \in {2, 3} /\ pads <= 4 - (n % 4)

\* The decoder takes what is Base64 so far, and is done where no character hangs
\* over; what it has put out are the bits of the characters, as many whole bytes
\* as there are (decoder.hpp:36-135).  Encoded again they are the same characters
\* with the padding that is asked for (encoder.hpp:57-131), unless bits were left
\* over that are not zero.
Base64IsTurnedBack ==
  reader = "base64" =>
    LET digits == Digits(text)
        n == Len(digits)
        bytes == machine.out
        spare == {k \in (8 * Len(bytes))..(6 * n - 1) : BitOf(digits, k, 6) = 1}
    IN /\ ~IsError(machine) <=> IsBase64(text)
       /\ IsBase64(text) =>
            /\ IsDone(machine) <=> n % 4 # 1
            /\ Len(bytes) = (6 * n) \div 8
            /\ \A k \in 0..(8 * Len(bytes) - 1) : BitOf(bytes, k, 8) = BitOf(digits, k, 6)
            /\ spare = {} /\ n % 4 # 1 =>
                 /\ Encode(bytes, FALSE) = digits
                 /\ IsPrefix(text, Encode(bytes, TRUE)) /\ Len(Encode(bytes, TRUE)) % 4 = 0
=============================================================================
