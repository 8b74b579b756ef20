------------------------------ MODULE FilterLex ------------------------------
(***************************************************************************)
(* The lexer of aip-filtering: a filter string becomes a flat sequence of  *)
(* tokens, whitespace included (lexer.rs, token.rs).                       *)
(*                                                                         *)
(* A text is a sequence of symbols.  A symbol is a character, or a word    *)
(* that the algorithms only ever meet whole: a keyword, a field name, an   *)
(* enum value, an RFC 3339 instant.  Every word is made of text            *)
(* characters, so a word lexes as one such character does.                 *)
(***************************************************************************)
EXTENDS Integers, Sequences, FiniteSets, SequencesExt

Operators == {"(", ")", "-", ".", "=", ":", "<", ">", "!", ","}
Digits    == {"0", "1", "2", "3"}
Quotes    == {"'", "\""}
Backslash == "\\"

Token(ty, value) == [ty |-> ty, value |-> value]

\* `is_text`: what may continue an unquoted text; quotes and digits may.
IsText(c) == c \notin Operators \cup {" "}

-----------------------------------------------------------------------------
(* Where each kind of token that starts at position i ends. *)

\* `bump_while`: the first position at or after i whose symbol is not in run.
RunEnd(input, i, run) ==
  LET past == {j \in i..Len(input) : input[j] \notin run}
  IN  IF past = {} THEN Len(input) + 1 ELSE CHOOSE j \in past : \A k \in past : j =< k

\* `string`: the position after the closing quote.  A backslash that is not
\* itself escaped escapes the next symbol; 0 is the unterminated string.
RECURSIVE StringEnd(_, _, _, _)
StringEnd(input, i, quote, escaped) ==
  IF i > Len(input) THEN 0
  ELSE IF input[i] = Backslash /\ ~escaped THEN StringEnd(input, i + 1, quote, TRUE)
  ELSE IF input[i] = quote /\ ~escaped THEN i + 1
  ELSE StringEnd(input, i + 1, quote, FALSE)

SymbolAt(input, i) == IF i \in DOMAIN input THEN input[i] ELSE "eof"

Single == [c \in Operators \ {"<", ">", "!"} |->
             CASE c = "(" -> "LeftParen" [] c = ")" -> "RightParen" [] c = "-" -> "Minus"
               [] c = "." -> "Dot" [] c = "=" -> "Equals" [] c = ":" -> "Has" [] c = "," -> "Comma"]

MaybeEquals == [c \in {"<", ">", "!"} |->
                  CASE c = "<" -> <<"LessThan", "LessEquals">>
                    [] c = ">" -> <<"GreaterThan", "GreaterEquals">>
                    [] c = "!" -> <<"Exclaim", "NotEquals">>]

\* `TokenType::keyword`, for a text run that is the word and nothing else.
Keyword(text) == CASE text = <<"NOT">> -> "Not" [] text = <<"AND">> -> "And"
                   [] text = <<"OR">> -> "Or" [] OTHER -> "Text"

\* `next_token`: the kind of the token at i and the position after it.
NextToken(input, i) ==
  LET c == input[i]
      upTo(ty, j) == [ty |-> ty, end |-> j]
  IN  CASE c \in DOMAIN Single -> upTo(Single[c], i + 1)
        [] c \in DOMAIN MaybeEquals ->
             IF SymbolAt(input, i + 1) = "=" THEN upTo(MaybeEquals[c][2], i + 2)
                                             ELSE upTo(MaybeEquals[c][1], i + 1)
        [] c \in Quotes -> upTo("String", StringEnd(input, i + 1, c, FALSE))
        [] c \in Digits ->
             IF SymbolAt(input, i + 1) = "x"
               THEN upTo("HexNumber", RunEnd(input, i + 2, Digits))
               ELSE upTo("Number", RunEnd(input, i + 1, Digits))
        [] c = " " -> upTo("Whitespace", RunEnd(input, i, {" "}))
        [] OTHER -> LET j == RunEnd(input, i, {d \in Range(input) : IsText(d)})
                    IN  upTo(Keyword(SubSeq(input, i, j - 1)), j)

\* `tokenize`, from position i; the one lexical error is <<Token("Error", ..)>>.
RECURSIVE TokensFrom(_, _)
TokensFrom(input, i) ==
  IF i > Len(input) THEN <<>>
  ELSE LET next == NextToken(input, i)
       IN  IF next.end = 0 THEN <<Token("Error", <<>>)>>
           ELSE <<Token(next.ty, SubSeq(input, i, next.end - 1))>> \o TokensFrom(input, next.end)

Tokenize(input) == TokensFrom(input, 1)
LexFails(tokens) == tokens # <<>> /\ Last(tokens).ty = "Error"

-----------------------------------------------------------------------------
(* What the parser asks of a token. *)

ComparisonFunction ==
  [ty \in {"Equals", "NotEquals", "LessThan", "LessEquals", "GreaterThan",
           "GreaterEquals", "Has"} |->
     CASE ty = "Equals" -> "=" [] ty = "NotEquals" -> "!=" [] ty = "LessThan" -> "<"
       [] ty = "LessEquals" -> "<=" [] ty = "GreaterThan" -> ">"
       [] ty = "GreaterEquals" -> ">=" [] ty = "Has" -> ":"]

Comparators == DOMAIN ComparisonFunction
Keywords    == {"Not", "And", "Or"}
ValueTypes  == {"Text", "String"}
NameTypes   == {"Text"} \cup Keywords
FieldTypes  == ValueTypes \cup Keywords \cup {"Number"}

\* `unescape_char` on the symbol after a backslash; the escapes that name a
\* character by number are left out, and any other letter is malformed.
Escapable == {Backslash, "'", "\"", "?"}
NoText    == <<"malformed">>

\* `unescape`: the text between the quotes with its escapes resolved.
RECURSIVE UnescapeFrom(_)
UnescapeFrom(s) ==
  CASE s = <<>> -> <<>>
    [] s # <<>> /\ s[1] # Backslash ->
         LET rest == UnescapeFrom(Tail(s))
         IN  IF rest = NoText THEN NoText ELSE <<s[1]>> \o rest
    [] s # <<>> /\ s[1] = Backslash ->
         IF Len(s) = 1 \/ s[2] \notin Escapable THEN NoText
         ELSE LET rest == UnescapeFrom(SubSeq(s, 3, Len(s)))
              IN  IF rest = NoText THEN NoText ELSE <<s[2]>> \o rest

Unescape(value) ==
  IF Len(value) < 2 \/ value[1] # Last(value) THEN NoText
  ELSE UnescapeFrom(SubSeq(value, 2, Len(value) - 1))

\* `unquote`: a string token is unescaped, any other is taken verbatim.
Unquote(token) == IF token.ty = "String" THEN Unescape(token.value) ELSE token.value
=============================================================================
