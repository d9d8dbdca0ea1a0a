---------------------------- MODULE MCCimaParser ----------------------------
EXTENDS CimaParser

\* Each vocabulary brings together the tokens of one part of the grammar.
Binary == {"NAME", "PLUS", "STAR", "CARET"}
Assignments == {"NAME", "ASSIGN", "PLUS", "EQ"}
Unary == {"NAME", "NOT", "MINUS", "CARET", "DOT"}
References == {"NAME", "AND", "EQ", "LPAREN", "RPAREN", "LBRACK", "RBRACK"}
Primaries == {"LIT", "PLUS", "LPAREN", "RPAREN", "LBRACK", "RBRACK", "COMMA"}
Calls == {"NAME", "LPAREN", "RPAREN", "COLON", "COMMA", "AS"}
Structs == {"NAME", "AT", "LBRACE", "RBRACE", "COLON"}
Branches == {"NAME", "KW_IF", "KW_ELIF", "KW_ELSE", "LBRACE", "RBRACE", "SEMICOLON"}
Loops == {"NAME", "KW_FOR", "LBRACE", "RBRACE", "SEMICOLON", "KW_LET"}
Whiles == {"NAME", "KW_WHILE", "KW_FOREVER", "LBRACE", "RBRACE", "KW_BREAK"}
Steps == {"KW_FOR", "SEMICOLON", "LBRACK", "RBRACK", "LBRACE", "RBRACE"}
Jumps == {"NAME", "LBRACE", "RBRACE", "KW_RETURN", "SEMICOLON", "KW_CONST", "ASSIGN"}
Functions == {"NAME", "KW_FUNC", "LPAREN", "RPAREN", "COLON", "COMMA", "FAT_ARROW",
              "ELLIPSIS", "KW_CONST"}
Methods == {"NAME", "KW_STRUCT", "LBRACE", "RBRACE", "COLON", "KW_STATIC", "KW_CONST",
            "KW_FUNC", "LPAREN", "RPAREN", "ASSIGN"}
Enums == {"NAME", "KW_ENUM", "LBRACE", "RBRACE", "COLON", "COMMA"}
Types == {"NAME", "KW_LET", "COLON", "LBRACK", "RBRACK", "AND", "ASSIGN"}

AllVocabularies ==
  {Binary, Assignments, Unary, References, Primaries, Calls, Structs, Branches, Loops, Whiles, Steps,
   Jumps, Functions, Methods, Enums, Types}
=============================================================================
