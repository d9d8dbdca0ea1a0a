---------------------------- MODULE MCCimaFormat ----------------------------
EXTENDS CimaFormat

\* Each vocabulary brings together the characters of one part of the lexer.
Words == {"a", " ", ",", "{", "}"}
Braces == {"{", "}", "\"", "\\", "a"}
Numbers == {"1", "e", "-", ".", "{", "}"}
Operators == {">", "=", "&", "a", " "}
Comments == {"#", "~", "\n", "\"", ".", "a"}
Letters == {"'", "\\", "a", " ", "#"}

AllVocabularies == {Words, Braces, Numbers, Operators, Comments, Letters}
=============================================================================
