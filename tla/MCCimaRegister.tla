--------------------------- MODULE MCCimaRegister ---------------------------
EXTENDS CimaRegister

\* Structs with fields of each other, of arrays and of themselves, enums, functions.
AllItems ==
  {Struct("S", <<Part("int", FALSE), Method("int", FALSE)>>),
   Struct("S", <<Part("R", FALSE)>>),
   Struct("S", <<Part("S", TRUE), Static("S", "new", "S")>>),
   Struct("R", <<Part("S", FALSE), Part("S", TRUE)>>),
   Struct("R", <<Static("int", "call", "f"), Method("S", TRUE)>>),
   Struct("R", <<Part("int", TRUE), Static("S", "new", "S")>>),
   Struct("R", <<Static("int", "none", ""), Part("E", FALSE)>>),
   Enum("E", <<Static("int", "none", ""), Static("int", "plain", "")>>),
   Enum("E", <<Static("int", "new", "S"), Static("int", "call", "f")>>),
   Func("f", <<>>),
   Func("f", <<Part("S", TRUE)>>),
   Func("f", <<Part("S", FALSE), Part("E", TRUE)>>),
   Func("g", <<Part("S", TRUE), Part("R", TRUE)>>)}
=============================================================================
