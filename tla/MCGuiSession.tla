--------------------------- MODULE MCGuiSession ---------------------------
EXTENDS GuiSession

MCHits    == [q \in Query |-> IF q = "" THEN Title ELSE {q}]
MCImports == {<<"a">>}
MCSettings == {[idle |-> TRUE, blur |-> FALSE], [idle |-> FALSE, blur |-> TRUE]}
MCStored  == <<"a", "b">>
=============================================================================
