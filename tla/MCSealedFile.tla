--------------------------- MODULE MCSealedFile ---------------------------
EXTENDS SealedFile

\* `x.zip' is staged as `x.vltf-part'; a folder may be called x.zip as well; and
\* a folder to be sealed may hold what an extraction has left behind.
MCOrder  == <<"left/zip", "part", "zip", "zip/k">>
MCName   == [s \in Source |-> CASE s \in {"a", "b"} -> "zip"
                                [] s = "d" -> "zip/k" [] s = "e" -> "left/zip"]
MCDraft  == {<<"part", "zip">>, <<"part", "part">>}
MCBelow  == {<<"zip", "zip/k">>}
MCHidden == {<<"left/zip", "zip">>}
MCArgs   == {<<"a", "b">>, <<"d", "e">>}
MCSealed == {[p \in {"part", "zip"} |-> <<0>>],
             [p \in {"left/zip", "zip"} |-> IF p = "zip" THEN <<0>> ELSE <<3>>]}
MCContent == {<<1, 1>>, << >>}
=============================================================================
