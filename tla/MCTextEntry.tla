----------------------------- MODULE MCTextEntry -----------------------------
(* Small instances of TextEntry for TLC. *)
EXTENDS TextEntry

\* Every printable ASCII character and one that has no key, alone and in pairs with a few.
Symbols == UNION {{k[1], k[2]} : k \in SymbolKeys} \cup {"no key"}
Every == Symbols \cup ToSet(Lower) \cup ToSet(Upper)
MCKeyboard ==
    {<<c>> : c \in Every \ {"%"}}
        \cup {<<c, d>> : c \in (Every \ {"%"}), d \in {"x", "Q", "=", "?", "|"}}

\* All texts of up to five characters that can form escapes, escaped escapes, broken
\* escapes and several values.
PercentChars == {"%", "2", "5", "=", "g"}
MCPercent == UNION {[1..n -> PercentChars] : n \in 1..5}

MCInputs == MCKeyboard \cup MCPercent

MCSymbols == {<<c>> : c \in Symbols}
MCEquals == UNION {[1..n -> {"=", "g"}] : n \in 1..5}
==============================================================================
