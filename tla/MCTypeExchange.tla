--------------------------- MODULE MCTypeExchange ---------------------------
(* Model checking instance of TypeExchange: a guest with compiled types, a *)
(* guest that knows only an enum at first, and a host without types of its *)
(* own; a struct that uses a vector of a struct that uses an enum.         *)
EXTENDS TypeExchange

MCOrder == <<"color", "inner", "list", "outer">>
MCKind == [color |-> "enum", inner |-> "struct", list |-> "vector",
           outer |-> "struct"]
MCUses == [color |-> <<>>, inner |-> <<"color">>, list |-> <<"inner">>,
           outer |-> <<"list", "color">>]
MCStatic == [maker |-> {"color", "inner", "list", "outer"},
             viewer |-> {"color", "inner"}, host |-> {}]
MCPolicy == [maker |-> "All", viewer |-> "InternalOnly", host |-> "InternalOnly"]
MCPreload == [maker |-> <<"outer">>, viewer |-> <<>>]
=============================================================================
