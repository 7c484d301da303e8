--------------------------- MODULE MCSchemaGrammar ---------------------------
(***************************************************************************)
(* Types rustc accepts, up to three containers deep, with each spelling of *)
(* a container's path, prefixes left out, valid, of an invalid width and   *)
(* not a literal.                                                          *)
(***************************************************************************)
EXTENDS SchemaGrammar

Node(form, name, path, n, args) ==
    [form |-> form, name |-> name, path |-> path, n |-> n, args |-> args,
     depth |-> 1 + Max({0} \cup {args[i].depth : i \in DOMAIN args})]
Lit(n) == Node("lit", "", << >>, n, << >>)
Named(path, name, args) == Node("path", name, path, 0, args)
Const(n) == Node("expr", "", << >>, n, << >>)

U64 == Named(<< >>, "u64", << >>)
Own(ty) == Named(<<"own">>, "Wrapper", <<ty>>)
Array(ty) == Node("array", "", << >>, 2, <<ty>>)
Paren(ty) == Node("paren", "", << >>, 0, <<ty>>)

PrefixArgs == {<< >>, <<Lit(2)>>, <<Lit(3)>>, <<Const(1)>>}
Strings ==
    {Named(<< >>, "String", <<Lit(8)>>), Named(<<"pina">>, "String", <<Const(8)>>)}
      \cup {Named(<<"pinapod", "pod">>, "PodString", <<Lit(8)>> \o pfx) : pfx \in PrefixArgs}
Vecs(ty) ==
    {Named(<< >>, "Vec", <<ty, Lit(4)>>)}
      \cup {Named(<<"pinapod">>, "PodVec", <<ty, Lit(4)>> \o pfx) : pfx \in PrefixArgs}
Options(ty) ==
    {Named(<< >>, "Option", <<ty>>), Named(<<"core", "option">>, "Option", <<ty>>)}

Shallow == {U64} \cup Strings \cup Vecs(U64)
Deeper(types) ==
    UNION {{Array(ty), Paren(ty), Own(ty)} \cup Options(ty) \cup Vecs(ty) : ty \in types}
MCDeclarable == Shallow \cup Deeper(Shallow)
      \cup Deeper({Array(ty) : ty \in Shallow} \cup {Named(<< >>, "Option", <<ty>>) : ty \in Shallow}
                     \cup {Named(<< >>, "Vec", <<ty, Lit(4)>>) : ty \in Shallow})
      \cup {Named(<< >>, "Option", << >>), Named(<< >>, "Vec", <<U64>>)}
=============================================================================
