----------------------------- MODULE MCCatalog -----------------------------
(* Three documents that speak of nickel matte.  The first names it twice,   *)
(* in two spellings with one slug, and has been extracted twice, the second *)
(* time with the etype of the other two: one name, two slugs.               *)
EXTENDS Catalog, TLC

CONSTANTS report, article, memo, consumer, grpc, expert, editor,
          matte, mattes,              \* names
          material, process           \* the slugs material:matte, process:matte

MCDocs == {report, article, memo}
MCNames == {matte, mattes}
MCSlugs == {material, process}
MCValues == 1..2
MCAccess == (report :> "internal") @@ (article :> "public") @@ (memo :> "public")

Fact(n, v) == [name |-> n, value |-> v]

MCBundles ==
  (report :> {[slug |-> (matte :> material) @@ (mattes :> material),
               facts |-> {Fact(matte, 1), Fact(mattes, 2)}],
              [slug |-> matte :> process, facts |-> {Fact(matte, 1)}]})
  @@ (article :> {[slug |-> matte :> process, facts |-> {Fact(matte, 1)}]})
  @@ (memo :> {[slug |-> matte :> process, facts |-> {Fact(matte, 2)}]})

MCTwo == {<<material, process>>, <<process, material>>}
MCMergePairs == MCTwo \cup {<<process, process>>}
=============================================================================
