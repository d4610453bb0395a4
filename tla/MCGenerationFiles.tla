-------------------------- MODULE MCGenerationFiles --------------------------
(* Three columns, which an import may bring in another order.              *)
EXTENDS GenerationFiles, TLC

MCSchemas == {<<"a", "b", "c">>, <<"c", "a", "b">>}
MCIndexChoices == {{"a", "b"}, {"a", "b", "c"}}
=============================================================================
