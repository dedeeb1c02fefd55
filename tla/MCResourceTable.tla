---------------------------- MODULE MCResourceTable ----------------------------
(* Two buffers and two accesses in the life of each, so that identities    *)
(* and generations both run out; artifacts of two and of three bindings.   *)
EXTENDS ResourceTable

MCArtifacts == {<<"Read", "Read">>, <<"Write", "Read", "Read">>}
=============================================================================
