------------------------- MODULE MCRequestPipeline -------------------------
(* RequestPipeline with an ordinary key and an admin key.                    *)
EXTENDS RequestPipeline, TLC
CONSTANTS user, boss
MCNames == {user, boss}
MCAdminNames == {boss}
=============================================================================
