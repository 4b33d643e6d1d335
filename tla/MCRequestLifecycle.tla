------------------------- MODULE MCRequestLifecycle -------------------------
(* Instances of RequestLifecycle: two connections whose clients use the same *)
(* request ids.  Either the requests do different work, or two downloads and *)
(* an action contend for models.                                             *)
EXTENDS RequestLifecycle, TLC

CONSTANTS c1, c2, r1, r2, r3, m, n

MCConnOf == r1 :> c1 @@ r2 :> c2 @@ r3 :> c1
MCIdOf == r1 :> 1 @@ r2 :> 1 @@ r3 :> 2
MCModelOf == r1 :> m @@ r2 :> n @@ r3 :> n

MCWorkloads == { r1 :> "generate" @@ r2 :> "image" @@ r3 :> "pull",
                 r1 :> "pull" @@ r2 :> "pull" @@ r3 :> "action" }
=============================================================================
