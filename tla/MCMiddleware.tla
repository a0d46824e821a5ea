---------------------------- MODULE MCMiddleware ----------------------------
(* The prepared stack, with a Gin handler of a third party in front of it and
   behind it, and every order of up to three kinds of middleware. *)
EXTENDS Middleware

ShortStacks ==
  {s \in UNION {[1 .. n -> Kinds] : n \in 1 .. 3} : IsInjective(s)}

MCStacks == ShortStacks \cup {DefaultStack, Append(DefaultStack, "custom"),
                              <<"custom">> \o DefaultStack}
=============================================================================
