-------------------------- MODULE MCDubboServices --------------------------
(***************************************************************************)
(* An instance of DubboServices for TLC.  Sessions: user v1 logs in on two *)
(* phones and a browser, user v2 on a phone.  Users: u1 has to register and*)
(* changes the account later, u2 has a name that is taken or not, u1 and   *)
(* u3 have none and get a numbered nickname.                               *)
(***************************************************************************)
EXTENDS DubboServices, TLC

CONSTANTS s1, s2, s3, s4, v1, v2, u1, u2, u3

FourSessions == {s1, s2, s3, s4}
SessionUsers == [s \in Sessions |-> IF s = s4 THEN v2 ELSE v1]
Devices == [s \in Sessions |-> IF s = s1 THEN "Android" ELSE IF s = s3 THEN "Web" ELSE "IOS"]

Bob == Named("bob", <<>>)
Bobs == {Bob} \cup {Named("bob", <<n>>) : n \in 1..3}
NoneOrBobs == {{}, Bobs}
OneUname == [x \in Users |-> IF x = u2 THEN Bob ELSE NoName]
Profile(mobile, email, identity, typed) ==
  TuandaiResponse([f \in Contacts |-> IF f = "mobile" THEN mobile ELSE email],
                  identity, identity = "card", typed)
UserProfiles == [x \in Users |->
  IF x = u1 THEN <<Profile("m1", "", "odd", TRUE), Profile("m2", "e2", "card", TRUE)>>
  ELSE IF x = u2 THEN <<Profile("", "e2", "odd", TRUE), Profile("", "e2", "odd", FALSE)>>
  ELSE <<Profile("", "", "", TRUE)>>]

ClientSymmetry == Permutations(Clients)
=============================================================================
