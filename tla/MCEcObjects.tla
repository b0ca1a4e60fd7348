---------------------------- MODULE MCEcObjects ----------------------------
(***************************************************************************)
(* An instance of EcObjects for TLC: two clients on one loop; handlers of  *)
(* every kind of call; ends of months and years, leap days, zones east and *)
(* west of Greenwich, and spans on both sides of 2^31 seconds.             *)
(***************************************************************************)
EXTENDS EcObjects

OneLoop == [c \in Clients |-> "loop"]

SomeScripts ==
  {<<<<"setHeader", "K", "1">>, <<"setBody", "a">>, <<"setHeader", "K", "2">>, <<"setBody", "b">>>>,
   <<<<"setHeader", "Connection", "close">>, <<"setBody", "%%">>>>,
   <<<<"setBody", "a">>, <<"setChunk", "b">>>>,
   <<>>}

SomeZones == {0, 28800, -12600}
SomeDates ==
  {<<2015, 7, 7, 13, 5, 9>>, <<2016, 1, 31, 0, 0, 0>>, <<2000, 2, 29, 23, 59, 59>>,
   <<2015, 12, 31, 23, 59, 59>>, <<1970, 1, 1, 0, 0, 0>>}
SomeNumbers ==
  [setYear |-> {1899, 2000, 2015}, setMonth |-> {2, 12, 13}, setDay |-> {0, 29, 31, 32},
   setHour |-> {23, 24}, setMinute |-> {59}, setSecond |-> {60},
   addYear |-> {-1, 1, 85}, addMonth |-> {-15, -1, 1, 13}, addSecond |-> {-1, 86400},
   period |-> {-13, 1, 24855, 24856, 596524}]
=============================================================================
