---------------------------- MODULE MCChatServer ----------------------------
(* Model-checking instances of ChatServer: who logs in as whom, and what   *)
(* each client may send.                                                   *)
EXTENDS ChatServer, TLC

CONSTANTS c1, c2, c3, c4, b1, b2, b3, b4

Two   == {c1, c2}
Three == {c1, c2, c3}
Four  == {c1, c2, c3, c4}
Nobody  == {}
Third   == {c3}
LastTwo == {c2, c3}

TwoBlocks   == {b1, b2}
ThreeBlocks == {b1, b2, b3}
FourBlocks  == {b1, b2, b3, b4}
OneTwo      == {1, 2}
OneTwoThree == {1, 2, 3}

LoginAs(u) == [op |-> "login", user |-> u]
SendTo(u)  == [op |-> "send", to |-> u]
Ask        == [op |-> "online"]
Other      == [op |-> "other"]
Stub       == [op |-> "stub"]
Short      == [op |-> "short"]

(* Every client logs in as a user of its own and asks who is online.       *)
AskThree == c1 :> {LoginAs(1), Ask} @@ c2 :> {LoginAs(2), Ask} @@ c3 :> {LoginAs(3), Ask}

(* Messages go up the order of users only.                                 *)
SendUp == c1 :> {LoginAs(1), SendTo(2), SendTo(3)} @@ c2 :> {LoginAs(2), SendTo(3)}
            @@ c3 :> {LoginAs(3)}

(* Two users write to each other.                                          *)
SendBoth == c1 :> {LoginAs(1), SendTo(2)} @@ c2 :> {LoginAs(2), SendTo(1)}

(* One user logs in from three connections; the fourth client is that user *)
(* or another one, and may send a message too short to be one, or ask for  *)
(* an operation without a body.                                            *)
Relogin == c1 :> {LoginAs(1)} @@ c2 :> {LoginAs(1), LoginAs(2), Other, Short, Stub}
             @@ c3 :> {LoginAs(1)} @@ c4 :> {LoginAs(1)}

(* A user logs in again and another one logs in while a message is sent.   *)
ReloginSend == c1 :> {LoginAs(1), SendTo(2)} @@ c2 :> {LoginAs(2)} @@ c3 :> {LoginAs(2)}
                 @@ c4 :> {LoginAs(3)}

(* A message to a user who has not logged in, who then logs in.            *)
SendFirst == c1 :> {LoginAs(1), SendTo(2)} @@ c2 :> {LoginAs(2)}
=============================================================================
