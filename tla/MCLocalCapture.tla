---------------------------- MODULE MCLocalCapture ----------------------------
(* Bounds for TLC: the frames that tell the conditions apart.              *)
EXTENDS LocalCapture

Frame(person, yaw, full, body) ==
    [person |-> person, croppable |-> TRUE, full |-> full, body |-> body, yaw |-> yaw]

BoundedFrames ==
    {Frame(0, NoTime, 2, 0),    \* nobody, and a phone on the desk
     Frame(2, 0, 0, 0),         \* looking ahead
     Frame(2, 2, 0, 0),         \* turned
     Frame(2, NoTime, 1, 2)}    \* a face that is not found, a phone in the hand

Box(onPresenter, overBoard) ==
    [confident |-> TRUE, onPresenter |-> onPresenter, overBoard |-> overBoard]

BoundedViews ==
    {[boxes |-> {}, blurred |-> FALSE, flat |-> FALSE],
     [boxes |-> {Box(TRUE, FALSE)}, blurred |-> FALSE, flat |-> FALSE],
     [boxes |-> {Box(TRUE, TRUE)}, blurred |-> TRUE, flat |-> FALSE]}

BoundedFindings == {{}, {"phone_visible"}, Signals}
=============================================================================
