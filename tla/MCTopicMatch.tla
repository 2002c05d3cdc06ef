------------------------------ MODULE MCTopicMatch -----------------------------
(* Small instances of TopicMatch for TLC. *)
EXTENDS TopicMatch

Base == "zigbee2mqtt"

(* The topics of the list of devices and of the devices lamp and lamp/left,  *)
(* whose capabilities are synchronised. Nothing else is subscribed to, and so *)
(* nothing else arrives.                                                      *)
MCTopics == {<<Base, "bridge", "devices">>, <<Base, "lamp">>, <<Base, "lamp", "left">>}
================================================================================
