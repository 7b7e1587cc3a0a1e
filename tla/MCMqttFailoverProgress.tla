------------------------ MODULE MCMqttFailoverProgress ------------------------
EXTENDS MqttFailoverProgress
CONSTANTS h1, h2
MCDirectories ==
  { << [host |-> h1, role |-> "primary"], [host |-> h2, role |-> "backup"] >>,
    << [host |-> h2, role |-> "backup"], [host |-> h1, role |-> "primary"] >> }
===============================================================================
