------------------------------ MODULE MCWifiLink ------------------------------
EXTENDS WifiLink
===============================================================================
