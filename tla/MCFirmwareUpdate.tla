-------------------------- MODULE MCFirmwareUpdate --------------------------
EXTENDS FirmwareUpdate
MCBuild == {"factory", "product"}
MCAuth == {"factory"}
=============================================================================
