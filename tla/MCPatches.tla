------------------------------ MODULE MCPatches ------------------------------
EXTENDS PatchLib, EngineImages
=============================================================================
