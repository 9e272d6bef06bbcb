---------------------------- MODULE MCToolchain ----------------------------
EXTENDS Toolchain, ToolchainInputs
=============================================================================
