----------------------------- MODULE MCConsole -----------------------------
(* Every driver; texts with a newline first, last and between.             *)
EXTENDS Console

AllDrivers == {"imx6", "imx7", "imx31", "zynq7000", "zynqmp", "bcm2837", "exynos4", "exynos5",
               "realview", "apq8064", "omap3", "nslu2", "am335x", "tk1", "tx1", "tx2", "hikey",
               "odroidc2", "spike"}
Switching == <<"s", "\n">>
Started == <<"\n", "e", "\n", "\n", "l">>
=============================================================================
