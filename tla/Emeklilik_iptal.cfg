\* No fault: the deletion of a cancelled record.
SPECIFICATION Spec
CONSTANTS
    s1 = s1
    Sekme = {s1}
    Zam = Zam
    Yok = Yok
    EnCokIs = 4
    EnCokAriza = 0
    EnCokBasma = 2
PROPERTIES IptalEdilenSilinmez
CHECK_DEADLOCK FALSE
